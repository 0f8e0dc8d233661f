--------------------------- MODULE ChatStream_proofs ---------------------------
(***************************************************************************)
(* ChatStream for any number of streams, dialogs and calls, any texts and  *)
(* any limit of errors: what a client reads is well formed, and what it    *)
(* has read is kept.  Results have their calls, in their own dialog, with  *)
(* one dialog, or while no two streams are in the agent at once; otherwise *)
(* they share one context, and need not.                                   *)
(*                                                                         *)
(* The inductive invariant says for each point at which a stream can have  *)
(* stopped what it holds there (Place), which segments its client has open *)
(* (Seen), and which of the texts the client has read are in a journal     *)
(* already (Text): those of earlier turns are, once their calls begin,     *)
(* and the buffer still has all of them for the flush at the end.          *)
(***************************************************************************)
EXTENDS ChatStream, SequenceTheorems, TLAPS

Segments == {"chat_start", "reasoning_start"}
Locals == [at : Points, dialog : Dialogs \cup {None}, hasTitle : BOOLEAN,
           buffer : SUBSET Texts, said : SUBSET Texts, calls : Turns,
           errors : Nat, unsaved : BOOLEAN]
Clients == [open : SUBSET Segments, got : SUBSET Texts, failed : BOOLEAN,
            done : BOOLEAN, broken : BOOLEAN, gone : BOOLEAN]

Typed ==
    /\ stream \in [Streams -> Locals] /\ client \in [Streams -> Clients]
    /\ active \subseteq Streams
    /\ journal \in [Dialogs -> SUBSET Entries]
    /\ results \in [Dialogs -> SUBSET Ids]
    /\ titled \subseteq Dialogs
    /\ titleTool \in BOOLEAN /\ stopping \in BOOLEAN
    /\ context \in Dialogs \cup {None}

Early == {"idle", "sync", "user", "compact", "prepare"}
Calling == {"declare", "next", "tool", "edited"}
InAgent == {"prepare", "turn"} \cup Calling

(* What a stream with locals r holds where it has stopped.                 *)
Place(r) ==
    /\ r.at \notin {"idle", "over"} => r.dialog \in Dialogs
    /\ r.at = "idle" => ~r.unsaved
    /\ r.at \in Early => r.buffer = {}
    /\ r.at \notin Calling => r.calls = <<>>
    /\ r.at \in {"declare", "tool", "edited"} => r.calls # <<>>
    /\ r.at \in {"turn", "declare"} => r.errors < MaxErrors
    /\ r.errors + 2 * Len(r.calls) <= MaxErrors - 1 + 2 * MaxCalls

(* What its client c has seen.                                             *)
Live(c) == ~c.broken /\ ~c.done /\ ~c.failed /\ ~c.gone

Seen(r, c) ==
    /\ ~c.broken
    /\ r.at \notin {"done", "over"} => Live(c)
    /\ r.at \notin {"turn", "over"} => c.open = {}
    /\ r.at = "turn" /\ "chat_start" \in c.open => r.said # {}
    /\ r.at = "done" => c.done /\ ~c.gone
    /\ r.at = "over" => c.done \/ c.gone

(* Which of the texts it has read are kept in a journal already.           *)
Text(r, c, kept) ==
    /\ r.at \notin {"done", "over"} => c.got \subseteq r.buffer
    /\ r.at \in {"next", "tool", "edited", "done", "over"} /\ ~r.unsaved => c.got \subseteq kept
    /\ r.at \in {"turn", "declare"} /\ ~r.unsaved => c.got \ r.said \subseteq kept

Own(s) ==
    /\ Place(stream[s])
    /\ Seen(stream[s], client[s])
    /\ Text(stream[s], client[s], KeptTexts(s))
    /\ At(s, InAgent) => context \in Dialogs

IInv == Typed /\ \A s \in Streams : Own(s)

Step(s) ==
    \/ Misconfigured(s) \/ Request(s) \/ Prepare(s) \/ RunGraph(s)
    \/ StopBetweenNodes(s) \/ EnterAgent(s) \/ ContextBuilt(s) \/ ContextFails(s)
    \/ AskModel(s) \/ GiveUp(s) \/ Reason(s) \/ Speak(s) \/ ModelFails(s)
    \/ Answer(s) \/ Complete(s) \/ CallTools(s) \/ Declare(s)
    \/ RunTool(s) \/ Unparsed(s) \/ ToolFails(s) \/ ToolEdits(s)
    \/ EditKept(s) \/ ToolWorks(s) \/ Cancel(s) \/ Close(s)
-----------------------------------------------------------------------------
(* Calls still to run.                                                     *)
LEMMA TurnFacts ==
    ASSUME NEW q \in Turns
    PROVE  /\ q \in Seq(Calls) /\ Len(q) \in 0..MaxCalls
           /\ q # <<>> => Head(q) \in Calls /\ Tail(q) \in Turns /\ Len(Tail(q)) = Len(q) - 1
<1>1. PICK n \in 0..MaxCalls : q \in [1..n -> Calls]
  BY DEF Turns
<1>2. n \in Nat /\ MaxCalls \in Nat
  BY BoundsAssumption
<1>3. q \in Seq(Calls) /\ Len(q) = n
  BY <1>1, <1>2
<1>4. ASSUME q # <<>>
      PROVE  Head(q) \in Calls /\ Tail(q) \in Turns /\ Len(Tail(q)) = Len(q) - 1
  <2>1. n # 0
    BY <1>3, <1>4, EmptySeq
  <2>2. Head(q) \in Calls
    BY <1>1, <1>2, <2>1
  <2>3. Tail(q) \in Seq(Calls) /\ Len(Tail(q)) = n - 1
    BY <1>3, <1>4, HeadTailProperties
  <2>4. Tail(q) \in [1..(n - 1) -> Calls]
    BY <2>3, LenProperties
  <2>5. n - 1 \in 0..MaxCalls
    BY <1>2, <2>1
  <2>6. QED
    BY <1>3, <2>2, <2>3, <2>4, <2>5 DEF Turns
<1>5. QED
  BY <1>3, <1>4

LEMMA NoCalls == <<>> \in Turns /\ Len(<<>>) = 0
<1>1. 0 \in 0..MaxCalls
  BY BoundsAssumption
<1>2. <<>> \in [1..0 -> Calls]
  OBVIOUS
<1>3. QED
  BY <1>1, <1>2 DEF Turns
-----------------------------------------------------------------------------
(* What a client makes of events.                                          *)
LEMMA SeeFields ==
    ASSUME NEW c \in Clients, ~c.gone, NEW e
    PROVE  LET r == See(c, e)
           IN  /\ r \in Clients /\ r.got = c.got /\ ~r.gone
               /\ r.broken <=> c.broken \/ ~Allowed(c, e)
               /\ r.failed <=> (c.failed \/ e = "error") /\ e # "done"
               /\ r.done <=> c.done \/ e = "done"
               /\ e = "done" => r.open = {}
               /\ e \in Segments => r.open = c.open \cup {e}
               /\ e = "chat_end" => r.open = c.open \ {"chat_start"}
               /\ e = "reasoning_end" => r.open = c.open \ {"reasoning_start"}
               /\ e \notin Segments \cup {"done", "chat_end", "reasoning_end"} => r.open = c.open
<1> DEFINE open == CASE e = "done" -> {}
                     [] e \in {"chat_start", "reasoning_start"} -> c.open \cup {e}
                     [] e = "chat_end" -> c.open \ {"chat_start"}
                     [] e = "reasoning_end" -> c.open \ {"reasoning_start"}
                     [] OTHER -> c.open
<1> DEFINE broken == c.broken \/ ~Allowed(c, e)
<1> DEFINE failed == (c.failed \/ e = "error") /\ e # "done"
<1> DEFINE done == c.done \/ e = "done"
<1>1. See(c, e) = [c EXCEPT !.broken = broken, !.failed = failed, !.done = done, !.open = open]
  BY DEF See
<1>2. open \in SUBSET Segments
  BY DEF Clients, Segments
<1>3. broken \in BOOLEAN /\ failed \in BOOLEAN /\ done \in BOOLEAN
  OBVIOUS
<1>4. /\ e = "done" => open = {}
      /\ e \in Segments => open = c.open \cup {e}
      /\ e = "chat_end" => open = c.open \ {"chat_start"}
      /\ e = "reasoning_end" => open = c.open \ {"reasoning_start"}
      /\ e \notin Segments \cup {"done", "chat_end", "reasoning_end"} => open = c.open
  BY DEF Segments
<1>5. broken <=> c.broken \/ ~Allowed(c, e)
  OBVIOUS
<1>6. failed <=> (c.failed \/ e = "error") /\ e # "done"
  OBVIOUS
<1>7. done <=> c.done \/ e = "done"
  OBVIOUS
<1> HIDE DEF open, broken, failed, done
<1>8. QED
  BY <1>1, <1>2, <1>3, <1>4, <1>5, <1>6, <1>7 DEF Clients

LEMMA SeePlain ==
    ASSUME NEW c \in Clients, Live(c), c.open = {}, NEW e \in {"user", "tool_call", "file_edit"}
    PROVE  LET r == See(c, e) IN r \in Clients /\ Live(r) /\ r.open = {} /\ r.got = c.got
<1>1. Allowed(c, e)
  BY DEF Allowed, Live
<1>2. QED
  BY <1>1, SeeFields DEF Live, Segments

LEMMA SeeDone ==
    ASSUME NEW c \in Clients, Live(c), c.open = {}
    PROVE  LET r == See(c, "done")
           IN  /\ r \in Clients /\ ~r.broken /\ r.done /\ ~r.gone /\ r.open = {} /\ r.got = c.got
<1>1. Allowed(c, "done")
  BY DEF Allowed, Live
<1>2. QED
  BY <1>1, SeeFields DEF Live

LEMMA SeeFailed ==
    ASSUME NEW c \in Clients, Live(c)
    PROVE  LET r == Failed(c)
           IN  /\ r \in Clients /\ ~r.broken /\ r.done /\ ~r.gone /\ r.open = {} /\ r.got = c.got
<1> DEFINE e == See(c, "error")
<1>1. Allowed(c, "error")
  BY DEF Allowed, Live
<1>2. e \in Clients /\ ~e.broken /\ ~e.done /\ e.failed /\ ~e.gone /\ e.got = c.got
  BY <1>1, SeeFields DEF Live
<1>3. Failed(c) = See(e, "done")
  BY DEF Failed
<1> HIDE DEF e
<1>4. Allowed(e, "done")
  BY <1>2 DEF Allowed
<1>5. QED
  BY <1>2, <1>3, <1>4, SeeFields

LEMMA SeeEnds ==
    ASSUME NEW c \in Clients, Live(c)
    PROVE  LET r == Ends(c) IN r \in Clients /\ Live(r) /\ r.open = {} /\ r.got = c.got
<1> DEFINE m == IF "reasoning_start" \in c.open THEN See(c, "reasoning_end") ELSE c
<1>1. m \in Clients /\ Live(m) /\ m.got = c.got /\ m.open = c.open \ {"reasoning_start"}
  <2>1. CASE "reasoning_start" \in c.open
    <3>1. Allowed(c, "reasoning_end")
      BY <2>1 DEF Allowed, Live
    <3>2. QED
      BY <2>1, <3>1, SeeFields DEF Live
  <2>2. CASE "reasoning_start" \notin c.open
    BY <2>2
  <2>3. QED
    BY <2>1, <2>2
<1>2. Ends(c) = IF "chat_start" \in m.open THEN See(m, "chat_end") ELSE m
  BY DEF Ends
<1> HIDE DEF m
<1>3. c.open \subseteq Segments
  BY DEF Clients
<1>4. CASE "chat_start" \in m.open
  <2>1. Allowed(m, "chat_end")
    BY <1>1, <1>4 DEF Allowed, Live
  <2>2. QED
    BY <1>1, <1>2, <1>3, <1>4, <2>1, SeeFields DEF Live, Segments
<1>5. CASE "chat_start" \notin m.open
  BY <1>1, <1>2, <1>3, <1>5 DEF Segments
<1>6. QED
  BY <1>4, <1>5

LEMMA SeeSpeech ==
    ASSUME NEW c \in Clients, Live(c), "chat_start" \notin c.open
    PROVE  LET r == See(See(c, "chat_start"), "chat")
           IN  r \in Clients /\ Live(r) /\ r.got = c.got
<1> DEFINE m == See(c, "chat_start")
<1>1. Allowed(c, "chat_start")
  BY DEF Allowed, Live
<1>2. m \in Clients /\ Live(m) /\ m.got = c.got /\ "chat_start" \in m.open
  BY <1>1, SeeFields DEF Live, Segments
<1> HIDE DEF m
<1>3. Allowed(m, "chat")
  BY <1>2 DEF Allowed, Live
<1>4. See(m, "chat") \in Clients /\ Live(See(m, "chat")) /\ See(m, "chat").got = c.got
  BY <1>2, <1>3, SeeFields DEF Live
<1>5. QED
  BY <1>4 DEF m

LEMMA SeeReasoning ==
    ASSUME NEW c \in Clients, Live(c), "reasoning_start" \notin c.open
    PROVE  LET r == See(See(c, "reasoning_start"), "reasoning")
           IN  /\ r \in Clients /\ Live(r) /\ r.got = c.got
               /\ r.open = c.open \cup {"reasoning_start"}
<1> DEFINE m == See(c, "reasoning_start")
<1>1. Allowed(c, "reasoning_start")
  BY DEF Allowed, Live
<1>2. m \in Clients /\ Live(m) /\ m.got = c.got /\ m.open = c.open \cup {"reasoning_start"}
  BY <1>1, SeeFields DEF Live, Segments
<1> HIDE DEF m
<1>3. Allowed(m, "reasoning")
  BY <1>2 DEF Allowed, Live
<1>4. /\ See(m, "reasoning") \in Clients /\ Live(See(m, "reasoning"))
      /\ See(m, "reasoning").got = c.got
      /\ See(m, "reasoning").open = c.open \cup {"reasoning_start"}
  BY <1>2, <1>3, SeeFields DEF Live, Segments
<1>5. QED
  BY <1>4 DEF m
-----------------------------------------------------------------------------
(* What a step of one stream must do to preserve the invariant: the others *)
(* lose nothing by it, since journals only grow.                           *)
Grows == \A d \in Dialogs : journal[d] \subseteq journal'[d]

LEMMA KeptGrows ==
    ASSUME Grows, NEW s \in Streams
    PROVE  KeptTexts(s) \subseteq KeptTexts(s)'
BY DEF Grows, KeptTexts

LEMMA Advance ==
    ASSUME IInv, NEW s \in Streams, NEW r \in Locals, NEW c \in Clients,
           Becomes(s, r), Sees(s, c), active' \subseteq Streams,
           journal' \in [Dialogs -> SUBSET Entries], Grows,
           results' \in [Dialogs -> SUBSET Ids], titled' \subseteq Dialogs,
           titleTool' \in BOOLEAN, stopping' \in BOOLEAN,
           context' = context \/ context' \in Dialogs,
           r.at \in InAgent => context' \in Dialogs,
           Place(r), Seen(r, c), Text(r, c, KeptTexts(s)')
    PROVE  IInv'
<1>1. stream' = [stream EXCEPT ![s] = r] /\ client' = [client EXCEPT ![s] = c]
  BY DEF Becomes, Sees
<1>2. stream \in [Streams -> Locals] /\ client \in [Streams -> Clients]
  BY DEF IInv, Typed
<1>3. stream' \in [Streams -> Locals] /\ client' \in [Streams -> Clients]
  BY <1>1, <1>2
<1>4. context' \in Dialogs \cup {None}
  BY DEF IInv, Typed
<1>5. Typed'
  BY <1>3, <1>4 DEF Typed
<1>6. ASSUME NEW t \in Streams
      PROVE  Own(t)'
  <2>1. CASE t = s
    <3>1. stream'[t] = r /\ client'[t] = c
      BY <1>1, <1>2, <2>1
    <3>2. QED
      BY <2>1, <3>1 DEF Own, At
  <2>2. CASE t # s
    <3>1. stream'[t] = stream[t] /\ client'[t] = client[t]
      BY <1>1, <1>2, <2>2
    <3>2. Own(t)
      BY DEF IInv
    <3>3. KeptTexts(t) \subseteq KeptTexts(t)'
      BY KeptGrows
    <3>4. Place(stream'[t]) /\ Seen(stream'[t], client'[t])
      BY <3>1, <3>2 DEF Own
    <3>5. Text(stream'[t], client'[t], KeptTexts(t)')
      BY <3>1, <3>2, <3>3 DEF Own, Text
    <3>6. At(t, InAgent)' => context' \in Dialogs
      BY <3>1, <3>2 DEF Own, At
    <3>7. QED
      BY <3>4, <3>5, <3>6 DEF Own
  <2>3. QED
    BY <2>1, <2>2
<1>7. QED
  BY <1>5, <1>6 DEF IInv

(* A step that writes nothing to a journal.                                *)
LEMMA Move ==
    ASSUME IInv, NEW s \in Streams, NEW r \in Locals, NEW c \in Clients,
           Becomes(s, r), Sees(s, c), active' \subseteq Streams,
           UNCHANGED <<journal, results, titled, stopping>>, titleTool' \in BOOLEAN,
           context' = context \/ context' \in Dialogs,
           r.at \in InAgent => context' \in Dialogs,
           Place(r), Seen(r, c), Text(r, c, KeptTexts(s))
    PROVE  IInv'
<1>1. Grows /\ KeptTexts(s)' = KeptTexts(s)
  BY DEF Grows, KeptTexts
<1>2. journal' \in [Dialogs -> SUBSET Entries] /\ results' \in [Dialogs -> SUBSET Ids]
  BY DEF IInv, Typed
<1>3. titled' \subseteq Dialogs /\ stopping' \in BOOLEAN
  BY DEF IInv, Typed
<1>4. QED
  BY <1>1, <1>2, <1>3, Advance

LEMMA Unmoved ==
    ASSUME Typed, NEW s \in Streams
    PROVE  /\ UNCHANGED stream => Becomes(s, stream[s])
           /\ UNCHANGED client => Sees(s, client[s])
           /\ stream[s] \in Locals /\ client[s] \in Clients
BY DEF Typed, Becomes, Sees
-----------------------------------------------------------------------------
(* A message that is added, or whose loss is logged.                       *)
LEMMA AddFacts ==
    ASSUME Typed, NEW s \in Streams, NEW r \in Locals, NEW d \in Dialogs,
           NEW m \in SUBSET Entries, Add(s, d, m, r)
    PROVE  /\ journal' \in [Dialogs -> SUBSET Entries] /\ Grows
           /\ \E w \in Locals :
                /\ Becomes(s, w) /\ w = [r EXCEPT !.unsaved = w.unsaved]
                /\ r.unsaved => w.unsaved
                /\ ~w.unsaved => m \subseteq journal'[d]
<1>1. journal \in [Dialogs -> SUBSET Entries]
  BY DEF Typed
<1>2. CASE journal' = [journal EXCEPT ![d] = @ \cup m] /\ Becomes(s, r)
  <2>1. r = [r EXCEPT !.unsaved = r.unsaved]
    BY DEF Locals
  <2>2. QED
    BY <1>1, <1>2, <2>1 DEF Grows
<1>3. CASE UNCHANGED journal /\ Becomes(s, [r EXCEPT !.unsaved = TRUE])
  <2> DEFINE w == [r EXCEPT !.unsaved = TRUE]
  <2>1. w \in Locals /\ w.unsaved = TRUE
    BY DEF Locals
  <2>2. w = [r EXCEPT !.unsaved = w.unsaved]
    BY <2>1
  <2>3. Becomes(s, w)
    BY <1>3
  <2>4. Grows /\ journal' \in [Dialogs -> SUBSET Entries]
    BY <1>1, <1>3 DEF Grows
  <2> HIDE DEF w
  <2>5. QED
    BY <2>1, <2>2, <2>3, <2>4
<1>4. QED
  BY <1>2, <1>3 DEF Add

LEMMA TextEntries ==
    ASSUME NEW s \in Streams, NEW texts \in SUBSET Texts
    PROVE  Message("text", s, texts) \in SUBSET Entries
BY DEF Message, Entries

LEMMA KeptFacts ==
    ASSUME NEW s \in Streams, NEW d \in Dialogs, NEW texts,
           Message("text", s, texts) \subseteq journal'[d]
    PROVE  texts \subseteq KeptTexts(s)'
<1> SUFFICES ASSUME NEW t \in texts PROVE t \in KeptTexts(s)'
  OBVIOUS
<1> DEFINE e == [kind |-> "text", by |-> s, of |-> t]
<1>1. e \in journal'[d]
  BY DEF Message
<1>2. e.kind = "text" /\ e.by = s /\ e.of = t
  OBVIOUS
<1> HIDE DEF e
<1>3. QED
  BY <1>1, <1>2 DEF KeptTexts

(* The flush writes all that the client has read.                          *)
LEMMA FlushFacts ==
    ASSUME Typed, NEW s \in Streams, NEW r \in Locals, Flush(s, r),
           stream[s].buffer # {} => r.dialog \in Dialogs
    PROVE  /\ journal' \in [Dialogs -> SUBSET Entries] /\ Grows
           /\ \E w \in Locals :
                /\ Becomes(s, w) /\ w = [r EXCEPT !.unsaved = w.unsaved]
                /\ r.unsaved => w.unsaved
                /\ ~w.unsaved => stream[s].buffer \subseteq KeptTexts(s)'
<1> DEFINE buffer == stream[s].buffer
<1>1. buffer \in SUBSET Texts /\ journal \in [Dialogs -> SUBSET Entries]
  BY DEF Typed, Locals
<1>2. CASE buffer = {}
  <2>1. Becomes(s, r) /\ UNCHANGED journal
    BY <1>2 DEF Flush
  <2>2. r = [r EXCEPT !.unsaved = r.unsaved]
    BY DEF Locals
  <2>3. Grows
    BY <2>1 DEF Grows
  <2>4. QED
    BY <1>1, <1>2, <2>1, <2>2, <2>3
<1>3. CASE buffer # {}
  <2>1. Add(s, r.dialog, Message("text", s, buffer), r) /\ r.dialog \in Dialogs
    BY <1>3 DEF Flush
  <2>2. Message("text", s, buffer) \in SUBSET Entries
    BY <1>1, TextEntries
  <2>3. QED
    BY <2>1, <2>2, AddFacts, KeptFacts
<1>4. QED
  BY <1>2, <1>3
-----------------------------------------------------------------------------
(* The end of a stream: what its client has read is kept, or is in the     *)
(* buffer that is flushed, or is known to be lost.                         *)
LEMMA Ending ==
    ASSUME IInv, NEW s \in Streams, stream[s].at \notin {"idle", "over"}, NEW flush \in BOOLEAN,
           Finish(s, flush), NEW c \in Clients, Sees(s, c),
           ~c.broken, c.done \/ c.gone, c.got = client[s].got,
           \/ flush /\ stream[s].at # "done"
           \/ stream[s].unsaved
           \/ c.got \subseteq KeptTexts(s)
    PROVE  IInv'
<1> DEFINE r == [Fresh EXCEPT !.at = "over", !.dialog = stream[s].dialog,
                              !.unsaved = stream[s].unsaved]
<1>1. Typed /\ Own(s) /\ stream[s] \in Locals
  BY DEF IInv, Typed
<1>2. /\ r \in Locals /\ r.at = "over" /\ r.calls = <<>> /\ r.errors = 0
      /\ r.dialog = stream[s].dialog /\ r.unsaved = stream[s].unsaved
  BY <1>1, NoCalls DEF Locals, Fresh, Points
<1>3. /\ active' = active \ {s} /\ UNCHANGED <<results, titled, titleTool, context, stopping>>
      /\ IF flush THEN Flush(s, r) ELSE UNCHANGED journal /\ Becomes(s, r)
  BY DEF Finish
<1> HIDE DEF r
<1>4. /\ journal' \in [Dialogs -> SUBSET Entries] /\ Grows
      /\ \E w \in Locals :
           /\ Becomes(s, w) /\ w = [r EXCEPT !.unsaved = w.unsaved]
           /\ r.unsaved => w.unsaved
           /\ ~w.unsaved => c.got \subseteq KeptTexts(s)'
  <2>1. CASE flush
    <3>1. Flush(s, r)
      BY <1>3, <2>1
    <3>2. stream[s].buffer # {} => r.dialog \in Dialogs
      BY <1>1, <1>2 DEF Own, Place
    <3>3. /\ journal' \in [Dialogs -> SUBSET Entries] /\ Grows
          /\ \E w \in Locals :
               /\ Becomes(s, w) /\ w = [r EXCEPT !.unsaved = w.unsaved]
               /\ r.unsaved => w.unsaved
               /\ ~w.unsaved => stream[s].buffer \subseteq KeptTexts(s)'
      BY <1>1, <1>2, <3>1, <3>2, FlushFacts
    <3>4. stream[s].at # "done" => c.got \subseteq stream[s].buffer
      BY <1>1 DEF Own, Text
    <3>5. KeptTexts(s) \subseteq KeptTexts(s)'
      BY <3>3, KeptGrows
    <3>6. QED
      BY <1>2, <3>3, <3>4, <3>5
  <2>2. CASE ~flush
    <3>1. UNCHANGED journal /\ Becomes(s, r)
      BY <1>3, <2>2
    <3>2. r = [r EXCEPT !.unsaved = r.unsaved]
      BY <1>2 DEF Locals
    <3>3. Grows /\ KeptTexts(s)' = KeptTexts(s)
      BY <3>1 DEF Grows, KeptTexts
    <3>4. journal' \in [Dialogs -> SUBSET Entries]
      BY <1>1, <3>1 DEF Typed
    <3>5. QED
      BY <1>2, <2>2, <3>1, <3>2, <3>3, <3>4
  <2>3. QED
    BY <2>1, <2>2
<1>5. PICK w \in Locals :
           /\ Becomes(s, w) /\ w = [r EXCEPT !.unsaved = w.unsaved]
           /\ r.unsaved => w.unsaved
           /\ ~w.unsaved => c.got \subseteq KeptTexts(s)'
  BY <1>4
<1>6. w.at = "over" /\ w.calls = <<>> /\ w.errors = 0
  BY <1>2, <1>5 DEF Locals
<1>7. Place(w)
  BY <1>6, NoCalls, BoundsAssumption DEF Place, Early, Calling
<1>8. Seen(w, c)
  BY <1>6 DEF Seen
<1>9. Text(w, c, KeptTexts(s)')
  BY <1>5, <1>6 DEF Text
<1>10. /\ active' \subseteq Streams /\ titleTool' \in BOOLEAN /\ stopping' \in BOOLEAN
       /\ results' \in [Dialogs -> SUBSET Ids] /\ titled' \subseteq Dialogs
       /\ context' = context /\ w.at \notin InAgent
  BY <1>1, <1>3, <1>6 DEF Typed, InAgent, Calling
<1>11. QED
  BY <1>4, <1>5, <1>7, <1>8, <1>9, <1>10, Advance

(* The end of the executor.                                                *)
LEMMA Concluding ==
    ASSUME IInv, NEW s \in Streams, stream[s].at \in {"turn", "next"}, stream[s].calls = <<>>,
           Conclude(s), NEW c \in Clients, Sees(s, c),
           ~c.broken, c.done, ~c.gone, c.open = {}, c.got = client[s].got
    PROVE  IInv'
<1> DEFINE r == [stream[s] EXCEPT !.at = "done"]
<1>1. Typed /\ Own(s) /\ stream[s] \in Locals
  BY DEF IInv, Typed
<1>2. /\ r \in Locals /\ r.at = "done" /\ r.calls = <<>> /\ r.errors = stream[s].errors
      /\ r.dialog = stream[s].dialog /\ r.dialog \in Dialogs /\ r.unsaved = stream[s].unsaved
  BY <1>1 DEF Locals, Points, Own, Place
<1>3. Flush(s, r) /\ UNCHANGED <<active, results, titled, titleTool, context, stopping>>
  BY DEF Conclude
<1> HIDE DEF r
<1>4. journal' \in [Dialogs -> SUBSET Entries] /\ Grows
  BY <1>1, <1>2, <1>3, FlushFacts
<1>5. PICK w \in Locals :
           /\ Becomes(s, w) /\ w = [r EXCEPT !.unsaved = w.unsaved]
           /\ r.unsaved => w.unsaved
           /\ ~w.unsaved => stream[s].buffer \subseteq KeptTexts(s)'
  BY <1>1, <1>2, <1>3, FlushFacts
<1>6. /\ w.at = "done" /\ w.calls = <<>> /\ w.errors = stream[s].errors /\ w.dialog \in Dialogs
  BY <1>2, <1>5 DEF Locals
<1>7. Place(w)
  BY <1>1, <1>6 DEF Own, Place, Early, Calling
<1>8. Seen(w, c)
  BY <1>6 DEF Seen
<1>9. c.got \subseteq stream[s].buffer
  BY <1>1 DEF Own, Text
<1>10. Text(w, c, KeptTexts(s)')
  BY <1>5, <1>6, <1>9 DEF Text
<1>11. /\ active' \subseteq Streams /\ titleTool' \in BOOLEAN /\ stopping' \in BOOLEAN
       /\ results' \in [Dialogs -> SUBSET Ids] /\ titled' \subseteq Dialogs
       /\ context' = context /\ w.at \notin InAgent
  BY <1>1, <1>3, <1>6 DEF Typed, InAgent, Calling
<1>12. QED
  BY <1>4, <1>5, <1>7, <1>8, <1>10, <1>11, Advance
-----------------------------------------------------------------------------
(* The result of a call, stored or not, with at most one more error.       *)
LEMMA StoreFacts ==
    ASSUME Typed, NEW s \in Streams, context \in Dialogs, stream[s].calls # <<>>, NEW n \in Nat,
           Store(s, n) \/ Recover(s, n) \/ StoreById(s, n)
    PROVE  /\ journal' \in [Dialogs -> SUBSET Entries] /\ Grows
           /\ results' \in [Dialogs -> SUBSET Ids]
           /\ \E w \in Locals, e \in {n, n + 1} :
                /\ Becomes(s, w) /\ w = [Return(s, e) EXCEPT !.unsaved = w.unsaved]
                /\ stream[s].unsaved => w.unsaved
<1>1. stream[s] \in Locals /\ stream[s].calls \in Turns
  BY DEF Typed, Locals
<1>2. Call(s) \in Calls /\ Call(s).id \in Ids /\ Tail(stream[s].calls) \in Turns
  BY <1>1, TurnFacts, CallsAssumption DEF Call, Ids
<1>3. ASSUME NEW e \in Nat
      PROVE  Return(s, e) \in Locals /\ Return(s, e).unsaved = stream[s].unsaved
  BY <1>1, <1>2 DEF Return, Locals, Points
<1>4. ASSUME NEW e \in Nat, Keep(s, e)
      PROVE  /\ journal' \in [Dialogs -> SUBSET Entries] /\ Grows
             /\ results' \in [Dialogs -> SUBSET Ids]
             /\ \E w \in Locals :
                  /\ Becomes(s, w) /\ w = [Return(s, e) EXCEPT !.unsaved = w.unsaved]
                  /\ stream[s].unsaved => w.unsaved
  <2> DEFINE kind == IF Call(s).tool = "title" THEN "title" ELSE "result"
  <2>1. results' \in [Dialogs -> SUBSET Ids]
    BY <1>2, <1>4 DEF Keep, Typed
  <2>2. Message(kind, s, {Call(s).id}) \in SUBSET Entries
    BY <1>2 DEF Message, Entries
  <2>3. Add(s, context, Message(kind, s, {Call(s).id}), Return(s, e))
    BY <1>4 DEF Keep
  <2>4. QED
    BY <1>3, <2>1, <2>2, <2>3, AddFacts
<1>5. ASSUME NEW e \in Nat, Pass(s, e)
      PROVE  /\ journal' \in [Dialogs -> SUBSET Entries] /\ Grows
             /\ results' \in [Dialogs -> SUBSET Ids]
             /\ \E w \in Locals :
                  /\ Becomes(s, w) /\ w = [Return(s, e) EXCEPT !.unsaved = w.unsaved]
                  /\ stream[s].unsaved => w.unsaved
  <2>1. UNCHANGED <<journal, results>> /\ Becomes(s, Return(s, e))
    BY <1>5 DEF Pass
  <2>2. Return(s, e) = [Return(s, e) EXCEPT !.unsaved = Return(s, e).unsaved]
    BY <1>3 DEF Locals
  <2>3. /\ journal' \in [Dialogs -> SUBSET Entries] /\ Grows
        /\ results' \in [Dialogs -> SUBSET Ids]
    BY <2>1 DEF Typed, Grows
  <2>4. QED
    BY <1>3, <2>1, <2>2, <2>3
<1>6. \E e \in {n, n + 1} : Keep(s, e) \/ Pass(s, e)
  BY DEF Store, Recover, StoreById
<1>7. PICK e \in {n, n + 1} : Keep(s, e) \/ Pass(s, e)
  BY <1>6
<1>8. e \in Nat
  OBVIOUS
<1>9. QED
  BY <1>4, <1>5, <1>7, <1>8

LEMMA Storing ==
    ASSUME IInv, NEW s \in Streams, stream[s].at \in {"next", "tool", "edited"},
           stream[s].calls # <<>>, NEW n \in Nat, n <= stream[s].errors + 1,
           Store(s, n) \/ Recover(s, n) \/ StoreById(s, n), titled' \subseteq Dialogs,
           UNCHANGED <<active, client, titleTool, context, stopping>>
    PROVE  IInv'
<1>1. Typed /\ Own(s) /\ stream[s] \in Locals /\ client[s] \in Clients /\ context \in Dialogs
  BY DEF IInv, Typed, Own, At, InAgent, Calling
<1>2. /\ journal' \in [Dialogs -> SUBSET Entries] /\ Grows
      /\ results' \in [Dialogs -> SUBSET Ids]
  BY <1>1, StoreFacts
<1>3. PICK w \in Locals, e \in {n, n + 1} :
           /\ Becomes(s, w) /\ w = [Return(s, e) EXCEPT !.unsaved = w.unsaved]
           /\ stream[s].unsaved => w.unsaved
  BY <1>1, StoreFacts
<1>4. /\ w.at = "next" /\ w.calls = Tail(stream[s].calls) /\ w.errors = e
      /\ w.dialog = stream[s].dialog /\ w.buffer = stream[s].buffer
  BY <1>1, <1>3 DEF Return, Locals
<1>5. Len(w.calls) = Len(stream[s].calls) - 1 /\ Len(stream[s].calls) \in Nat
  BY <1>1, <1>4, TurnFacts DEF Locals
<1>6. Place(w)
  <2>1. w.errors + 2 * Len(w.calls) <= MaxErrors - 1 + 2 * MaxCalls
    <3>1. stream[s].errors + 2 * Len(stream[s].calls) <= MaxErrors - 1 + 2 * MaxCalls
      BY <1>1 DEF Own, Place
    <3>2. stream[s].errors \in Nat /\ e \in Nat /\ e <= stream[s].errors + 2
      BY <1>1 DEF Locals
    <3>3. QED
      BY <1>4, <1>5, <3>1, <3>2, BoundsAssumption
  <2>2. w.dialog \in Dialogs
    BY <1>1, <1>4 DEF Own, Place
  <2>3. QED
    BY <1>4, <2>1, <2>2 DEF Place, Early, Calling
<1>7. Seen(w, client[s])
  BY <1>1, <1>4 DEF Own, Seen
<1>8. Text(w, client[s], KeptTexts(s)')
  <2>1. KeptTexts(s) \subseteq KeptTexts(s)'
    BY <1>2, KeptGrows
  <2>2. QED
    BY <1>1, <1>3, <1>4, <2>1 DEF Own, Text
<1>9. Sees(s, client[s])
  BY <1>1, Unmoved
<1>10. active' \subseteq Streams /\ titleTool' \in BOOLEAN /\ stopping' \in BOOLEAN
  BY <1>1 DEF Typed
<1>11. QED
  BY <1>1, <1>2, <1>3, <1>6, <1>7, <1>8, <1>9, <1>10, Advance
-----------------------------------------------------------------------------
(* One lemma for each part of a request.                                   *)
LEMMA Before ==
    ASSUME IInv, NEW s \in Streams,
           \/ Misconfigured(s) \/ Request(s) \/ Prepare(s) \/ RunGraph(s)
           \/ EnterAgent(s) \/ ContextBuilt(s)
    PROVE  IInv'
<1>1. Typed /\ Own(s) /\ stream[s] \in Locals /\ client[s] \in Clients
  BY DEF IInv, Typed
<1>2. ASSUME NEW r \in Locals, r.at \in {"sync", "user", "compact", "prepare", "next"},
             stream[s].at \in Early,
             r.dialog \in Dialogs, r.buffer = {}, r.calls = <<>>, r.unsaved = stream[s].unsaved,
             r.errors = stream[s].errors, NEW c \in Clients, Live(c), c.open = {},
             c.got = client[s].got
      PROVE  Place(r) /\ Seen(r, c) /\ Text(r, c, KeptTexts(s))
  <2>1. c.got = {}
    BY <1>1, <1>2 DEF Own, Place, Text, Early
  <2>2. stream[s].calls = <<>>
    BY <1>1, <1>2 DEF Own, Place, Early, Calling
  <2>3. Place(r)
    BY <1>1, <1>2, <2>2 DEF Own, Place, Early, Calling
  <2>4. Seen(r, c) /\ Text(r, c, KeptTexts(s))
    BY <1>2, <2>1 DEF Seen, Text, Live
  <2>5. QED
    BY <2>3, <2>4
<1>3. stream[s].at \in Early => /\ Live(client[s]) /\ client[s].open = {}
                               /\ stream[s].buffer = {} /\ stream[s].calls = <<>>
  BY <1>1 DEF Own, Place, Seen, Early, Calling
<1>4. CASE Misconfigured(s)
  <2> DEFINE r == [stream[s] EXCEPT !.at = "over"]
  <2> DEFINE c == Failed(client[s])
  <2>1. stream[s].at = "idle" /\ Becomes(s, r) /\ Sees(s, c)
    BY <1>4 DEF Misconfigured, Runs, At, GoTo, SendError
  <2>2. stream[s].at \in Early
    BY <2>1 DEF Early
  <2>3. /\ r \in Locals /\ r.at = "over" /\ r.calls = <<>> /\ r.errors = stream[s].errors
    BY <1>1, <1>3, <2>2 DEF Locals, Points
  <2>4. /\ c \in Clients /\ ~c.broken /\ c.done /\ c.got = client[s].got
    BY <1>1, <1>3, <2>2, SeeFailed
  <2> HIDE DEF r, c
  <2>5. Place(r)
    BY <1>1, <1>3, <2>2, <2>3 DEF Own, Place, Early, Calling
  <2>6. c.got = {}
    BY <1>1, <1>3, <2>1, <2>2, <2>4 DEF Own, Text
  <2>7. Seen(r, c) /\ Text(r, c, KeptTexts(s)) /\ r.at \notin InAgent
    BY <2>3, <2>4, <2>6 DEF Seen, Text, InAgent, Calling
  <2>8. UNCHANGED shared /\ active' \subseteq Streams
    BY <1>1, <1>4 DEF Misconfigured, Typed
  <2>9. UNCHANGED <<journal, results, titled, stopping, context>> /\ titleTool' \in BOOLEAN
    BY <1>1, <2>8 DEF Typed, shared
  <2>10. QED
    BY <2>1, <2>3, <2>4, <2>5, <2>7, <2>8, <2>9, Move
<1>5. CASE Request(s)
  <2>1. PICK d \in Dialogs : Becomes(s, [Fresh EXCEPT !.at = "sync", !.dialog = d])
    BY <1>5 DEF Request
  <2> DEFINE r == [Fresh EXCEPT !.at = "sync", !.dialog = d]
  <2>2. stream[s].at = "idle" /\ stream[s].at \in Early /\ ~stream[s].unsaved
    BY <1>1, <1>5 DEF Request, Runs, At, Early, Own, Place
  <2>3. /\ r \in Locals /\ r.at = "sync" /\ r.calls = <<>> /\ r.errors = 0
        /\ r.dialog = d /\ r.buffer = {} /\ ~r.unsaved
    BY NoCalls DEF Locals, Points, Fresh
  <2> HIDE DEF r
  <2>4. Place(r)
    BY <2>3, NoCalls, BoundsAssumption DEF Place, Early, Calling
  <2>5. client[s].got = {}
    BY <1>1, <1>3, <2>2 DEF Own, Text
  <2>6. Seen(r, client[s]) /\ Text(r, client[s], KeptTexts(s)) /\ r.at \notin InAgent
    BY <1>1, <1>3, <2>2, <2>3, <2>5 DEF Seen, Text, InAgent, Calling, Live
  <2>7. Sees(s, client[s]) /\ UNCHANGED shared /\ active' \subseteq Streams
    BY <1>1, <1>5, Unmoved DEF Request, Typed
  <2>8. UNCHANGED <<journal, results, titled, stopping, context>> /\ titleTool' \in BOOLEAN
    BY <1>1, <2>7 DEF Typed, shared
  <2>9. Becomes(s, r)
    BY <2>1 DEF r
  <2>10. QED
    BY <1>1, <2>3, <2>4, <2>6, <2>7, <2>8, <2>9, Move
<1>6. CASE Prepare(s)
  <2> DEFINE has == stream[s].dialog \in titled
  <2> DEFINE r == [stream[s] EXCEPT !.at = "user", !.hasTitle = has]
  <2> DEFINE c == See(client[s], "user")
  <2>1. /\ stream[s].at = "sync" /\ stream[s].at \in Early
        /\ Becomes(s, r) /\ Sees(s, c) /\ UNCHANGED <<active, shared>>
    BY <1>6 DEF Prepare, Runs, At, Send, Early
  <2> has \in BOOLEAN
    OBVIOUS
  <2> HIDE DEF has
  <2>2. /\ r \in Locals /\ r.at = "user" /\ r.calls = <<>> /\ r.errors = stream[s].errors
        /\ r.dialog \in Dialogs /\ r.buffer = {} /\ r.unsaved = stream[s].unsaved
    BY <1>1, <1>3, <2>1 DEF Locals, Points, Own, Place
  <2>3. c \in Clients /\ Live(c) /\ c.open = {} /\ c.got = client[s].got
    BY <1>1, <1>3, <2>1, SeePlain
  <2> HIDE DEF r, c
  <2>4. Place(r) /\ Seen(r, c) /\ Text(r, c, KeptTexts(s)) /\ r.at \notin InAgent
    BY <1>2, <2>1, <2>2, <2>3 DEF InAgent, Calling
  <2>5. /\ UNCHANGED <<journal, results, titled, stopping, context>> /\ titleTool' \in BOOLEAN
        /\ active' \subseteq Streams
    BY <1>1, <2>1 DEF Typed, shared
  <2>6. QED
    BY <2>1, <2>2, <2>3, <2>4, <2>5, Move
<1>7. CASE RunGraph(s)
  <2> DEFINE r == [stream[s] EXCEPT !.at = "compact"]
  <2>1. /\ stream[s].at = "user" /\ stream[s].at \in Early
        /\ Becomes(s, r) /\ UNCHANGED <<active, client, shared>>
    BY <1>7 DEF RunGraph, Runs, At, GoTo, Early
  <2>2. /\ r \in Locals /\ r.at = "compact" /\ r.calls = <<>> /\ r.errors = stream[s].errors
        /\ r.dialog \in Dialogs /\ r.buffer = {} /\ r.unsaved = stream[s].unsaved
    BY <1>1, <1>3, <2>1 DEF Locals, Points, Own, Place
  <2> HIDE DEF r
  <2>3. /\ Place(r) /\ Seen(r, client[s]) /\ Text(r, client[s], KeptTexts(s))
        /\ r.at \notin InAgent
    BY <1>1, <1>2, <1>3, <2>1, <2>2 DEF InAgent, Calling
  <2>4. /\ UNCHANGED <<journal, results, titled, stopping, context>> /\ titleTool' \in BOOLEAN
        /\ active' \subseteq Streams /\ Sees(s, client[s])
    BY <1>1, <2>1, Unmoved DEF Typed, shared
  <2>5. QED
    BY <1>1, <2>1, <2>2, <2>3, <2>4, Move
<1>8. CASE EnterAgent(s)
  <2> DEFINE r == [stream[s] EXCEPT !.at = "prepare"]
  <2>1. /\ stream[s].at = "compact" /\ stream[s].at \in Early /\ Becomes(s, r)
        /\ UNCHANGED <<active, client, journal, results, titled, stopping>>
        /\ titleTool' \in BOOLEAN /\ context' = stream[s].dialog
    BY <1>1, <1>8 DEF EnterAgent, Runs, At, GoTo, ManageTitleTool, SetContext, Typed, Early
  <2>2. /\ r \in Locals /\ r.at = "prepare" /\ r.calls = <<>> /\ r.errors = stream[s].errors
        /\ r.dialog \in Dialogs /\ r.buffer = {} /\ r.unsaved = stream[s].unsaved
        /\ context' \in Dialogs
    BY <1>1, <1>3, <2>1 DEF Locals, Points, Own, Place
  <2> HIDE DEF r
  <2>3. Place(r) /\ Seen(r, client[s]) /\ Text(r, client[s], KeptTexts(s))
    BY <1>1, <1>2, <1>3, <2>1, <2>2
  <2>4. active' \subseteq Streams /\ Sees(s, client[s])
    BY <1>1, <2>1, Unmoved DEF Typed
  <2>5. QED
    BY <1>1, <2>1, <2>2, <2>3, <2>4, Move
<1>9. CASE ContextBuilt(s)
  <2> DEFINE r == [stream[s] EXCEPT !.at = "next"]
  <2>1. /\ stream[s].at = "prepare" /\ stream[s].at \in Early
        /\ Becomes(s, r) /\ UNCHANGED <<active, client, shared>>
    BY <1>9 DEF ContextBuilt, Runs, At, GoTo, Early
  <2>2. /\ r \in Locals /\ r.at = "next" /\ r.calls = <<>> /\ r.errors = stream[s].errors
        /\ r.dialog \in Dialogs /\ r.buffer = {} /\ r.unsaved = stream[s].unsaved
        /\ context \in Dialogs
    BY <1>1, <1>3, <2>1 DEF Locals, Points, Own, Place, At, InAgent
  <2> HIDE DEF r
  <2>3. Place(r) /\ Seen(r, client[s]) /\ Text(r, client[s], KeptTexts(s))
    BY <1>1, <1>2, <1>3, <2>1, <2>2
  <2>4. /\ UNCHANGED <<journal, results, titled, stopping, context>> /\ titleTool' \in BOOLEAN
        /\ active' \subseteq Streams /\ Sees(s, client[s])
    BY <1>1, <2>1, Unmoved DEF Typed, shared
  <2>5. QED
    BY <1>1, <2>1, <2>2, <2>3, <2>4, Move
<1>10. QED
  BY <1>4, <1>5, <1>6, <1>7, <1>8, <1>9

LEMMA Stops ==
    ASSUME IInv, NEW s \in Streams,
           \/ StopBetweenNodes(s) \/ ContextFails(s) \/ ModelFails(s)
           \/ Complete(s) \/ Cancel(s) \/ Close(s)
    PROVE  IInv'
<1>1. Typed /\ Own(s) /\ stream[s] \in Locals /\ client[s] \in Clients
  BY DEF IInv, Typed
<1>2. stream[s].at \notin {"done", "over"} => Live(client[s])
  BY <1>1 DEF Own, Seen
<1> DEFINE failed == Failed(client[s])
<1> DEFINE gone == [client[s] EXCEPT !.gone = TRUE, !.open = {}, !.failed = FALSE]
<1>3. Live(client[s]) => failed \in Clients /\ ~failed.broken /\ failed.done
                         /\ failed.got = client[s].got
  BY <1>1, SeeFailed
<1>4. gone \in Clients /\ ~gone.broken /\ gone.gone /\ gone.got = client[s].got
  BY <1>1 DEF Clients, Own, Seen
<1>5. SendError(s) => Sees(s, failed)
  BY DEF SendError
<1>6. HangUp(s) => Sees(s, gone)
  BY DEF HangUp
<1> HIDE DEF failed, gone
<1>7. CASE StopBetweenNodes(s) \/ ContextFails(s)
  <2>1. stream[s].at \in {"compact", "prepare"} /\ SendError(s) /\ Finish(s, TRUE)
    BY <1>7 DEF StopBetweenNodes, ContextFails, Runs, At
  <2>2. QED
    BY <1>2, <1>3, <1>5, <2>1, Ending
<1>8. CASE ModelFails(s)
  <2> DEFINE e == Ends(client[s])
  <2>1. stream[s].at = "turn" /\ Sees(s, Failed(e)) /\ Finish(s, TRUE)
    BY <1>8 DEF ModelFails, Runs, At
  <2>2. e \in Clients /\ Live(e) /\ e.got = client[s].got
    BY <1>1, <1>2, <2>1, SeeEnds
  <2> HIDE DEF e
  <2>3. /\ Failed(e) \in Clients /\ ~Failed(e).broken /\ Failed(e).done
        /\ Failed(e).got = client[s].got
    BY <2>2, SeeFailed
  <2>4. QED
    BY <2>1, <2>3, Ending
<1>9. CASE Complete(s)
  <2>1. /\ stream[s].at = "done" /\ Finish(s, FALSE)
        /\ client[s].done /\ ~client[s].broken /\ Sees(s, client[s])
    BY <1>1, <1>9, Unmoved DEF Complete, Runs, At, Own, Seen
  <2>2. stream[s].unsaved \/ client[s].got \subseteq KeptTexts(s)
    BY <1>1, <2>1 DEF Own, Text
  <2>3. QED
    BY <1>1, <2>1, <2>2, Ending
<1>10. CASE Cancel(s)
  <2> DEFINE flush == stream[s].at # "sync"
  <2>1. /\ stream[s].at \in {"sync", "compact", "prepare", "turn", "tool"}
        /\ HangUp(s) \/ SendError(s)
        /\ Finish(s, flush)
    BY <1>10 DEF Cancel, Runs, At
  <2>2. stream[s].at = "sync" => client[s].got \subseteq KeptTexts(s)
    BY <1>1 DEF Own, Place, Text, Early
  <2>3. flush \in BOOLEAN /\ (flush <=> stream[s].at # "sync")
    OBVIOUS
  <2> HIDE DEF flush
  <2>4. CASE HangUp(s)
    BY <1>4, <1>6, <2>1, <2>2, <2>3, <2>4, Ending
  <2>5. CASE SendError(s)
    BY <1>2, <1>3, <1>5, <2>1, <2>2, <2>3, <2>5, Ending
  <2>6. QED
    BY <2>1, <2>4, <2>5
<1>11. CASE Close(s)
  <2> DEFINE flush == stream[s].at # "user"
  <2>1. /\ stream[s].at \in {"user", "declare", "tool", "edited", "done", "turn"}
        /\ HangUp(s) /\ Finish(s, flush)
    BY <1>11 DEF Close, Yielded, Runs, At
  <2>2. stream[s].at = "user" => client[s].got \subseteq KeptTexts(s)
    BY <1>1 DEF Own, Place, Text, Early
  <2>3. stream[s].at = "done" => stream[s].unsaved \/ client[s].got \subseteq KeptTexts(s)
    BY <1>1 DEF Own, Text
  <2>4. flush \in BOOLEAN /\ (flush <=> stream[s].at # "user")
    OBVIOUS
  <2> HIDE DEF flush
  <2>5. QED
    BY <1>4, <1>6, <2>1, <2>2, <2>3, <2>4, Ending
<1>12. QED
  BY <1>7, <1>8, <1>9, <1>10, <1>11

LEMMA Turn ==
    ASSUME IInv, NEW s \in Streams,
           \/ AskModel(s) \/ GiveUp(s) \/ Reason(s) \/ Speak(s)
           \/ Answer(s) \/ CallTools(s) \/ Declare(s)
    PROVE  IInv'
<1>1. Typed /\ Own(s) /\ stream[s] \in Locals /\ client[s] \in Clients
  BY DEF IInv, Typed
<1>2. stream[s].at \in {"next", "turn", "declare"} =>
        /\ Live(client[s]) /\ context \in Dialogs /\ stream[s].dialog \in Dialogs
        /\ client[s].got \subseteq stream[s].buffer
  BY <1>1 DEF Own, Place, Seen, Text, At, InAgent, Calling
<1>3. UNCHANGED <<active, shared>> =>
        /\ UNCHANGED <<journal, results, titled, stopping, context>>
        /\ titleTool' \in BOOLEAN /\ active' \subseteq Streams
  BY <1>1 DEF Typed, shared
<1>4. CASE AskModel(s)
  <2> DEFINE r == [stream[s] EXCEPT !.at = "turn", !.said = {}]
  <2>1. /\ stream[s].at = "next" /\ stream[s].calls = <<>> /\ stream[s].errors < MaxErrors
        /\ Becomes(s, r) /\ UNCHANGED <<active, client, shared>>
    BY <1>4 DEF AskModel, Runs, At
  <2>2. /\ r \in Locals /\ r.at = "turn" /\ r.calls = <<>> /\ r.errors = stream[s].errors
        /\ r.dialog = stream[s].dialog /\ r.buffer = stream[s].buffer /\ r.said = {}
        /\ r.unsaved = stream[s].unsaved
    BY <1>1, <2>1 DEF Locals, Points
  <2> HIDE DEF r
  <2>3. Place(r)
    BY <1>1, <1>2, <2>1, <2>2 DEF Own, Place, Early, Calling
  <2>4. Seen(r, client[s]) /\ Text(r, client[s], KeptTexts(s))
    BY <1>1, <1>2, <2>1, <2>2 DEF Own, Seen, Text, Live
  <2>5. QED
    BY <1>1, <1>2, <1>3, <2>1, <2>2, <2>3, <2>4, Unmoved, Move
<1>5. CASE GiveUp(s)
  <2>1. /\ stream[s].at = "next" /\ stream[s].calls = <<>> /\ Conclude(s)
        /\ Sees(s, Failed(client[s]))
    BY <1>5 DEF GiveUp, Runs, At, SendError
  <2>2. QED
    BY <1>1, <1>2, <2>1, SeeFailed, Concluding
<1>6. CASE Reason(s)
  <2> DEFINE c == See(See(client[s], "reasoning_start"), "reasoning")
  <2>1. /\ stream[s].at = "turn" /\ "reasoning_start" \notin client[s].open
        /\ Sees(s, c) /\ UNCHANGED <<stream, active, shared>>
    BY <1>6 DEF Reason, Runs, At
  <2>2. /\ c \in Clients /\ Live(c) /\ c.got = client[s].got
        /\ c.open = client[s].open \cup {"reasoning_start"}
    BY <1>1, <1>2, <2>1, SeeReasoning
  <2> HIDE DEF c
  <2>3. Seen(stream[s], c) /\ Text(stream[s], c, KeptTexts(s))
    BY <1>1, <1>2, <2>1, <2>2 DEF Own, Seen, Text, Live
  <2>4. QED
    BY <1>1, <1>2, <1>3, <2>1, <2>2, <2>3, Unmoved, Move DEF Own
<1>7. CASE Speak(s)
  <2> DEFINE m == See(See(client[s], "chat_start"), "chat")
  <2>1. PICK text \in Texts \ stream[s].buffer :
             /\ Becomes(s, [stream[s] EXCEPT !.said = {text}, !.buffer = @ \cup {text}])
             /\ Sees(s, [m EXCEPT !.got = @ \cup {text}])
    BY <1>7 DEF Speak
  <2> DEFINE r == [stream[s] EXCEPT !.said = {text}, !.buffer = @ \cup {text}]
  <2> DEFINE c == [m EXCEPT !.got = @ \cup {text}]
  <2>2. stream[s].at = "turn" /\ stream[s].said = {} /\ UNCHANGED <<active, shared>>
    BY <1>7 DEF Speak, Runs, At
  <2>3. "chat_start" \notin client[s].open
    BY <1>1, <2>2 DEF Own, Seen
  <2>4. m \in Clients /\ Live(m) /\ m.got = client[s].got
    BY <1>1, <1>2, <2>2, <2>3, SeeSpeech
  <2> HIDE DEF m
  <2>5. c \in Clients /\ Live(c) /\ c.got = client[s].got \cup {text}
    BY <2>4 DEF Clients, Live
  <2>6. /\ r \in Locals /\ r.at = "turn" /\ r.calls = stream[s].calls
        /\ r.errors = stream[s].errors /\ r.dialog = stream[s].dialog
        /\ r.buffer = stream[s].buffer \cup {text} /\ r.said = {text}
        /\ r.unsaved = stream[s].unsaved
    BY <1>1, <2>2 DEF Locals
  <2>7. Becomes(s, r) /\ Sees(s, c)
    BY <2>1
  <2> HIDE DEF r, c
  <2>8. Place(r)
    BY <1>1, <2>2, <2>6 DEF Own, Place, Early, Calling
  <2>9. Seen(r, c)
    BY <2>5, <2>6 DEF Seen, Live
  <2>10. Text(r, c, KeptTexts(s))
    BY <1>1, <1>2, <2>2, <2>5, <2>6 DEF Own, Text
  <2>11. QED
    BY <1>2, <1>3, <2>2, <2>5, <2>6, <2>7, <2>8, <2>9, <2>10, Move
<1>8. CASE Answer(s)
  <2> DEFINE e == Ends(client[s])
  <2>1. stream[s].at = "turn" /\ Conclude(s) /\ Sees(s, See(e, "done"))
    BY <1>8 DEF Answer, Runs, At
  <2>2. e \in Clients /\ Live(e) /\ e.open = {} /\ e.got = client[s].got
    BY <1>1, <1>2, <2>1, SeeEnds
  <2>3. stream[s].calls = <<>>
    BY <1>1, <2>1 DEF Own, Place, Calling
  <2> HIDE DEF e
  <2>4. QED
    BY <2>1, <2>2, <2>3, SeeDone, Concluding
<1>9. CASE CallTools(s)
  <2>1. PICK calls \in Turns \ {<<>>} :
             Becomes(s, [stream[s] EXCEPT !.at = "declare", !.calls = calls])
    BY <1>9 DEF CallTools
  <2> DEFINE r == [stream[s] EXCEPT !.at = "declare", !.calls = calls]
  <2> DEFINE c == Ends(client[s])
  <2>2. stream[s].at = "turn" /\ Sees(s, c) /\ UNCHANGED <<active, shared>>
    BY <1>9 DEF CallTools, Runs, At
  <2>3. c \in Clients /\ Live(c) /\ c.open = {} /\ c.got = client[s].got
    BY <1>1, <1>2, <2>2, SeeEnds
  <2>4. /\ r \in Locals /\ r.at = "declare" /\ r.calls = calls /\ r.errors = stream[s].errors
        /\ r.dialog = stream[s].dialog /\ r.buffer = stream[s].buffer
        /\ r.said = stream[s].said /\ r.unsaved = stream[s].unsaved
    BY <1>1 DEF Locals, Points
  <2>5. Becomes(s, r)
    BY <2>1
  <2> HIDE DEF r, c
  <2>6. r.errors + 2 * Len(r.calls) <= MaxErrors - 1 + 2 * MaxCalls
    <3>1. stream[s].errors \in Nat /\ stream[s].errors < MaxErrors
      BY <1>1, <2>2 DEF Locals, Own, Place
    <3>2. Len(calls) \in Nat /\ Len(calls) <= MaxCalls
      BY TurnFacts, BoundsAssumption
    <3>3. QED
      BY <2>4, <3>1, <3>2, BoundsAssumption
  <2>7. Place(r)
    BY <1>1, <1>2, <2>2, <2>4, <2>6 DEF Own, Place, Early, Calling
  <2>8. Seen(r, c) /\ Text(r, c, KeptTexts(s))
    BY <1>1, <1>2, <2>2, <2>3, <2>4 DEF Own, Seen, Text, Live
  <2>9. QED
    BY <1>2, <1>3, <2>2, <2>3, <2>4, <2>5, <2>7, <2>8, Move
<1>10. CASE Declare(s)
  <2> DEFINE r == [stream[s] EXCEPT !.at = "next"]
  <2> DEFINE m == Message("text", s, stream[s].said) \cup Message("call", s, Declared(s))
  <2>1. /\ stream[s].at = "declare" /\ Add(s, context, m, r)
        /\ UNCHANGED <<active, client, results, titled, titleTool, context, stopping>>
    BY <1>10 DEF Declare, Runs, At
  <2>2. /\ r \in Locals /\ r.at = "next" /\ r.calls = stream[s].calls
        /\ r.errors = stream[s].errors /\ r.dialog = stream[s].dialog
        /\ r.buffer = stream[s].buffer /\ r.unsaved = stream[s].unsaved
    BY <1>1 DEF Locals, Points
  <2>3. m \in SUBSET Entries
    <3>1. Declared(s) \subseteq Ids
      <4>1. stream[s].calls \in Turns
        BY <1>1 DEF Locals
      <4>2. \A i \in DOMAIN stream[s].calls : stream[s].calls[i] \in Calls
        BY <4>1 DEF Turns
      <4>3. QED
        BY <4>2, CallsAssumption DEF Declared, Ids
    <3>2. Message("call", s, Declared(s)) \subseteq Entries
      BY <3>1 DEF Message, Entries
    <3>3. Message("text", s, stream[s].said) \subseteq Entries
      BY <1>1, TextEntries DEF Locals
    <3>4. QED
      BY <3>2, <3>3
  <2> HIDE DEF r
  <2>4. journal' \in [Dialogs -> SUBSET Entries] /\ Grows
    BY <1>1, <1>2, <2>1, <2>2, <2>3, AddFacts
  <2>5. PICK w \in Locals :
             /\ Becomes(s, w) /\ w = [r EXCEPT !.unsaved = w.unsaved]
             /\ r.unsaved => w.unsaved
             /\ ~w.unsaved => m \subseteq journal'[context]
    BY <1>1, <1>2, <2>1, <2>2, <2>3, AddFacts
  <2>6. /\ w.at = "next" /\ w.calls = stream[s].calls /\ w.errors = stream[s].errors
        /\ w.dialog = stream[s].dialog /\ w.buffer = stream[s].buffer
    BY <2>2, <2>5 DEF Locals
  <2>7. Place(w)
    BY <1>1, <1>2, <2>1, <2>6 DEF Own, Place, Early, Calling
  <2>8. Seen(w, client[s])
    BY <1>1, <2>1, <2>6 DEF Own, Seen
  <2>9. ~w.unsaved => stream[s].said \subseteq KeptTexts(s)'
    BY <1>2, <2>1, <2>5, KeptFacts
  <2>10. KeptTexts(s) \subseteq KeptTexts(s)'
    BY <2>4, KeptGrows
  <2>11. Text(w, client[s], KeptTexts(s)')
    BY <1>1, <1>2, <2>1, <2>2, <2>5, <2>6, <2>9, <2>10 DEF Own, Text
  <2>12. /\ active' \subseteq Streams /\ titleTool' \in BOOLEAN /\ stopping' \in BOOLEAN
         /\ results' \in [Dialogs -> SUBSET Ids] /\ titled' \subseteq Dialogs
    BY <1>1, <2>1 DEF Typed
  <2>13. QED
    BY <1>1, <1>2, <2>1, <2>4, <2>5, <2>7, <2>8, <2>11, <2>12, Unmoved, Advance
<1>11. QED
  BY <1>4, <1>5, <1>6, <1>7, <1>8, <1>9, <1>10

LEMMA Running ==
    ASSUME IInv, NEW s \in Streams,
           \/ RunTool(s) \/ Unparsed(s) \/ ToolFails(s) \/ ToolEdits(s)
           \/ EditKept(s) \/ ToolWorks(s)
    PROVE  IInv'
<1>1. Typed /\ Own(s) /\ stream[s] \in Locals /\ client[s] \in Clients
  BY DEF IInv, Typed
<1>2. stream[s].at \in {"next", "tool", "edited"} =>
        /\ Live(client[s]) /\ client[s].open = {} /\ context \in Dialogs
        /\ stream[s].dialog \in Dialogs
        /\ stream[s].unsaved \/ client[s].got \subseteq KeptTexts(s)
        /\ client[s].got \subseteq stream[s].buffer
  BY <1>1 DEF Own, Place, Seen, Text, At, InAgent, Calling
<1>3. stream[s].at \in {"tool", "edited"} => stream[s].calls # <<>>
  BY <1>1 DEF Own, Place
<1>4. stream[s].errors \in Nat
  BY <1>1 DEF Locals
<1>5. UNCHANGED <<active, shared>> =>
        /\ UNCHANGED <<journal, results, titled, stopping, context>>
        /\ titleTool' \in BOOLEAN /\ active' \subseteq Streams
  BY <1>1 DEF Typed, shared
<1>6. titled \subseteq Dialogs
  BY <1>1 DEF Typed
<1>7. CASE RunTool(s)
  <2> DEFINE r == [stream[s] EXCEPT !.at = "tool"]
  <2> DEFINE c == See(client[s], "tool_call")
  <2>1. /\ stream[s].at = "next" /\ stream[s].calls # <<>> /\ Becomes(s, r)
        /\ Sees(s, c) /\ UNCHANGED <<active, shared>>
    BY <1>7 DEF RunTool, Runs, At, GoTo, Send
  <2>2. c \in Clients /\ Live(c) /\ c.open = {} /\ c.got = client[s].got
    BY <1>1, <1>2, <2>1, SeePlain
  <2>3. /\ r \in Locals /\ r.at = "tool" /\ r.calls = stream[s].calls
        /\ r.errors = stream[s].errors /\ r.dialog = stream[s].dialog
        /\ r.buffer = stream[s].buffer /\ r.unsaved = stream[s].unsaved
    BY <1>1 DEF Locals, Points
  <2> HIDE DEF r, c
  <2>4. Place(r)
    BY <1>1, <1>2, <2>1, <2>3 DEF Own, Place, Early, Calling
  <2>5. Seen(r, c) /\ Text(r, c, KeptTexts(s))
    BY <1>2, <2>1, <2>2, <2>3 DEF Seen, Text, Live
  <2>6. QED
    BY <1>2, <1>5, <2>1, <2>2, <2>3, <2>4, <2>5, Move
<1>8. CASE ToolEdits(s)
  <2> DEFINE r == [stream[s] EXCEPT !.at = "edited", !.errors = 0]
  <2> DEFINE c == See(client[s], "file_edit")
  <2>1. stream[s].at = "tool" /\ Becomes(s, r) /\ Sees(s, c) /\ UNCHANGED <<active, shared>>
    BY <1>8 DEF ToolEdits, Runs, At, Send
  <2>2. c \in Clients /\ Live(c) /\ c.open = {} /\ c.got = client[s].got
    BY <1>1, <1>2, <2>1, SeePlain
  <2>3. /\ r \in Locals /\ r.at = "edited" /\ r.calls = stream[s].calls /\ r.errors = 0
        /\ r.dialog = stream[s].dialog /\ r.buffer = stream[s].buffer
        /\ r.unsaved = stream[s].unsaved
    BY <1>1 DEF Locals, Points
  <2> HIDE DEF r, c
  <2>4. r.errors + 2 * Len(r.calls) <= MaxErrors - 1 + 2 * MaxCalls
    <3>1. stream[s].errors + 2 * Len(stream[s].calls) <= MaxErrors - 1 + 2 * MaxCalls
      BY <1>1 DEF Own, Place
    <3>2. Len(stream[s].calls) \in Nat
      BY <1>1, TurnFacts DEF Locals
    <3>3. QED
      BY <1>4, <2>3, <3>1, <3>2, BoundsAssumption
  <2>5. Place(r)
    BY <1>2, <1>3, <2>1, <2>3, <2>4 DEF Place, Early, Calling
  <2>6. Seen(r, c) /\ Text(r, c, KeptTexts(s))
    BY <1>2, <2>1, <2>2, <2>3 DEF Seen, Text, Live
  <2>7. QED
    BY <1>2, <1>5, <2>1, <2>2, <2>3, <2>5, <2>6, Move
<1>9. CASE Unparsed(s)
  <2>1. stream[s].at = "next" /\ stream[s].calls # <<>>
    BY <1>9 DEF Unparsed, Runs, At
  <2>2. \/ /\ Store(s, stream[s].errors + 1)
           /\ UNCHANGED <<active, client, titled, titleTool, context, stopping>>
        \/ SendError(s) /\ Finish(s, FALSE)
    BY <1>9 DEF Unparsed
  <2>3. CASE /\ Store(s, stream[s].errors + 1)
             /\ UNCHANGED <<active, client, titled, titleTool, context, stopping>>
    BY <1>4, <1>6, <2>1, <2>3, Storing
  <2>4. CASE SendError(s) /\ Finish(s, FALSE)
    <3> DEFINE c == Failed(client[s])
    <3>1. c \in Clients /\ ~c.broken /\ c.done /\ c.got = client[s].got
      BY <1>1, <1>2, <2>1, SeeFailed
    <3>2. Sees(s, c)
      BY <2>4 DEF SendError
    <3> HIDE DEF c
    <3>3. QED
      BY <1>2, <2>1, <2>4, <3>1, <3>2, Ending
  <2>5. QED
    BY <2>2, <2>3, <2>4
<1>10. CASE ToolFails(s)
  <2>1. /\ stream[s].at = "tool"
        /\ UNCHANGED <<active, client, titled, titleTool, context, stopping>>
        /\ StoreById(s, stream[s].errors + 1) \/ Recover(s, stream[s].errors)
    BY <1>10 DEF ToolFails, Runs, At
  <2>2. CASE StoreById(s, stream[s].errors + 1)
    BY <1>3, <1>4, <1>6, <2>1, <2>2, Storing
  <2>3. CASE Recover(s, stream[s].errors)
    BY <1>3, <1>4, <1>6, <2>1, <2>3, Storing
  <2>4. QED
    BY <2>1, <2>2, <2>3
<1>11. CASE EditKept(s) \/ ToolWorks(s)
  <2>1. /\ stream[s].at \in {"tool", "edited"} /\ StoreById(s, 0)
        /\ UNCHANGED <<active, client, titleTool, context, stopping>>
        /\ titled' = titled \/ titled' = titled \cup {context}
    BY <1>11 DEF EditKept, ToolWorks, Runs, At
  <2>2. titled' \subseteq Dialogs
    BY <1>2, <1>6, <2>1
  <2>3. QED
    BY <1>3, <1>4, <2>1, <2>2, Storing
<1>12. QED
  BY <1>7, <1>8, <1>9, <1>10, <1>11
-----------------------------------------------------------------------------
LEMMA Start == Init => IInv
<1> SUFFICES ASSUME Init PROVE IInv
  OBVIOUS
<1>1. Fresh \in Locals /\ NewClient \in Clients
  BY NoCalls DEF Fresh, NewClient, Locals, Clients, Points
<1>2. Typed
  BY <1>1 DEF Init, Typed
<1>3. ASSUME NEW s \in Streams
      PROVE  Own(s)
  <2>1. stream[s] = Fresh /\ client[s] = NewClient
    BY DEF Init
  <2>2. Place(Fresh)
    BY NoCalls, BoundsAssumption DEF Place, Fresh, Early, Calling
  <2>3. Seen(Fresh, NewClient) /\ Text(Fresh, NewClient, KeptTexts(s))
    BY DEF Seen, Text, Fresh, NewClient, Live
  <2>4. ~At(s, InAgent)
    BY <2>1 DEF At, InAgent, Calling, Fresh
  <2>5. QED
    BY <2>1, <2>2, <2>3, <2>4 DEF Own
<1>4. QED
  BY <1>2, <1>3 DEF IInv

LEMMA Unchanged ==
    ASSUME IInv, UNCHANGED <<stream, active, client, journal, results, titled, titleTool, context>>,
           stopping' \in BOOLEAN
    PROVE  IInv'
<1>1. Typed'
  BY DEF IInv, Typed
<1>2. \A s \in Streams : KeptTexts(s)' = KeptTexts(s)
  BY DEF KeptTexts
<1>3. \A s \in Streams : Own(s)'
  BY <1>2 DEF IInv, Own, At
<1>4. QED
  BY <1>1, <1>3 DEF IInv

LEMMA Preserved == IInv /\ [Next]_vars => IInv'
<1> SUFFICES ASSUME IInv, [Next]_vars PROVE IInv'
  OBVIOUS
<1>1. ASSUME NEW s \in Streams, Step(s)
      PROVE  IInv'
  BY <1>1, Before, Stops, Turn, Running DEF Step
<1>2. CASE Shutdown
  BY <1>2, Unchanged DEF Shutdown
<1>3. CASE UNCHANGED vars
  <2>1. stopping' \in BOOLEAN
    BY <1>3 DEF vars, IInv, Typed
  <2>2. QED
    BY <1>3, <2>1, Unchanged DEF vars
<1>4. QED
  BY <1>1, <1>2, <1>3 DEF Next, Step

THEOREM Invariance == Spec => []IInv
<1>1. QED
  BY Start, Preserved, PTL DEF Spec

(* TypeOK, for any streams, dialogs, calls and bounds: no turn begins      *)
(* after MaxErrors failures in a row (ToolExecutor._process_streaming).    *)
THEOREM StreamTypes == Spec => []TypeOK
<1>1. IInv => TypeOK
  <2> SUFFICES ASSUME IInv PROVE TypeOK
    OBVIOUS
  <2>1. ASSUME NEW s \in Streams
        PROVE  stream[s].errors \in 0..(MaxErrors - 1 + 2 * MaxCalls)
    <3>1. stream[s] \in Locals /\ Place(stream[s])
      BY DEF IInv, Typed, Own
    <3>2. stream[s].errors \in Nat /\ Len(stream[s].calls) \in Nat
      BY <3>1, TurnFacts DEF Locals
    <3>3. QED
      BY <3>1, <3>2, BoundsAssumption DEF Place
  <2>2. stream \in [Streams -> Locals] /\ DOMAIN client = Streams
    BY DEF IInv, Typed
  <2> DEFINE R == [at : Points, dialog : Dialogs \cup {None}, hasTitle : BOOLEAN,
                   buffer : SUBSET Texts, said : SUBSET Texts, calls : Turns,
                   errors : 0..(MaxErrors - 1 + 2 * MaxCalls), unsaved : BOOLEAN]
  <2>3. ASSUME NEW s \in Streams
        PROVE  stream[s] \in R
    BY <2>1, <2>2 DEF Locals
  <2>4. stream \in [Streams -> R]
    BY <2>2, <2>3
  <2>5. QED
    BY <2>2, <2>4 DEF TypeOK, IInv, Typed
<1>2. QED
  BY <1>1, Invariance, PTL

(* Whatever interleaves, fails or is cut short, a client reads segments    *)
(* that open and close, error only before done, and done once and at the   *)
(* end, unless it hangs up (stream_chat, _process_streaming, sse.py).      *)
THEOREM StreamIsWellFormed == Spec => []ProtocolKept
<1>1. IInv => ProtocolKept
  BY DEF IInv, Own, Seen, ProtocolKept, At
<1>2. QED
  BY <1>1, Invariance, PTL

(* What a client has read is in a journal when its stream is over, unless  *)
(* a write failed (_flush_assistant_buffer, stream_chat's handlers).       *)
THEOREM ReadIsKept == Spec => []TextKept
<1>1. IInv => TextKept
  BY DEF IInv, Own, Text, TextKept, At
<1>2. QED
  BY <1>1, Invariance, PTL
-----------------------------------------------------------------------------
(* As long as no other stream changes the executor's context under it, a   *)
(* call that a stream has still to run is declared in the journal that its *)
(* result will go to.                                                      *)
ContextKept == \A s \in Streams : At(s, InAgent) /\ At(s, InAgent)' => UNCHANGED context

CallOf(s, id) == [kind |-> "call", by |-> s, of |-> id]
Holding == {"next", "tool", "edited"}
Pending(s) == At(s, Holding) /\ ~stream[s].unsaved

Declares(s) ==
    Pending(s) =>
        \A i \in 1..Len(stream[s].calls) :
            LET call == stream[s].calls[i]
            IN  call.tool = "plain" /\ call.id # NoId => CallOf(s, call.id) \in journal[context]

CInv == ResultHasCall /\ \A s \in Streams : Declares(s)

(* A step that stores no result.                                           *)
NoResults == \A d \in Dialogs : \A e \in journal'[d] : e \in journal[d] \/ e.kind # "result"

(* What a step does to the calls of its stream, if it is no Declare and    *)
(* stores nothing.                                                         *)
Quiet(s, r) ==
    /\ Becomes(s, r)
    /\ stream[s].unsaved => r.unsaved
    /\ r.at \in Holding =>
         r.calls = <<>> \/ (stream[s].at \in Holding /\ r.calls = stream[s].calls)

LEMMA CallsStay ==
    ASSUME ContextKept, IInv, IInv', CInv, NEW s \in Streams, Grows,
           NEW t \in Streams \ {s}, stream'[t] = stream[t]
    PROVE  Declares(t)'
<1> SUFFICES ASSUME Pending(t)', NEW i \in 1..Len(stream'[t].calls),
                    stream'[t].calls[i].tool = "plain", stream'[t].calls[i].id # NoId
             PROVE  CallOf(t, stream'[t].calls[i].id) \in journal'[context']
  BY DEF Declares, CallOf
<1>1. Pending(t)
  BY DEF Pending, At
<1>2. CallOf(t, stream[t].calls[i].id) \in journal[context]
  BY <1>1 DEF CInv, Declares
<1>3. context \in Dialogs /\ context' = context
  <2>1. At(t, InAgent) /\ At(t, InAgent)'
    BY <1>1 DEF Pending, At, Holding, InAgent, Calling
  <2>2. QED
    BY <2>1 DEF IInv, Own, ContextKept
<1>4. QED
  BY <1>2, <1>3 DEF Grows

LEMMA ResultsStay ==
    ASSUME IInv, CInv, Grows, NEW s \in Streams,
           \A t \in Streams : stream[t].unsaved => stream'[t].unsaved,
           \A d \in Dialogs : \A e \in journal'[d] :
               e \in journal[d] \/ e.kind # "result" \/ e.of = NoId \/ stream'[e.by].unsaved
               \/ CallOf(e.by, e.of) \in journal[d]
    PROVE  ResultHasCall'
<1> SUFFICES ASSUME NEW d \in Dialogs, NEW e \in journal'[d],
                    e.kind = "result", e.of # NoId, ~stream'[e.by].unsaved
             PROVE  \E c \in journal'[d] : c.kind = "call" /\ c.of = e.of /\ c.by = e.by
  BY DEF ResultHasCall
<1>1. CASE e \in journal[d]
  <2>1. e.by \in Streams
    BY <1>1 DEF IInv, Typed, Entries
  <2>2. QED
    BY <1>1, <2>1 DEF CInv, ResultHasCall, Grows
<1>2. CASE CallOf(e.by, e.of) \in journal[d]
  BY <1>2 DEF CallOf, Grows
<1>3. QED
  BY <1>1, <1>2

LEMMA QuietSteps ==
    ASSUME ContextKept, IInv, IInv', CInv, NEW s \in Streams, NEW r, Quiet(s, r), Grows, NoResults
    PROVE  CInv'
<1>1. stream \in [Streams -> Locals] /\ stream' = [stream EXCEPT ![s] = r]
  BY DEF IInv, Typed, Quiet, Becomes
<1>2. stream'[s] = r /\ \A t \in Streams \ {s} : stream'[t] = stream[t]
  BY <1>1
<1>3. \A t \in Streams \ {s} : Declares(t)'
  BY <1>2, CallsStay
<1>4. Declares(s)'
  <2> SUFFICES ASSUME Pending(s)', NEW i \in 1..Len(r.calls),
                      r.calls[i].tool = "plain", r.calls[i].id # NoId
               PROVE  CallOf(s, r.calls[i].id) \in journal'[context']
    BY <1>2 DEF Declares, CallOf
  <2>1. r.at \in Holding /\ ~r.unsaved
    BY <1>2 DEF Pending, At
  <2>2. r.calls # <<>>
    BY NoCalls
  <2>3. Pending(s) /\ r.calls = stream[s].calls
    BY <2>1, <2>2 DEF Quiet, Pending, At
  <2>4. CallOf(s, r.calls[i].id) \in journal[context]
    BY <2>3 DEF CInv, Declares
  <2>5. At(s, InAgent) /\ At(s, InAgent)'
    BY <1>2, <2>1, <2>3 DEF Pending, At, Holding, InAgent, Calling
  <2>6. context \in Dialogs /\ context' = context
    BY <2>5 DEF IInv, Own, ContextKept
  <2>7. QED
    BY <2>4, <2>6 DEF Grows
<1>5. \A t \in Streams : stream[t].unsaved => stream'[t].unsaved
  BY <1>2 DEF Quiet
<1>6. ResultHasCall'
  BY <1>5, ResultsStay DEF NoResults
<1>7. QED
  BY <1>3, <1>4, <1>6 DEF CInv
-----------------------------------------------------------------------------
(* The flush adds texts only.                                              *)
LEMMA FlushQuiet ==
    ASSUME Typed, NEW s \in Streams, NEW r \in Locals, Flush(s, r)
    PROVE  /\ Grows /\ NoResults
           /\ \E w : Becomes(s, w) /\ w.at = r.at /\ w.calls = r.calls /\ (r.unsaved => w.unsaved)
<1> DEFINE m == Message("text", s, stream[s].buffer)
<1> DEFINE lost == [r EXCEPT !.unsaved = TRUE]
<1>1. journal \in [Dialogs -> SUBSET Entries]
  BY DEF Typed
<1>2. \A e \in m : e.kind = "text"
  BY DEF Message
<1>3. lost.at = r.at /\ lost.calls = r.calls /\ lost.unsaved
  BY DEF Locals
<1>4. \/ journal' = [journal EXCEPT ![r.dialog] = @ \cup m] /\ Becomes(s, r)
      \/ UNCHANGED journal /\ Becomes(s, lost)
      \/ UNCHANGED journal /\ Becomes(s, r)
  BY DEF Flush, Add
<1> HIDE DEF m, lost
<1>5. CASE journal' = [journal EXCEPT ![r.dialog] = @ \cup m] /\ Becomes(s, r)
  <2>1. \A d \in Dialogs : journal[d] \subseteq journal'[d]
                           /\ journal'[d] \subseteq journal[d] \cup m
    BY <1>1, <1>5
  <2>2. Grows /\ NoResults
    BY <1>2, <2>1 DEF Grows, NoResults
  <2>3. QED
    BY <1>5, <2>2
<1>6. CASE UNCHANGED journal /\ (Becomes(s, lost) \/ Becomes(s, r))
  BY <1>3, <1>6 DEF Grows, NoResults
<1>7. QED
  BY <1>4, <1>5, <1>6

LEMMA FinishQuiet ==
    ASSUME IInv, NEW s \in Streams, NEW flush, Finish(s, flush)
    PROVE  Grows /\ NoResults /\ \E r : Quiet(s, r)
<1> DEFINE r == [Fresh EXCEPT !.at = "over", !.dialog = stream[s].dialog,
                              !.unsaved = stream[s].unsaved]
<1>1. Typed /\ stream[s] \in Locals
  BY DEF IInv, Typed
<1>2. r \in Locals /\ r.at = "over" /\ r.unsaved = stream[s].unsaved
  BY <1>1, NoCalls DEF Locals, Fresh, Points
<1>3. Flush(s, r) \/ (UNCHANGED journal /\ Becomes(s, r))
  BY DEF Finish
<1> HIDE DEF r
<1>4. CASE Flush(s, r)
  BY <1>1, <1>2, <1>4, FlushQuiet DEF Quiet, Holding
<1>5. CASE UNCHANGED journal /\ Becomes(s, r)
  BY <1>2, <1>5 DEF Quiet, Holding, Grows, NoResults
<1>6. QED
  BY <1>3, <1>4, <1>5

LEMMA ConcludeQuiet ==
    ASSUME IInv, NEW s \in Streams, Conclude(s)
    PROVE  Grows /\ NoResults /\ \E r : Quiet(s, r)
<1> DEFINE r == [stream[s] EXCEPT !.at = "done"]
<1>1. Typed /\ stream[s] \in Locals
  BY DEF IInv, Typed
<1>2. r \in Locals /\ r.at = "done" /\ r.unsaved = stream[s].unsaved
  BY <1>1 DEF Locals, Points
<1>3. Flush(s, r)
  BY DEF Conclude
<1> HIDE DEF r
<1>4. QED
  BY <1>1, <1>2, <1>3, FlushQuiet DEF Quiet, Holding

LEMMA MoveQuiet ==
    ASSUME IInv, NEW s \in Streams, UNCHANGED journal, NEW r, Becomes(s, r),
           stream[s].unsaved => r.unsaved,
           \/ r.at \notin Holding
           \/ r.calls = <<>>
           \/ stream[s].at \in Holding /\ r.calls = stream[s].calls
    PROVE  Grows /\ NoResults /\ \E w : Quiet(s, w)
BY DEF Quiet, Grows, NoResults

LEMMA QuietStep ==
    ASSUME IInv, NEW s \in Streams, Step(s)
    PROVE  \/ Grows /\ NoResults /\ \E r : Quiet(s, r)
           \/ Declare(s)
           \/ \E n \in Nat : /\ Store(s, n) \/ Recover(s, n) \/ StoreById(s, n)
                             /\ stream[s].at \in Holding /\ stream[s].calls # <<>>
<1>1. Typed /\ Own(s) /\ stream[s] \in Locals /\ stream[s].errors \in Nat
  BY DEF IInv, Typed, Locals
<1>2. CASE \/ StopBetweenNodes(s) \/ ContextFails(s) \/ ModelFails(s) \/ Complete(s)
           \/ Cancel(s) \/ Close(s)
  <2>1. \E flush : Finish(s, flush)
    BY <1>2 DEF StopBetweenNodes, ContextFails, ModelFails, Complete, Cancel, Close
  <2>2. QED
    BY <2>1, FinishQuiet
<1>3. CASE GiveUp(s) \/ Answer(s)
  BY <1>3, ConcludeQuiet DEF GiveUp, Answer
<1>4. CASE Misconfigured(s)
  <2> DEFINE r == [stream[s] EXCEPT !.at = "over"]
  <2>1. Becomes(s, r) /\ UNCHANGED journal
    BY <1>4 DEF Misconfigured, GoTo, shared
  <2>2. r.at \notin Holding /\ r.unsaved = stream[s].unsaved
    BY <1>1 DEF Locals, Holding
  <2> HIDE DEF r
  <2>3. QED
    BY <2>1, <2>2, MoveQuiet
<1>5. CASE Request(s)
  <2>1. PICK d \in Dialogs : Becomes(s, [Fresh EXCEPT !.at = "sync", !.dialog = d])
    BY <1>5 DEF Request
  <2> DEFINE r == [Fresh EXCEPT !.at = "sync", !.dialog = d]
  <2>2. Becomes(s, r) /\ UNCHANGED journal /\ ~stream[s].unsaved
    BY <1>1, <1>5, <2>1 DEF Request, shared, Runs, At, Own, Place
  <2>3. r.at \notin Holding
    BY DEF Fresh, Holding
  <2> HIDE DEF r
  <2>4. QED
    BY <2>2, <2>3, MoveQuiet
<1>6. CASE Prepare(s)
  <2> DEFINE has == stream[s].dialog \in titled
  <2> DEFINE r == [stream[s] EXCEPT !.at = "user", !.hasTitle = has]
  <2>1. Becomes(s, r) /\ UNCHANGED journal
    BY <1>6 DEF Prepare, shared
  <2> HIDE DEF has
  <2>2. r.at \notin Holding /\ r.unsaved = stream[s].unsaved
    BY <1>1 DEF Locals, Holding
  <2> HIDE DEF r
  <2>3. QED
    BY <2>1, <2>2, MoveQuiet
<1>7. CASE RunGraph(s) \/ EnterAgent(s)
  <2>1. PICK point \in {"compact", "prepare"} : GoTo(s, point)
    BY <1>7 DEF RunGraph, EnterAgent
  <2> DEFINE r == [stream[s] EXCEPT !.at = point]
  <2>2. Becomes(s, r) /\ UNCHANGED journal
    BY <1>7, <2>1 DEF RunGraph, EnterAgent, GoTo, shared
  <2>3. r.at \notin Holding /\ r.unsaved = stream[s].unsaved
    BY <1>1 DEF Locals, Holding
  <2> HIDE DEF r
  <2>4. QED
    BY <2>2, <2>3, MoveQuiet
<1>8. CASE ContextBuilt(s)
  <2> DEFINE r == [stream[s] EXCEPT !.at = "next"]
  <2>1. Becomes(s, r) /\ UNCHANGED journal /\ stream[s].calls = <<>>
    BY <1>1, <1>8 DEF ContextBuilt, GoTo, shared, Runs, At, Own, Place, Calling
  <2>2. r.calls = <<>> /\ r.unsaved = stream[s].unsaved
    BY <1>1, <2>1 DEF Locals
  <2> HIDE DEF r
  <2>3. QED
    BY <2>1, <2>2, MoveQuiet
<1>9. CASE AskModel(s)
  <2> DEFINE r == [stream[s] EXCEPT !.at = "turn", !.said = {}]
  <2>1. Becomes(s, r) /\ UNCHANGED journal
    BY <1>9 DEF AskModel, shared
  <2>2. r.at \notin Holding /\ r.unsaved = stream[s].unsaved
    BY <1>1 DEF Locals, Holding
  <2> HIDE DEF r
  <2>3. QED
    BY <2>1, <2>2, MoveQuiet
<1>10. CASE Reason(s)
  <2>1. Becomes(s, stream[s]) /\ UNCHANGED journal /\ stream[s].at \notin Holding
    BY <1>1, <1>10, Unmoved DEF Reason, shared, Runs, At, Holding
  <2>2. QED
    BY <2>1, MoveQuiet
<1>11. CASE Speak(s)
  <2>1. PICK text : Becomes(s, [stream[s] EXCEPT !.said = {text}, !.buffer = @ \cup {text}])
    BY <1>11 DEF Speak
  <2> DEFINE r == [stream[s] EXCEPT !.said = {text}, !.buffer = @ \cup {text}]
  <2>2. Becomes(s, r) /\ UNCHANGED journal /\ stream[s].at = "turn"
    BY <1>11, <2>1 DEF Speak, shared, Runs, At
  <2>3. r.at \notin Holding /\ r.unsaved = stream[s].unsaved
    BY <1>1, <2>2 DEF Locals, Holding
  <2> HIDE DEF r
  <2>4. QED
    BY <2>2, <2>3, MoveQuiet
<1>12. CASE CallTools(s)
  <2>1. PICK calls : Becomes(s, [stream[s] EXCEPT !.at = "declare", !.calls = calls])
    BY <1>12 DEF CallTools
  <2> DEFINE r == [stream[s] EXCEPT !.at = "declare", !.calls = calls]
  <2>2. Becomes(s, r) /\ UNCHANGED journal
    BY <1>12, <2>1 DEF CallTools, shared
  <2>3. r.at \notin Holding /\ r.unsaved = stream[s].unsaved
    BY <1>1 DEF Locals, Holding
  <2> HIDE DEF r
  <2>4. QED
    BY <2>2, <2>3, MoveQuiet
<1>13. CASE RunTool(s)
  <2> DEFINE r == [stream[s] EXCEPT !.at = "tool"]
  <2>1. Becomes(s, r) /\ UNCHANGED journal /\ stream[s].at \in Holding
    BY <1>13 DEF RunTool, GoTo, shared, Runs, At, Holding
  <2>2. r.calls = stream[s].calls /\ r.unsaved = stream[s].unsaved
    BY <1>1 DEF Locals
  <2> HIDE DEF r
  <2>3. QED
    BY <2>1, <2>2, MoveQuiet
<1>14. CASE ToolEdits(s)
  <2> DEFINE r == [stream[s] EXCEPT !.at = "edited", !.errors = 0]
  <2>1. Becomes(s, r) /\ UNCHANGED journal /\ stream[s].at \in Holding
    BY <1>14 DEF ToolEdits, shared, Runs, At, Holding
  <2>2. r.calls = stream[s].calls /\ r.unsaved = stream[s].unsaved
    BY <1>1 DEF Locals
  <2> HIDE DEF r
  <2>3. QED
    BY <2>1, <2>2, MoveQuiet
<1>15. CASE Unparsed(s)
  <2>1. CASE Finish(s, FALSE)
    BY <2>1, FinishQuiet
  <2>2. CASE Store(s, stream[s].errors + 1)
    <3>1. stream[s].errors + 1 \in Nat /\ stream[s].at \in Holding /\ stream[s].calls # <<>>
      BY <1>1, <1>15 DEF Unparsed, Runs, At, Holding
    <3>2. QED
      BY <2>2, <3>1
  <2>3. QED
    BY <1>15, <2>1, <2>2 DEF Unparsed
<1>16. CASE ToolFails(s) \/ EditKept(s) \/ ToolWorks(s)
  <2>1. stream[s].at \in Holding /\ stream[s].calls # <<>>
    BY <1>1, <1>16 DEF ToolFails, EditKept, ToolWorks, Runs, At, Holding, Own, Place
  <2>2. stream[s].errors + 1 \in Nat
    BY <1>1
  <2>3. \/ StoreById(s, stream[s].errors + 1) \/ Recover(s, stream[s].errors)
        \/ StoreById(s, 0)
    BY <1>16 DEF ToolFails, EditKept, ToolWorks
  <2>4. QED
    BY <1>1, <2>1, <2>2, <2>3
<1>17. QED
  BY <1>2, <1>3, <1>4, <1>5, <1>6, <1>7, <1>8, <1>9, <1>10, <1>11, <1>12, <1>13, <1>14,
     <1>15, <1>16 DEF Step

LEMMA DeclareStep ==
    ASSUME ContextKept, IInv, IInv', CInv, NEW s \in Streams, Declare(s)
    PROVE  CInv'
<1> DEFINE r == [stream[s] EXCEPT !.at = "next"]
<1> DEFINE m == Message("text", s, stream[s].said) \cup Message("call", s, Declared(s))
<1> DEFINE lost == [r EXCEPT !.unsaved = TRUE]
<1>1. Typed /\ stream[s] \in Locals /\ context \in Dialogs
  BY DEF IInv, Typed, Own, Declare, Runs, At, InAgent, Calling
<1>2. /\ \/ journal' = [journal EXCEPT ![context] = @ \cup m] /\ Becomes(s, r)
         \/ UNCHANGED journal /\ Becomes(s, lost)
      /\ UNCHANGED context
  BY DEF Declare, Add
<1>3. /\ r.unsaved = stream[s].unsaved /\ r.calls = stream[s].calls
      /\ lost.unsaved /\ lost.calls = stream[s].calls
  BY <1>1 DEF Locals
<1>4. \A e \in m : e.kind # "result"
  BY DEF Message
<1>5. \A id \in Declared(s) : CallOf(s, id) \in m
  BY DEF Message, CallOf
<1> HIDE DEF r, m, lost
<1>6. journal \in [Dialogs -> SUBSET Entries] /\ stream \in [Streams -> Locals]
  BY <1>1 DEF Typed
<1>7. PICK w : Becomes(s, w) /\ w \in {r, lost}
  BY <1>2
<1>8. stream'[s] = w /\ \A t \in Streams \ {s} : stream'[t] = stream[t]
  BY <1>6, <1>7 DEF Becomes
<1>9. \A d \in Dialogs : journal[d] \subseteq journal'[d] /\ journal'[d] \subseteq journal[d] \cup m
  BY <1>1, <1>2, <1>6
<1>10. Grows /\ NoResults
  BY <1>4, <1>9 DEF Grows, NoResults
<1>11. \A t \in Streams \ {s} : Declares(t)'
  BY <1>8, <1>10, CallsStay
<1>12. Declares(s)'
  <2> SUFFICES ASSUME Pending(s)', NEW i \in 1..Len(stream'[s].calls),
                      stream'[s].calls[i].tool = "plain", stream'[s].calls[i].id # NoId
               PROVE  CallOf(s, stream'[s].calls[i].id) \in journal'[context']
    BY DEF Declares, CallOf
  <2>1. stream'[s].calls = stream[s].calls
    BY <1>3, <1>7, <1>8
  <2>2. ~stream'[s].unsaved
    BY DEF Pending
  <2>3. stream'[s] # lost
    BY <1>3, <2>2
  <2>4. m \subseteq journal'[context]
    <3>1. CASE journal' = [journal EXCEPT ![context] = @ \cup m]
      BY <1>1, <1>6, <3>1
    <3>2. CASE Becomes(s, lost)
      BY <1>6, <2>3, <3>2 DEF Becomes
    <3>3. QED
      BY <1>2, <3>1, <3>2
  <2>5. stream[s].calls \in Turns
    BY <1>1 DEF Locals
  <2>6. i \in DOMAIN stream[s].calls
    BY <2>1, <2>5, TurnFacts
  <2>7. stream[s].calls[i].id \in Declared(s)
    BY <2>1, <2>6 DEF Declared, Ephemeral
  <2>8. QED
    BY <1>2, <1>5, <2>1, <2>4, <2>7
<1>13. \A t \in Streams : stream[t].unsaved => stream'[t].unsaved
  BY <1>3, <1>7, <1>8
<1>14. ResultHasCall'
  BY <1>10, <1>13, ResultsStay DEF NoResults
<1>15. QED
  BY <1>11, <1>12, <1>14 DEF CInv

LEMMA StoreStep ==
    ASSUME ContextKept, IInv, IInv', CInv, NEW s \in Streams, NEW n \in Nat,
           Store(s, n) \/ Recover(s, n) \/ StoreById(s, n),
           stream[s].at \in Holding, stream[s].calls # <<>>, UNCHANGED context
    PROVE  CInv'
<1> DEFINE call == Call(s)
<1> DEFINE kind == IF call.tool = "title" THEN "title" ELSE "result"
<1> DEFINE m == Message(kind, s, {call.id})
<1>1. Typed /\ stream[s] \in Locals /\ stream[s].calls \in Turns /\ context \in Dialogs
  BY DEF IInv, Typed, Locals, Own, At, InAgent, Calling, Holding
<1>2. /\ call \in Calls /\ Tail(stream[s].calls) \in Turns
      /\ Len(Tail(stream[s].calls)) = Len(stream[s].calls) - 1
      /\ stream[s].calls \in Seq(Calls) /\ Len(stream[s].calls) \in Nat
  BY <1>1, TurnFacts DEF Call
<1>3. \E e \in {n, n + 1} : Keep(s, e) \/ Pass(s, e)
  BY DEF Store, Recover, StoreById
<1>4. PICK e \in {n, n + 1} : Keep(s, e) \/ Pass(s, e)
  BY <1>3
<1> DEFINE r == Return(s, e)
<1> DEFINE lost == [r EXCEPT !.unsaved = TRUE]
<1>5. \/ journal' = [journal EXCEPT ![context] = @ \cup m] /\ Becomes(s, r)
      \/ UNCHANGED journal /\ (Becomes(s, lost) \/ Becomes(s, r))
  BY <1>4 DEF Keep, Pass, Add
<1>6. /\ r.unsaved = stream[s].unsaved /\ r.calls = Tail(stream[s].calls)
      /\ lost.unsaved /\ lost.calls = Tail(stream[s].calls)
  BY <1>1 DEF Locals, Return
<1>7. \A x \in m : x.kind = kind /\ x.by = s /\ x.of = call.id
  BY DEF Message
<1>8. call.tool \in {"plain", "title"} /\ call = stream[s].calls[1]
  BY <1>2, CallsAssumption DEF Call
<1>9. kind = "result" => call.tool = "plain"
  BY <1>8
<1> HIDE DEF r, m, lost, call, kind
<1>10. journal \in [Dialogs -> SUBSET Entries] /\ stream \in [Streams -> Locals]
  BY <1>1 DEF Typed
<1>11. PICK w : Becomes(s, w) /\ w \in {r, lost}
  BY <1>5
<1>12. stream'[s] = w /\ \A t \in Streams \ {s} : stream'[t] = stream[t]
  BY <1>10, <1>11 DEF Becomes
<1>13. \A d \in Dialogs : journal[d] \subseteq journal'[d]
                          /\ journal'[d] \subseteq journal[d] \cup m
  BY <1>1, <1>5, <1>10
<1>14. Grows /\ \A d \in Dialogs \ {context} : journal'[d] = journal[d]
  BY <1>1, <1>5, <1>10, <1>13 DEF Grows
<1>15. \A t \in Streams : stream[t].unsaved => stream'[t].unsaved
  BY <1>6, <1>11, <1>12
<1>16. \A t \in Streams \ {s} : Declares(t)'
  BY <1>12, <1>14, CallsStay
<1>17. Declares(s)'
  <2> SUFFICES ASSUME Pending(s)', NEW i \in 1..Len(stream'[s].calls),
                      stream'[s].calls[i].tool = "plain", stream'[s].calls[i].id # NoId
               PROVE  CallOf(s, stream'[s].calls[i].id) \in journal'[context']
    BY DEF Declares, CallOf
  <2>1. stream'[s].calls = Tail(stream[s].calls)
    BY <1>6, <1>11, <1>12
  <2>2. stream'[s].calls[i] = stream[s].calls[i + 1] /\ i + 1 \in 1..Len(stream[s].calls)
    BY <1>2, <2>1
  <2>3. Pending(s)
    BY <1>15 DEF Pending, At
  <2>4. CallOf(s, stream'[s].calls[i].id) \in journal[context]
    BY <2>2, <2>3 DEF CInv, Declares
  <2>5. QED
    BY <1>1, <1>14, <2>4 DEF Grows
<1>18. \A d \in Dialogs : \A x \in journal'[d] :
           x \in journal[d] \/ x.kind # "result" \/ x.of = NoId \/ stream'[x.by].unsaved
           \/ CallOf(x.by, x.of) \in journal[d]
  <2> SUFFICES ASSUME NEW d \in Dialogs, NEW x \in m,
                      x.kind = "result", x.of # NoId, ~stream'[x.by].unsaved
               PROVE  x \in journal'[d] /\ x \notin journal[d] => CallOf(x.by, x.of) \in journal[d]
    BY <1>13
  <2>1. x.by = s /\ x.of = call.id /\ call.tool = "plain" /\ call.id # NoId
    BY <1>7, <1>9
  <2>2. Pending(s)
    BY <1>15, <2>1 DEF Pending, At
  <2>3. 1 \in 1..Len(stream[s].calls)
    BY <1>2, EmptySeq
  <2>4. CallOf(s, call.id) \in journal[context]
    BY <1>8, <2>1, <2>2, <2>3 DEF CInv, Declares
  <2>5. QED
    BY <1>1, <1>14, <2>1, <2>4
<1>19. ResultHasCall'
  BY <1>14, <1>15, <1>18, ResultsStay
<1>20. QED
  BY <1>16, <1>17, <1>19 DEF CInv

LEMMA StepContext ==
    ASSUME NEW s \in Streams, Step(s)
    PROVE  UNCHANGED context \/ EnterAgent(s)
<1>1. ASSUME NEW flush, Finish(s, flush)
      PROVE  UNCHANGED context
  BY <1>1 DEF Finish
<1>2. QED
  BY <1>1 DEF Step, Misconfigured, Request, Prepare, RunGraph, StopBetweenNodes,
     ContextBuilt, ContextFails, AskModel, GiveUp, Reason, Speak, ModelFails, Answer,
     Complete, CallTools, Declare, RunTool, Unparsed, ToolFails, ToolEdits, EditKept,
     ToolWorks, Cancel, Close, Conclude, shared

LEMMA ContextStays ==
    ASSUME NEW s \in Streams, Step(s), stream[s].at \in Holding
    PROVE  UNCHANGED context
BY StepContext DEF EnterAgent, Runs, At, Holding

LEMMA CallsPreserved ==
    ASSUME ContextKept, IInv, IInv', CInv, [Next]_vars
    PROVE  CInv'
<1>1. ASSUME NEW s \in Streams, Step(s)
      PROVE  CInv'
  <2>1. CASE Grows /\ NoResults /\ \E r : Quiet(s, r)
    BY <2>1, QuietSteps
  <2>2. CASE Declare(s)
    BY <2>2, DeclareStep
  <2>3. ASSUME NEW n \in Nat, Store(s, n) \/ Recover(s, n) \/ StoreById(s, n),
               stream[s].at \in Holding, stream[s].calls # <<>>
        PROVE  CInv'
    BY <1>1, <2>3, ContextStays, StoreStep
  <2>4. QED
    BY <1>1, <2>1, <2>2, <2>3, QuietStep
<1>2. CASE Shutdown \/ UNCHANGED vars
  <2>1. UNCHANGED <<stream, journal, context>>
    BY <1>2 DEF Shutdown, vars
  <2>2. QED
    BY <2>1 DEF CInv, ResultHasCall, Declares, Pending, At, CallOf
<1>3. QED
  BY <1>1, <1>2 DEF Next, Step

(* Nothing is taken from under a stream in a project with one dialog; nor  *)
(* with many, while one stream at a time is in the agent.                  *)
OneDialog == \A d, e \in Dialogs : d = e
OneAtATime == \A s, t \in Streams : At(s, InAgent) /\ At(t, InAgent) => s = t

LEMMA OneContext ==
    ASSUME OneDialog, IInv, IInv'
    PROVE  ContextKept
BY DEF OneDialog, ContextKept, IInv, Own

LEMMA AloneInAgent ==
    ASSUME OneAtATime', IInv, [Next]_vars
    PROVE  ContextKept
<1> SUFFICES ASSUME NEW t \in Streams, At(t, InAgent), At(t, InAgent)', context' # context
             PROVE  FALSE
  BY DEF ContextKept
<1>1. PICK s \in Streams : EnterAgent(s)
  BY StepContext DEF Next, Step, Shutdown, vars
<1>2. stream' = [stream EXCEPT ![s] = [stream[s] EXCEPT !.at = "prepare"]]
  BY <1>1 DEF EnterAgent, GoTo, Becomes
<1>3. stream \in [Streams -> Locals] /\ stream[s] \in Locals
  BY DEF IInv, Typed
<1>4. stream'[s].at = "prepare"
  BY <1>2, <1>3 DEF Locals
<1>5. At(s, InAgent)' /\ ~At(s, InAgent)
  BY <1>1, <1>4 DEF EnterAgent, Runs, At, InAgent, Calling
<1>6. QED
  BY <1>5 DEF OneAtATime

(* In a project with one dialog every result of a lasting tool stands next *)
(* to its call, but for writes that failed (_process_streaming,            *)
(* _build_tool_calls_payload).  With two dialogs it need not: OwnDialog.   *)
THEOREM ResultsHaveCalls ==
    ASSUME OneDialog
    PROVE  Spec => []ResultHasCall
<1>1. Init => CInv
  BY DEF Init, CInv, ResultHasCall, Declares, Pending, At, Fresh, Holding
<1>2. IInv /\ IInv' /\ CInv /\ [Next]_vars => CInv'
  BY CallsPreserved, OneContext
<1>3. CInv => ResultHasCall
  BY DEF CInv
<1>4. QED
  BY <1>1, <1>2, <1>3, Invariance, PTL DEF Spec
-----------------------------------------------------------------------------
(* Whose entries a journal holds, and whose dialog the executor works for. *)
Belongs ==
    \A d \in Dialogs : \A e \in journal[d] : ~At(e.by, {"idle"}) /\ stream[e.by].dialog = d
Focus == \A s \in Streams : At(s, InAgent) => context = stream[s].dialog

OInv == Belongs /\ Focus

(* Where stream s may write: to its own dialog, or, in the agent, to that  *)
(* of the executor.                                                        *)
Writes(s, dialog) ==
    \A d \in Dialogs : \A e \in journal'[d] :
        \/ e \in journal[d]
        \/ e.by = s /\ d = dialog
        \/ e.by = s /\ d = context /\ At(s, InAgent)

(* What a step does to its stream's place and dialog.                      *)
Stays(s) ==
    \E r : /\ Becomes(s, r) /\ Writes(s, r.dialog)
           /\ r.at # "idle"
           /\ At(s, {"idle"}) \/ r.dialog = stream[s].dialog

LEMMA AddWrites ==
    ASSUME Typed, NEW s \in Streams, NEW r \in Locals, NEW d, NEW m, Add(s, d, m, r),
           \A e \in m : e.by = s, r.at # "idle", r.dialog = stream[s].dialog,
           d = r.dialog \/ (d = context /\ At(s, InAgent))
    PROVE  Stays(s)
<1> DEFINE lost == [r EXCEPT !.unsaved = TRUE]
<1>1. journal \in [Dialogs -> SUBSET Entries]
  BY DEF Typed
<1>2. lost.at = r.at /\ lost.dialog = r.dialog
  BY DEF Locals
<1>3. \/ journal' = [journal EXCEPT ![d] = @ \cup m] /\ Becomes(s, r)
      \/ UNCHANGED journal /\ Becomes(s, lost)
  BY DEF Add
<1> HIDE DEF lost
<1>4. \A f \in Dialogs : journal'[f] \subseteq journal[f]
                         \/ (f = d /\ journal'[f] \subseteq journal[f] \cup m)
  BY <1>1, <1>3
<1>5. Writes(s, r.dialog)
  BY <1>4 DEF Writes
<1>6. QED
  BY <1>2, <1>3, <1>5 DEF Stays

LEMMA MessagesOf ==
    ASSUME NEW kind, NEW s, NEW contents
    PROVE  \A e \in Message(kind, s, contents) : e.by = s
BY DEF Message

LEMMA MoveWrites ==
    ASSUME NEW s \in Streams, NEW r, Becomes(s, r), UNCHANGED journal,
           r.at # "idle", At(s, {"idle"}) \/ r.dialog = stream[s].dialog
    PROVE  Stays(s)
BY DEF Stays, Writes

LEMMA FlushWrites ==
    ASSUME Typed, NEW s \in Streams, NEW r \in Locals, Flush(s, r),
           r.at # "idle", r.dialog = stream[s].dialog
    PROVE  Stays(s)
<1>1. CASE stream[s].buffer = {}
  BY <1>1, MoveWrites DEF Flush
<1>2. CASE stream[s].buffer # {}
  BY <1>2, AddWrites, MessagesOf DEF Flush
<1>3. QED
  BY <1>1, <1>2

LEMMA FinishWrites ==
    ASSUME IInv, NEW s \in Streams, NEW flush, Finish(s, flush)
    PROVE  Stays(s)
<1> DEFINE r == [Fresh EXCEPT !.at = "over", !.dialog = stream[s].dialog,
                              !.unsaved = stream[s].unsaved]
<1>1. Typed /\ stream[s] \in Locals
  BY DEF IInv, Typed
<1>2. r \in Locals /\ r.at = "over" /\ r.dialog = stream[s].dialog
  BY <1>1, NoCalls DEF Locals, Fresh, Points
<1>3. Flush(s, r) \/ (UNCHANGED journal /\ Becomes(s, r))
  BY DEF Finish
<1> HIDE DEF r
<1>4. QED
  BY <1>1, <1>2, <1>3, FlushWrites, MoveWrites

LEMMA ConcludeWrites ==
    ASSUME IInv, NEW s \in Streams, Conclude(s)
    PROVE  Stays(s)
<1> DEFINE r == [stream[s] EXCEPT !.at = "done"]
<1>1. Typed /\ stream[s] \in Locals
  BY DEF IInv, Typed
<1>2. r \in Locals /\ r.at = "done" /\ r.dialog = stream[s].dialog
  BY <1>1 DEF Locals, Points
<1>3. Flush(s, r)
  BY DEF Conclude
<1> HIDE DEF r
<1>4. QED
  BY <1>1, <1>2, <1>3, FlushWrites

LEMMA StoreWrites ==
    ASSUME IInv, NEW s \in Streams, NEW n \in Nat,
           Store(s, n) \/ Recover(s, n) \/ StoreById(s, n),
           At(s, Holding), stream[s].calls # <<>>
    PROVE  Stays(s)
<1>1. Typed /\ stream[s] \in Locals /\ stream[s].calls \in Turns
  BY DEF IInv, Typed, Locals
<1>2. Tail(stream[s].calls) \in Turns
  BY <1>1, TurnFacts
<1>3. \E e \in {n, n + 1} : Keep(s, e) \/ Pass(s, e)
  BY DEF Store, Recover, StoreById
<1>4. PICK e \in {n, n + 1} : Keep(s, e) \/ Pass(s, e)
  BY <1>3
<1> DEFINE r == Return(s, e)
<1>5. r \in Locals /\ r.at = "next" /\ r.dialog = stream[s].dialog
  <2>1. e \in Nat
    OBVIOUS
  <2>2. QED
    BY <1>1, <1>2, <2>1 DEF Return, Locals, Points
<1>6. At(s, InAgent)
  BY DEF At, Holding, InAgent, Calling
<1> HIDE DEF r
<1>7. CASE Keep(s, e)
  <2> DEFINE m == Message(IF Call(s).tool = "title" THEN "title" ELSE "result", s, {Call(s).id})
  <2>1. Add(s, context, m, r)
    BY <1>7 DEF Keep, r
  <2>2. \A x \in m : x.by = s
    BY MessagesOf
  <2> HIDE DEF m
  <2>3. QED
    BY <1>1, <1>5, <1>6, <2>1, <2>2, AddWrites
<1>8. CASE Pass(s, e)
  BY <1>5, <1>8, MoveWrites DEF Pass, r
<1>9. QED
  BY <1>4, <1>7, <1>8

LEMMA StepWrites ==
    ASSUME IInv, NEW s \in Streams, Step(s)
    PROVE  Stays(s)
<1>1. Typed /\ Own(s) /\ stream[s] \in Locals /\ stream[s].errors \in Nat
  BY DEF IInv, Typed, Locals
<1>2. CASE \/ StopBetweenNodes(s) \/ ContextFails(s) \/ ModelFails(s) \/ Complete(s)
           \/ Cancel(s) \/ Close(s)
  <2>1. \E flush : Finish(s, flush)
    BY <1>2 DEF StopBetweenNodes, ContextFails, ModelFails, Complete, Cancel, Close
  <2>2. QED
    BY <2>1, FinishWrites
<1>3. CASE GiveUp(s) \/ Answer(s)
  BY <1>3, ConcludeWrites DEF GiveUp, Answer
<1>4. CASE \/ Misconfigured(s) \/ RunGraph(s) \/ EnterAgent(s) \/ ContextBuilt(s) \/ RunTool(s)
  <2>1. PICK point \in Points \ {"idle"} : GoTo(s, point)
    BY <1>4 DEF Misconfigured, RunGraph, EnterAgent, ContextBuilt, RunTool, Points
  <2> DEFINE r == [stream[s] EXCEPT !.at = point]
  <2>2. Becomes(s, r) /\ UNCHANGED journal
    BY <1>4, <2>1 DEF Misconfigured, RunGraph, EnterAgent, ContextBuilt, RunTool, GoTo, shared
  <2>3. r.at # "idle" /\ r.dialog = stream[s].dialog
    BY <1>1 DEF Locals
  <2> HIDE DEF r
  <2>4. QED
    BY <2>2, <2>3, MoveWrites
<1>5. CASE Request(s)
  <2>1. PICK d \in Dialogs : Becomes(s, [Fresh EXCEPT !.at = "sync", !.dialog = d])
    BY <1>5 DEF Request
  <2> DEFINE r == [Fresh EXCEPT !.at = "sync", !.dialog = d]
  <2>2. Becomes(s, r) /\ UNCHANGED journal /\ At(s, {"idle"}) /\ r.at # "idle"
    BY <1>5, <2>1 DEF Request, shared, Runs, Fresh
  <2> HIDE DEF r
  <2>3. QED
    BY <2>2, MoveWrites
<1>6. CASE Prepare(s)
  <2> DEFINE has == stream[s].dialog \in titled
  <2> DEFINE r == [stream[s] EXCEPT !.at = "user", !.hasTitle = has]
  <2>1. Becomes(s, r) /\ UNCHANGED journal
    BY <1>6 DEF Prepare, shared
  <2> HIDE DEF has
  <2>2. r.at # "idle" /\ r.dialog = stream[s].dialog
    BY <1>1 DEF Locals
  <2> HIDE DEF r
  <2>3. QED
    BY <2>1, <2>2, MoveWrites
<1>7. CASE AskModel(s)
  <2> DEFINE r == [stream[s] EXCEPT !.at = "turn", !.said = {}]
  <2>1. Becomes(s, r) /\ UNCHANGED journal
    BY <1>7 DEF AskModel, shared
  <2>2. r.at # "idle" /\ r.dialog = stream[s].dialog
    BY <1>1 DEF Locals
  <2> HIDE DEF r
  <2>3. QED
    BY <2>1, <2>2, MoveWrites
<1>8. CASE Reason(s)
  <2>1. Becomes(s, stream[s]) /\ UNCHANGED journal /\ stream[s].at # "idle"
    BY <1>1, <1>8, Unmoved DEF Reason, shared, Runs, At
  <2>2. QED
    BY <2>1, MoveWrites
<1>9. CASE Speak(s)
  <2>1. PICK text : Becomes(s, [stream[s] EXCEPT !.said = {text}, !.buffer = @ \cup {text}])
    BY <1>9 DEF Speak
  <2> DEFINE r == [stream[s] EXCEPT !.said = {text}, !.buffer = @ \cup {text}]
  <2>2. Becomes(s, r) /\ UNCHANGED journal /\ stream[s].at = "turn"
    BY <1>9, <2>1 DEF Speak, shared, Runs, At
  <2>3. r.at # "idle" /\ r.dialog = stream[s].dialog
    BY <1>1, <2>2 DEF Locals
  <2> HIDE DEF r
  <2>4. QED
    BY <2>2, <2>3, MoveWrites
<1>10. CASE CallTools(s)
  <2>1. PICK calls : Becomes(s, [stream[s] EXCEPT !.at = "declare", !.calls = calls])
    BY <1>10 DEF CallTools
  <2> DEFINE r == [stream[s] EXCEPT !.at = "declare", !.calls = calls]
  <2>2. Becomes(s, r) /\ UNCHANGED journal
    BY <1>10, <2>1 DEF CallTools, shared
  <2>3. r.at # "idle" /\ r.dialog = stream[s].dialog
    BY <1>1 DEF Locals
  <2> HIDE DEF r
  <2>4. QED
    BY <2>2, <2>3, MoveWrites
<1>11. CASE ToolEdits(s)
  <2> DEFINE r == [stream[s] EXCEPT !.at = "edited", !.errors = 0]
  <2>1. Becomes(s, r) /\ UNCHANGED journal
    BY <1>11 DEF ToolEdits, shared
  <2>2. r.at # "idle" /\ r.dialog = stream[s].dialog
    BY <1>1 DEF Locals
  <2> HIDE DEF r
  <2>3. QED
    BY <2>1, <2>2, MoveWrites
<1>12. CASE Declare(s)
  <2> DEFINE r == [stream[s] EXCEPT !.at = "next"]
  <2> DEFINE m == Message("text", s, stream[s].said) \cup Message("call", s, Declared(s))
  <2>1. Add(s, context, m, r) /\ At(s, InAgent)
    BY <1>12 DEF Declare, Runs, At, InAgent, Calling
  <2>2. r \in Locals /\ r.at # "idle" /\ r.dialog = stream[s].dialog
    BY <1>1 DEF Locals, Points
  <2>3. \A e \in m : e.by = s
    BY MessagesOf
  <2> HIDE DEF r, m
  <2>4. QED
    BY <1>1, <2>1, <2>2, <2>3, AddWrites
<1>13. CASE Unparsed(s)
  <2>1. CASE Finish(s, FALSE)
    BY <2>1, FinishWrites
  <2>2. CASE Store(s, stream[s].errors + 1)
    <3>1. stream[s].errors + 1 \in Nat /\ At(s, Holding) /\ stream[s].calls # <<>>
      BY <1>1, <1>13 DEF Unparsed, Runs, At, Holding
    <3>2. QED
      BY <2>2, <3>1, StoreWrites
  <2>3. QED
    BY <1>13, <2>1, <2>2 DEF Unparsed
<1>14. CASE ToolFails(s) \/ EditKept(s) \/ ToolWorks(s)
  <2>1. At(s, Holding) /\ stream[s].calls # <<>>
    BY <1>1, <1>14 DEF ToolFails, EditKept, ToolWorks, Runs, At, Holding, Own, Place
  <2>2. stream[s].errors + 1 \in Nat
    BY <1>1
  <2>3. \/ StoreById(s, stream[s].errors + 1) \/ Recover(s, stream[s].errors)
        \/ StoreById(s, 0)
    BY <1>14 DEF ToolFails, EditKept, ToolWorks
  <2>4. QED
    BY <1>1, <2>1, <2>2, <2>3, StoreWrites
<1>15. QED
  BY <1>2, <1>3, <1>4, <1>5, <1>6, <1>7, <1>8, <1>9, <1>10, <1>11, <1>12, <1>13, <1>14
     DEF Step

LEMMA FinishPlace ==
    ASSUME IInv, NEW s \in Streams, NEW flush, Finish(s, flush)
    PROVE  stream'[s].at = "over"
<1> DEFINE r == [Fresh EXCEPT !.at = "over", !.dialog = stream[s].dialog,
                              !.unsaved = stream[s].unsaved]
<1>1. Typed /\ stream \in [Streams -> Locals] /\ stream[s] \in Locals
  BY DEF IInv, Typed
<1>2. r \in Locals /\ r.at = "over"
  BY <1>1, NoCalls DEF Locals, Fresh, Points
<1>3. Flush(s, r) \/ (UNCHANGED journal /\ Becomes(s, r))
  BY DEF Finish
<1> HIDE DEF r
<1>4. \E w : Becomes(s, w) /\ w.at = "over"
  BY <1>1, <1>2, <1>3, FlushQuiet
<1>5. QED
  BY <1>1, <1>4 DEF Becomes

(* A stream gets into the agent by EnterAgent, which makes its dialog the  *)
(* executor's.                                                             *)
LEMMA GetsIn ==
    ASSUME IInv, NEW s \in Streams, Step(s), ~At(s, InAgent), At(s, InAgent)'
    PROVE  EnterAgent(s)
<1> SUFFICES ASSUME ~EnterAgent(s) PROVE stream'[s].at \in {"over", "sync", "user", "compact"}
  BY DEF At, InAgent, Calling
<1>1. stream \in [Streams -> Locals] /\ stream[s] \in Locals
  BY DEF IInv, Typed
<1>2. CASE \E flush : Finish(s, flush)
  BY <1>2, FinishPlace
<1>3. CASE Misconfigured(s) \/ RunGraph(s)
  BY <1>1, <1>3 DEF Misconfigured, RunGraph, GoTo, Becomes, Locals
<1>4. CASE Request(s)
  BY <1>1, <1>4 DEF Request, Becomes, Fresh
<1>5. CASE Prepare(s)
  BY <1>1, <1>5 DEF Prepare, Becomes, Locals
<1>6. QED
  BY <1>2, <1>3, <1>4, <1>5 DEF Step, StopBetweenNodes, ContextBuilt, ContextFails, AskModel,
     GiveUp, Reason, Speak, ModelFails, Answer, Complete, CallTools, Declare, RunTool, Unparsed,
     ToolFails, ToolEdits, EditKept, ToolWorks, Cancel, Close, Runs, At, InAgent, Calling

LEMMA OwnPreserved ==
    ASSUME ContextKept, IInv, IInv', OInv, [Next]_vars
    PROVE  OInv'
<1>1. ASSUME NEW s \in Streams, Step(s)
      PROVE  OInv'
  <2>1. PICK r : /\ Becomes(s, r) /\ Writes(s, r.dialog)
                 /\ r.at # "idle"
                 /\ At(s, {"idle"}) \/ r.dialog = stream[s].dialog
    BY <1>1, StepWrites DEF Stays
  <2>2. stream \in [Streams -> Locals] /\ stream' = [stream EXCEPT ![s] = r]
    BY <2>1 DEF IInv, Typed, Becomes
  <2>3. stream'[s] = r /\ \A t \in Streams \ {s} : stream'[t] = stream[t]
    BY <2>2
  <2>4. Focus'
    <3> SUFFICES ASSUME NEW t \in Streams, At(t, InAgent)'
                 PROVE  context' = stream'[t].dialog
      BY DEF Focus
    <3>1. CASE At(t, InAgent)
      <4>1. context' = context /\ context = stream[t].dialog
        BY <3>1 DEF ContextKept, OInv, Focus
      <4>2. ~At(t, {"idle"})
        BY <3>1 DEF At, InAgent, Calling
      <4>3. QED
        BY <2>1, <2>3, <4>1, <4>2
    <3>2. CASE ~At(t, InAgent)
      <4>1. t = s
        BY <2>3, <3>2 DEF At
      <4>2. EnterAgent(s)
        BY <1>1, <3>2, <4>1, GetsIn
      <4>3. context' = stream[s].dialog /\ ~At(s, {"idle"})
        BY <4>2 DEF EnterAgent, SetContext, Runs, At
      <4>4. QED
        BY <2>1, <2>3, <4>1, <4>3
    <3>3. QED
      BY <3>1, <3>2
  <2>5. Belongs'
    <3> SUFFICES ASSUME NEW d \in Dialogs, NEW e \in journal'[d]
                 PROVE  stream'[e.by].at # "idle" /\ stream'[e.by].dialog = d
      BY DEF Belongs, At
    <3>1. CASE e \in journal[d]
      <4>1. e.by \in Streams
        BY <3>1 DEF IInv, Typed, Entries
      <4>2. ~At(e.by, {"idle"}) /\ stream[e.by].dialog = d
        BY <3>1 DEF OInv, Belongs
      <4>3. QED
        BY <2>1, <2>3, <4>1, <4>2 DEF At
    <3>2. CASE e.by = s /\ d = r.dialog
      BY <2>1, <2>3, <3>2
    <3>3. CASE e.by = s /\ d = context /\ At(s, InAgent)
      <4>1. context = stream[s].dialog /\ ~At(s, {"idle"})
        BY <3>3 DEF OInv, Focus, At, InAgent, Calling
      <4>2. QED
        BY <2>1, <2>3, <3>3, <4>1
    <3>4. QED
      BY <2>1, <3>1, <3>2, <3>3 DEF Writes
  <2>6. QED
    BY <2>4, <2>5 DEF OInv
<1>2. CASE Shutdown \/ UNCHANGED vars
  <2>1. UNCHANGED <<stream, journal, context>>
    BY <1>2 DEF Shutdown, vars
  <2>2. QED
    BY <2>1 DEF OInv, Belongs, Focus, At
<1>3. QED
  BY <1>1, <1>2 DEF Next, Step

(* Any number of dialogs: while no two streams are in the agent at once,   *)
(* a journal holds messages of its own dialog's streams, and every result  *)
(* stands next to its call.  What OwnDialog shows is due to the overlap    *)
(* alone (ToolExecutor.set_context, one executor for all streams).       *)
THEOREM SeparateStreams ==
    Spec /\ []OneAtATime => [](OwnDialogOnly /\ ResultHasCall)
<1>1. Init => CInv /\ OInv
  BY DEF Init, CInv, ResultHasCall, Declares, Pending, At, Fresh, Holding, OInv, Belongs,
     Focus, InAgent, Calling
<1>2. IInv /\ IInv' /\ CInv /\ OInv /\ OneAtATime' /\ [Next]_vars => (CInv /\ OInv)'
  BY CallsPreserved, OwnPreserved, AloneInAgent
<1>3. CInv /\ OInv => OwnDialogOnly /\ ResultHasCall
  BY DEF CInv, OInv, Belongs, OwnDialogOnly
<1>4. QED
  BY <1>1, <1>2, <1>3, Invariance, PTL DEF Spec
=============================================================================
