------------------------------ MODULE Memorize ------------------------------
(***************************************************************************)
(* One session's calls of POST /add and /flush, from the buffer of         *)
(* unprocessed messages through boundary detection and the memcell ledger  *)
(* to the two extraction pipelines: service/memorize.py, _boundary.py,     *)
(* _session_lock.py and memory/extract/pipeline.                           *)
(*                                                                         *)
(* Calls run as asyncio tasks under one lock per session; each line below  *)
(* that awaits is a step of its own.  A call may fail at every await, its  *)
(* timeout may cancel it there, and the server may die; clients send a     *)
(* call again with the same payload.  Messages are numbered in the order   *)
(* of (timestamp, message_id), and the model decides the boundaries that   *)
(* the LLM would choose.                                                   *)
(***************************************************************************)
EXTENDS Naturals, Sequences, FiniteSets

CONSTANTS
    Messages,   \* the session's messages, 1..n in timestamp order
    Calls,      \* the requests of the clients
    Payload,    \* the messages of each request; none: it is a flush
    Sender,     \* who sent each message
    Settings,   \* the modes and message roles a run is about
    None,       \* nobody
    MaxSends    \* bound: times each request is sent

ASSUME MessagesAssumption == Messages \subseteq Nat \ {0} /\ IsFiniteSet(Messages)
ASSUME PayloadAssumption == Payload \in [Calls -> SUBSET Messages]
ASSUME BoundsAssumption == MaxSends \in [Calls -> Nat]
ASSUME NobodyAssumption == None \notin Calls /\ \A m \in Messages : Sender[m] # None

VARIABLES
    setting,    \* settings.memorize.mode and the role of each message
    buffer,     \* unprocessed_buffer rows of the session
    cells,      \* the memcell table, in the order of insertion
    lock,       \* the call that holds the session lock
    call,       \* what the server is doing for each request
    sends,      \* how often each request was sent
    acked,      \* the requests whose answer the server gave
    started,    \* UserPipelineStarted and AgentPipelineStarted events
    episodes,   \* episodes written: memcell and owner
    extracted,  \* EpisodeExtracted events: memcell and owner
    exposed     \* history: messages a later call may fold a second time

vars == <<setting, buffer, cells, lock, call, sends, acked, started, episodes,
          extracted, exposed>>

Role == {"user", "assistant", "tool"}
Mode == {"chat", "agent"}
Op == {"add", "defer", "flush"}
Phase == {"idle", "queued", "locked", "read", "keep", "kept", "detected", "inserted",
          "cleared", "done", "failed"}
Memcell == [items : (SUBSET Messages) \ {{}}, names : SUBSET Messages]

\* A call in progress: the merged slice, what the detector made of it, the memcells
\* it minted, and how far the pipelines are.
Resting == [pc |-> "idle", op |-> "add", merged |-> {}, parts |-> <<>>, tail |-> {},
            ids |-> <<>>, users |-> 0, agents |-> 0, at |-> 0, left |-> {},
            pending |-> None]

InCells == UNION {cells[i].items : i \in DOMAIN cells}

\* _filter_for_mode; "tool" stands for tool rows and assistant rows with tool calls.
Kept(msgs) == IF setting.mode = "chat" THEN {m \in msgs : setting.role[m] # "tool"}
                                       ELSE msgs

Init ==
    /\ setting \in Settings
    /\ buffer = {}
    /\ cells = <<>>
    /\ lock = None
    /\ call = [c \in Calls |-> Resting]
    /\ sends = [c \in Calls |-> 0]
    /\ acked = {}
    /\ started = {}
    /\ episodes = {}
    /\ extracted = {}
    /\ exposed = {}

-----------------------------------------------------------------------------
(* Boundary detection: detect_boundaries and AgentBoundaryDetector *)

Chats(merged) == {m \in merged : setting.role[m] # "tool"}

\* Where the chat view may be cut: before every chat message but the first.  The hard
\* limits force cuts, the LLM proposes others; values outside the range are dropped.
Cuts(merged) == {cut \in SUBSET Chats(merged) : \A m \in cut : \E k \in Chats(merged) : k < m}

\* First messages of the segments: the first chat message and every cut.
Starts(merged, cut) == cut \cup {m \in Chats(merged) : \A k \in Chats(merged) : m <= k}

\* The trajectory rows of the segment that starts at s: up to the next start.
Segment(merged, starts, s) ==
    {m \in merged : s <= m /\ \A k \in starts : k > s => m < k}

\* The last segment is the tail, unless the call is final.
Closed(starts, final) ==
    IF final THEN starts ELSE {s \in starts : \E k \in starts : k > s}

\* The i-th element of a set of numbers.
Nth(S, i) == CHOOSE s \in S : Cardinality({k \in S : k <= s}) = i

Cells(merged, cut, final) ==
    LET starts == Starts(merged, cut)
        closed == Closed(starts, final)
    IN  [i \in 1..Cardinality(closed) |-> Segment(merged, starts, Nth(closed, i))]

\* If is_final did not close the trailing segment.
UnclosedEvenIfFinal(merged, cut, final) ==
    LET starts == Starts(merged, cut)
    IN  IF Closed(starts, FALSE) = {} THEN merged
        ELSE UNION {Segment(merged, starts, s) : s \in starts \ Closed(starts, FALSE)}

\* What no cell took from the last closed segment on; everything if there is no cell.
Unclosed(merged, cut, final) ==
    LET starts == Starts(merged, cut)
    IN  IF Closed(starts, final) = {} THEN merged
        ELSE UNION {Segment(merged, starts, s) : s \in starts \ Closed(starts, final)}

\* merged[-n:], the rows _slice_tail keeps.
LastOf(merged, n) == {m \in merged : Cardinality({k \in merged : k > m}) < n}

\* _split_messages_per_cell: the i-th cell names the next Cardinality(parts[i]) rows.
Names(merged, parts, i) ==
    LET before == Cardinality(UNION {parts[k] : k \in 1..(i - 1)})
        place(m) == Cardinality({k \in merged : k <= m})
    IN  {m \in merged : before < place(m) /\ place(m) <= before + Cardinality(parts[i])}

-----------------------------------------------------------------------------
(* The call *)

At(c, pc) == call[c].pc = pc

\* A client sends a request, the first time or again.
Send(c, op) ==
    /\ call[c].pc \in {"idle", "done", "failed"}
    /\ sends[c] < MaxSends[c]
    /\ op = "flush" <=> Payload[c] = {}
    /\ sends' = [sends EXCEPT ![c] = @ + 1]
    /\ exposed' = IF sends[c] > 0 THEN exposed \cup Payload[c] ELSE exposed
    /\ call' = [call EXCEPT ![c] = [Resting EXCEPT !.pc = "queued", !.op = op]]
    /\ UNCHANGED <<setting, buffer, cells, lock, acked, started, episodes, extracted>>

\* If calls of one session were not serialised.
EnterUnlocked(c) ==
    /\ At(c, "queued")
    /\ lock' = c
    /\ call' = [call EXCEPT ![c].pc = "locked"]
    /\ UNCHANGED <<setting, buffer, cells, sends, acked, started, episodes, extracted,
                   exposed>>

\* async with get_session_lock(session_id), inside asyncio.timeout.
Enter(c) ==
    /\ At(c, "queued")
    /\ lock = None
    /\ lock' = c
    /\ call' = [call EXCEPT ![c].pc = "locked"]
    /\ UNCHANGED <<setting, buffer, cells, sends, acked, started, episodes, extracted,
                   exposed>>

\* The call returns and leaves the lock.
Answer(c) ==
    /\ acked' = acked \cup {c}
    /\ lock' = None
    /\ call' = [call EXCEPT ![c].pc = "done"]

\* Nothing of the payload is left after the filter, and the call is no flush.
Skip(c) ==
    /\ At(c, "locked")
    /\ call[c].op # "flush"
    /\ Kept(Payload[c]) = {}
    /\ Answer(c)
    /\ UNCHANGED <<setting, buffer, cells, sends, started, episodes, extracted, exposed>>

\* list_for_track and _merge_dedupe_sort.
Read(c) ==
    /\ At(c, "locked")
    /\ call[c].op = "flush" \/ Kept(Payload[c]) # {}
    /\ call' = [call EXCEPT ![c].pc = "read", ![c].merged = buffer \cup Kept(Payload[c])]
    /\ UNCHANGED <<setting, buffer, cells, lock, sends, acked, started, episodes,
                   extracted, exposed>>

\* A flush of an empty buffer.
NothingToFlush(c) ==
    /\ At(c, "read")
    /\ call[c].merged = {}
    /\ Answer(c)
    /\ UNCHANGED <<setting, buffer, cells, sends, started, episodes, extracted, exposed>>

\* Deferred calls stop here, and so do slices without a user message, unless final.
Defers(c) ==
    \/ call[c].op = "defer"
    \/ call[c].op = "add" /\ \A m \in call[c].merged : setting.role[m] # "user"

Defer(c) ==
    /\ At(c, "read")
    /\ call[c].merged # {}
    /\ Defers(c)
    /\ call' = [call EXCEPT ![c].pc = "keep"]
    /\ UNCHANGED <<setting, buffer, cells, lock, sends, acked, started, episodes,
                   extracted, exposed>>

\* _detect: one of its three attempts answers with cells and a tail.
Detect(c) ==
    /\ At(c, "read")
    /\ call[c].merged # {}
    /\ ~Defers(c)
    /\ \E cut \in Cuts(call[c].merged) :
         LET final == call[c].op = "flush"
             parts == Cells(call[c].merged, cut, final)
         IN  call' = [call EXCEPT
                ![c].pc = IF parts = <<>> THEN "keep" ELSE "detected",
                ![c].parts = parts,
                ![c].tail = Unclosed(call[c].merged, cut, final)]
    /\ UNCHANGED <<setting, buffer, cells, lock, sends, acked, started, episodes,
                   extracted, exposed>>

\* _replace_buffer(merged): nothing was closed, the slice waits for more.
Keep(c) ==
    /\ At(c, "keep")
    /\ buffer' = call[c].merged
    /\ call' = [call EXCEPT ![c].pc = "kept"]
    /\ UNCHANGED <<setting, cells, lock, sends, acked, started, episodes, extracted,
                   exposed>>

\* After touch_last_message_ts, which may still fail, the call returns "accumulated".
Accumulated(c) ==
    /\ At(c, "kept")
    /\ Answer(c)
    /\ UNCHANGED <<setting, buffer, cells, sends, started, episodes, extracted, exposed>>

\* If the ids were minted and the rows never written.
MintOnly(c) ==
    /\ At(c, "detected")
    /\ call' = [call EXCEPT ![c].pc = "inserted",
                            ![c].ids = [i \in DOMAIN call[c].parts |-> Len(cells) + i]]
    /\ UNCHANGED <<setting, buffer, cells, lock, sends, acked, started, episodes,
                   extracted, exposed>>

\* memcell_repo.insert_many: one transaction for the call's cells.
Insert(c) ==
    /\ At(c, "detected")
    /\ cells' = cells \o [i \in DOMAIN call[c].parts |->
                            [items |-> call[c].parts[i],
                             names |-> Names(call[c].merged, call[c].parts, i)]]
    /\ call' = [call EXCEPT ![c].pc = "inserted",
                            ![c].ids = [i \in DOMAIN call[c].parts |-> Len(cells) + i]]
    /\ UNCHANGED <<setting, buffer, lock, sends, acked, started, episodes, extracted,
                   exposed>>

\* If the buffer kept the slice that was just folded.
KeepFolded(c) ==
    /\ At(c, "inserted")
    /\ buffer' = call[c].merged
    /\ call' = [call EXCEPT ![c].pc = "cleared", ![c].agents = 0]
    /\ UNCHANGED <<setting, cells, lock, sends, acked, started, episodes, extracted,
                   exposed>>

\* _replace_buffer(tail), a transaction of its own.
Trim(c) ==
    /\ At(c, "inserted")
    /\ buffer' = LastOf(call[c].merged, Cardinality(call[c].tail))
    /\ call' = [call EXCEPT ![c].pc = "cleared"]
    /\ UNCHANGED <<setting, cells, lock, sends, acked, started, episodes, extracted,
                   exposed>>

-----------------------------------------------------------------------------
(* The pipelines of a call that closed cells *)

\* UserMemoryPipeline emits one UserPipelineStarted per cell, upfront.
StartUser(c) ==
    /\ At(c, "cleared")
    /\ call[c].users < Len(call[c].ids)
    /\ started' = started \cup {<<"user", call[c].ids[call[c].users + 1]>>}
    /\ call' = [call EXCEPT ![c].users = @ + 1]
    /\ UNCHANGED <<setting, buffer, cells, lock, sends, acked, episodes, extracted,
                   exposed>>

\* AgentMemoryPipeline does the same, next to it, in agent mode.
StartAgent(c) ==
    /\ At(c, "cleared")
    /\ setting.mode = "agent"
    /\ call[c].agents < Len(call[c].ids)
    /\ started' = started \cup {<<"agent", call[c].ids[call[c].agents + 1]>>}
    /\ call' = [call EXCEPT ![c].agents = @ + 1]
    /\ UNCHANGED <<setting, buffer, cells, lock, sends, acked, episodes, extracted,
                   exposed>>

Owners(k) == {Sender[m] : m \in {n \in cells[k].items : setting.role[n] = "user"}}

UserPipelineAt(c, left) ==
    /\ At(c, "cleared")
    /\ call[c].users = Len(call[c].ids)
    /\ (call[c].left # {}) = left
    /\ call[c].pending = None

\* One LLM extraction for the next cell (_extract_with_retry); every user who spoke
\* in it gets a copy.
Extract(c) ==
    /\ UserPipelineAt(c, FALSE)
    /\ call[c].at < Len(call[c].ids)
    /\ call' = [call EXCEPT ![c].at = @ + 1,
                            ![c].left = Owners(call[c].ids[call[c].at + 1])]
    /\ UNCHANGED <<setting, buffer, cells, lock, sends, acked, started, episodes,
                   extracted, exposed>>

\* append_entry on the owner's daily file (DailyLog).
Write(c) ==
    /\ UserPipelineAt(c, TRUE)
    /\ \E o \in call[c].left :
        /\ episodes' = episodes \cup {<<call[c].ids[call[c].at], o>>}
        /\ call' = [call EXCEPT ![c].left = @ \ {o}, ![c].pending = o]
    /\ UNCHANGED <<setting, buffer, cells, lock, sends, acked, started, extracted,
                   exposed>>

\* EpisodeExtracted, after the write.
Announce(c) ==
    /\ At(c, "cleared")
    /\ call[c].pending # None
    /\ extracted' = extracted \cup {<<call[c].ids[call[c].at], call[c].pending>>}
    /\ call' = [call EXCEPT ![c].pending = None]
    /\ UNCHANGED <<setting, buffer, cells, lock, sends, acked, started, episodes,
                   exposed>>

AgentsDone(c) == setting.mode = "agent" => call[c].agents = Len(call[c].ids)

\* If the call returned before the extraction of its last cell.
ReturnEarly(c) ==
    /\ UserPipelineAt(c, FALSE)
    /\ call[c].at + 1 >= Len(call[c].ids)
    /\ AgentsDone(c)
    /\ Answer(c)
    /\ UNCHANGED <<setting, buffer, cells, sends, started, episodes, extracted, exposed>>

\* Both pipelines are done (gather) and the call returns "extracted".
Return(c) ==
    /\ UserPipelineAt(c, FALSE)
    /\ call[c].at = Len(call[c].ids)
    /\ AgentsDone(c)
    /\ Answer(c)
    /\ UNCHANGED <<setting, buffer, cells, sends, started, episodes, extracted, exposed>>

-----------------------------------------------------------------------------
(* Failures *)

Alive(c) == call[c].pc \notin {"idle", "done", "failed"}

\* Messages in a memcell that the buffer still holds if the call ends here.
Exposes(c) == IF At(c, "inserted") THEN UNION {call[c].parts[i] : i \in DOMAIN call[c].parts}
                                   ELSE {}

\* An exception of the LLM, a store, the writer or the engine, or the timeout of
\* memorize, at any await.  gather does not cancel the agent pipeline when the user
\* pipeline raises: it goes on, here at once, as far as it gets.
Fail(c) ==
    /\ Alive(c)
    /\ \E n \in call[c].agents..Len(call[c].ids) :
        /\ n > call[c].agents => setting.mode = "agent" /\ At(c, "cleared")
        /\ started' = started \cup {<<"agent", call[c].ids[i]>> : i \in (call[c].agents + 1)..n}
    /\ call' = [call EXCEPT ![c] = [Resting EXCEPT !.pc = "failed"]]
    /\ lock' = IF lock = c THEN None ELSE lock
    /\ exposed' = exposed \cup Exposes(c)
    /\ UNCHANGED <<setting, buffer, cells, sends, acked, episodes, extracted>>

\* The server dies: buffer, memcells and episodes stay.
Crash ==
    /\ \E c \in Calls : Alive(c)
    /\ call' = [c \in Calls |-> IF Alive(c) THEN [Resting EXCEPT !.pc = "failed"] ELSE call[c]]
    /\ lock' = None
    /\ exposed' = exposed \cup UNION {Exposes(c) : c \in Calls}
    /\ UNCHANGED <<setting, buffer, cells, sends, acked, started, episodes, extracted>>

Boundary(c) ==
    \/ Enter(c) \/ Skip(c) \/ Read(c) \/ NothingToFlush(c) \/ Defer(c) \/ Detect(c)
    \/ Keep(c) \/ Accumulated(c) \/ Insert(c) \/ Trim(c)

Pipelines(c) ==
    \/ StartUser(c) \/ StartAgent(c) \/ Extract(c) \/ Write(c) \/ Announce(c) \/ Return(c)

Next ==
    \/ Crash
    \/ \E c \in Calls :
        \/ \E op \in Op : Send(c, op)
        \/ Boundary(c) \/ Pipelines(c) \/ Fail(c)

Spec == Init /\ [][Next]_vars

-----------------------------------------------------------------------------
(* What clients send *)

\* A message is of one request.
RequestsAreDistinct == \A c, d \in Calls : c # d => Payload[c] \cap Payload[d] = {}

-----------------------------------------------------------------------------
(* Properties *)

\* Every variable has its type; a call refers to memcells that exist.
TypeOK ==
    /\ setting \in Settings
    /\ buffer \subseteq Messages
    /\ cells \in Seq(Memcell)
    /\ lock \in Calls \cup {None}
    /\ \A c \in Calls :
        /\ call[c].pc \in Phase /\ call[c].op \in Op
        /\ call[c].merged \subseteq Messages
        /\ call[c].tail \subseteq call[c].merged
        /\ call[c].ids \in Seq(DOMAIN cells)
        /\ call[c].users \in 0..Len(call[c].ids) /\ call[c].agents \in 0..Len(call[c].ids)
        /\ call[c].at \in 0..Len(call[c].ids)
    /\ \A c \in Calls : sends[c] \in 0..MaxSends[c]
    /\ acked \subseteq Calls
    /\ exposed \subseteq Messages

\* The rows of msgs that are not tool rows in front of its first chat message.
Headed(msgs) == {m \in msgs : \E k \in Chats(msgs) : k <= m}

\* A message of a call that was answered is in the buffer or in a memcell, for ever:
\* no other call of the session overwrites the buffer with a slice that lacks it
\* (_session_lock.py: the later write "silently overwrites the earlier write's tail").
\* Only the tool rows that a request opens with may get lost: if no chat message is in
\* front of them when a cell is closed, they are in no cell and not in the tail.
AckedMessagesKept == \A c \in acked : Headed(Kept(Payload[c])) \subseteq buffer \cup InCells

\* No message is folded into two memcells unless its call was sent again or a call was
\* cut between insert_many and the replacement of the buffer.
FoldedOnce ==
    \A i, j \in DOMAIN cells : i # j => cells[i].items \cap cells[j].items \subseteq exposed

\* When a call is answered, each of its memcells was announced to the pipelines of the
\* mode, and has an episode, written and announced, for every user who spoke in it.
AnsweredCellsHaveEpisodes ==
    \A c \in Calls : At(c, "done") => \A i \in DOMAIN call[c].ids :
        LET k == call[c].ids[i] IN
        /\ <<"user", k>> \in started
        /\ setting.mode = "agent" => <<"agent", k>> \in started
        /\ \A o \in Owners(k) : <<k, o>> \in episodes /\ <<k, o>> \in extracted

\* A flush that is answered leaves no row of the session in the buffer, unless the whole
\* slice was tool rows, which the detector hands back.
FlushLeavesNoChat ==
    [][\A c \in Calls :
        call[c].op = "flush" /\ ~At(c, "done") /\ call'[c].pc = "done" /\ buffer' # {} =>
            Chats(buffer' \cup call[c].merged) = {}]_vars

\* "Invariant: sum(len(c.items) for c in result.cells) + len(result.tail) == len(items)"
\* (everalgo's agent_memory/boundary.py:45): with it an answered call loses no row at all.
AckedRowsKept == \A c \in acked : Kept(Payload[c]) \subseteq buffer \cup InCells

\* "is_final: True only for flush (algo guarantees tail=[])" (service/memorize.py:192).
FlushLeavesNothing ==
    [][\A c \in Calls :
        call[c].op = "flush" /\ ~At(c, "done") /\ call'[c].pc = "done" => buffer' = {}]_vars
=============================================================================
