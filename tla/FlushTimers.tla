---------------------------- MODULE FlushTimers ----------------------------
(***************************************************************************)
(* The hooks plugin (src/hooks): every hook of a session is a short-lived  *)
(* process, so the buffer of captured messages is counted in a state file  *)
(* that Stop, SessionEnd and UserPromptSubmit hooks and detached sleeping  *)
(* flush watchers share.                                                   *)
(*                                                                         *)
(* The hooks of one session run one after the other; everything else runs  *)
(* side by side: watchers with hooks, hooks of one session with those of   *)
(* another.  A missing state file and DEFAULT_STATE are the same state.    *)
(* Token counts move with message counts, so one Threshold stands for both.*)
(***************************************************************************)
EXTENDS Naturals, FiniteSets

CONSTANTS
    Sessions,
    None,
    Lines,       \* bound: transcript lines of each session
    Silent,      \* line numbers that parse to no message (queue-operation, summary)
    Threshold,   \* flush_message_threshold
    Stops,       \* bound: Stop hooks of each session
    Ends,        \* bound: sessions that end while we look
    MaxFaults    \* bound: calls that fail and hooks that are killed

ASSUME FlushAssumption ==
    /\ None \notin Sessions
    /\ Lines \in [Sessions -> Nat]
    /\ Stops \in [Sessions -> Nat] /\ Ends \subseteq Sessions
    /\ Threshold \in Nat \ {0} /\ MaxFaults \in Nat

VARIABLES
    written,     \* transcript lines of each session
    file,        \* state/<session>.json
    hook,        \* the hook process of each session
    watchers,    \* flush_watcher.py processes
    server,      \* EverOS: the unprocessed buffer and what was extracted
    active,      \* active/<project>.json
    clock,       \* Stop hooks of each session so far: time.time(), and the pid of a watcher
    faults,
    blind,       \* history: messages that reached the server behind a reset's back
    fault        \* history: a failure or an overwritten reset since the window opened

vars == <<written, file, hook, watchers, server, active, clock, faults, blind, fault>>

-----------------------------------------------------------------------------
State == [cursor : Nat, pending : Nat, first : Nat, epoch : Nat]
DEFAULT_STATE == [cursor |-> 0, pending |-> 0, first |-> 0, epoch |-> 0]

\* "read" state and transcript, "added" to the server, "full" at the threshold,
\* "flushed" but counters not reset, "idleTimer" and "maxTimer" about to be spawned,
\* "seal" before the last flush, "gone" after it, "ended" with the session,
\* "switch" in flush_before_recall and "switched" before the reset of its target.
Phase == {"idle", "read", "added", "full", "flushed", "idleTimer", "maxTimer",
          "seal", "gone", "ended", "switch", "switched"}
Hook == [pc : Phase, end : BOOLEAN, now : Nat, before : State, upto : Nat, items : SUBSET Nat,
         todo : SUBSET Sessions, target : Sessions \cup {None}]
Idle == [pc |-> "idle", end |-> FALSE, now |-> 0, before |-> DEFAULT_STATE, upto |-> 0,
         items |-> {}, todo |-> {}, target |-> None]

Watcher == [of : Sessions, field : {"epoch", "first"}, value : Nat, born : Nat,
            pc : {"asleep", "awake", "flushed"}]

Init ==
    /\ written = [s \in Sessions |-> 0]
    /\ file = [s \in Sessions |-> DEFAULT_STATE]
    /\ hook = [s \in Sessions |-> Idle]
    /\ watchers = {}
    /\ server = [s \in Sessions |-> [buffer |-> {}, folded |-> {}]]
    /\ active = None
    /\ clock = [s \in Sessions |-> 0] /\ faults = 0
    /\ blind = [s \in Sessions |-> {}]
    /\ fault = [s \in Sessions |-> FALSE]

At(s, pc) == hook[s].pc = pc
Goto(s, pc) == hook' = [hook EXCEPT ![s].pc = pc]
Exit(s) == hook' = [hook EXCEPT ![s] = Idle]
Fails(s) ==
    /\ faults < MaxFaults
    /\ faults' = faults + 1
    /\ fault' = [fault EXCEPT ![s] = TRUE]

\* /flush extracts the buffer of the session: no message of a dialogue is left in it
\* (Memorize: FlushLeavesNoChat).
Flushed(s) ==
    server' = [server EXCEPT ![s] = [buffer |-> {}, folded |-> @.folded \cup @.buffer]]

\* A flush whose answer is an error or a timeout: extracted all the same, or not.
LosesFlush(s) == Flushed(s) \/ UNCHANGED server

\* update_state(pending_messages=0, pending_tokens=0, first_pending_at=None)
Reset(s) == file' = [file EXCEPT ![s].pending = 0, ![s].first = 0]

\* Somebody has flushed session s and not yet reset its counters.
Flushing(s) ==
    \/ \E w \in watchers : w.of = s /\ w.pc = "flushed"
    \/ \E t \in Sessions : At(t, "switched") /\ hook[t].target = s

-----------------------------------------------------------------------------
(* The transcript, and Stop: capture *)

Write(s) ==
    /\ ~At(s, "ended") /\ written[s] < Lines[s]
    /\ written' = [written EXCEPT ![s] = @ + 1]
    /\ UNCHANGED <<file, hook, watchers, server, active, clock, faults, blind, fault>>

\* capture_messages_since: the messages of the lines past the cursor.
Capture(s, end) ==
    /\ At(s, "idle")
    /\ hook' = [hook EXCEPT ![s] =
                  [Idle EXCEPT !.pc = "read", !.end = end, !.now = clock[s] + 1, !.before = file[s],
                               !.upto = written[s],
                               !.items = (file[s].cursor + 1)..written[s] \ Silent]]

StartStop(s) ==
    /\ clock[s] < Stops[s]
    /\ clock' = [clock EXCEPT ![s] = @ + 1]
    /\ Capture(s, FALSE)
    /\ UNCHANGED <<written, file, watchers, server, active, faults, blind, fault>>

\* client.add with defer_extraction, in one batch.
Add(s) ==
    /\ At(s, "read")
    /\ server' = [server EXCEPT ![s].buffer = @ \cup hook[s].items]
    /\ Goto(s, "added")
    /\ blind' = IF Flushing(s) THEN [blind EXCEPT ![s] = @ \cup hook[s].items] ELSE blind
    /\ UNCHANGED <<written, file, watchers, active, clock, faults, fault>>

\* "capture failed open": the state file keeps its cursor, so the next capture
\* sends the lines again; the server may have them already.
AddFails(s) ==
    /\ At(s, "read") /\ hook[s].items # {}
    /\ Fails(s)
    /\ \/ UNCHANGED <<server, blind>>
       \/ /\ server' = [server EXCEPT ![s].buffer = @ \cup hook[s].items]
          /\ blind' = [blind EXCEPT ![s] = @ \cup hook[s].items]
    /\ IF hook[s].end THEN Goto(s, "seal") ELSE Exit(s)
    /\ UNCHANGED <<written, file, watchers, active, clock>>

WasEmpty(s) == hook[s].before.pending = 0

Opens(s) == WasEmpty(s) /\ hook[s].items # {}

\* Mutant: the cursor runs ahead of what was sent.
CountedPast(s) ==
    [cursor |-> hook[s].upto + 1,
     pending |-> hook[s].before.pending + Cardinality(hook[s].items),
     first |-> IF Opens(s) THEN hook[s].now ELSE hook[s].before.first,
     epoch |-> hook[s].before.epoch + 1]

\* Mutant: the messages of earlier captures are not carried over.
CountedAfresh(s) ==
    [cursor |-> hook[s].upto,
     pending |-> Cardinality(hook[s].items),
     first |-> IF Opens(s) THEN hook[s].now ELSE hook[s].before.first,
     epoch |-> hook[s].before.epoch + 1]

\* Every field is written as computed from the state read before the capture.
Counted(s) ==
    [cursor |-> hook[s].upto,
     pending |-> hook[s].before.pending + Cardinality(hook[s].items),
     first |-> IF Opens(s) THEN hook[s].now ELSE hook[s].before.first,
     epoch |-> hook[s].before.epoch + 1]

\* Stop's update_state, and the branch on what it returns.
Count(s) ==
    LET after == Counted(s) IN
    /\ At(s, "added") /\ ~hook[s].end
    /\ file' = [file EXCEPT ![s] = after]
    /\ fault' = [fault EXCEPT ![s] =
                   IF Opens(s) THEN FALSE ELSE @ \/ (file[s].pending # hook[s].before.pending)]
    /\ \/ after.pending = 0 /\ Exit(s)
       \/ after.pending >= Threshold /\ Goto(s, "full")
       \/ after.pending \in 1..(Threshold - 1) /\ Goto(s, "idleTimer")
    /\ UNCHANGED <<written, watchers, server, active, clock, faults, blind>>

\* The threshold flush of Stop; no watcher is armed when it fails.
FlushFull(s) ==
    /\ At(s, "full")
    /\ \/ Flushed(s) /\ Goto(s, "flushed") /\ UNCHANGED <<faults, fault>>
       \/ LosesFlush(s) /\ Fails(s) /\ Exit(s)
    /\ UNCHANGED <<written, file, watchers, active, clock, blind>>

ResetFull(s) ==
    /\ At(s, "flushed")
    /\ Reset(s)
    /\ Exit(s)
    /\ UNCHANGED <<written, watchers, server, active, clock, faults, blind, fault>>

Spawn(s, field, value) ==
    watchers' = watchers \cup
        {[of |-> s, field |-> field, value |-> value, born |-> hook[s].now, pc |-> "asleep"]}

\* The watchers carry the values update_state returned.
ArmIdle(s) ==
    /\ At(s, "idleTimer")
    /\ Spawn(s, "epoch", hook[s].before.epoch + 1)
    /\ IF Opens(s) THEN Goto(s, "maxTimer") ELSE Exit(s)
    /\ UNCHANGED <<written, file, server, active, clock, faults, blind, fault>>

ArmMax(s) ==
    /\ At(s, "maxTimer")
    /\ Spawn(s, "first", Counted(s).first)
    /\ Exit(s)
    /\ UNCHANGED <<written, file, server, active, clock, faults, blind, fault>>

-----------------------------------------------------------------------------
(* SessionEnd: seal *)

StartEnd(s) ==
    /\ s \in Ends
    /\ Capture(s, TRUE)
    /\ UNCHANGED <<written, file, watchers, server, active, clock, faults, blind, fault>>

\* update_state(cursor=new_cursor): the counters stay.
CountEnd(s) ==
    /\ At(s, "added") /\ hook[s].end
    /\ file' = [file EXCEPT ![s].cursor = hook[s].upto]
    /\ Goto(s, "seal")
    /\ UNCHANGED <<written, watchers, server, active, clock, faults, blind, fault>>

\* "seal flush failed (ignored)"
Seal(s) ==
    /\ At(s, "seal")
    /\ \/ Flushed(s) /\ UNCHANGED <<faults, fault>>
       \/ LosesFlush(s) /\ Fails(s)
    /\ Goto(s, "gone")
    /\ UNCHANGED <<written, file, watchers, active, clock, blind>>

DeleteState(s) ==
    /\ At(s, "gone")
    /\ file' = [file EXCEPT ![s] = DEFAULT_STATE]
    /\ hook' = [hook EXCEPT ![s] = [Idle EXCEPT !.pc = "ended"]]
    /\ UNCHANGED <<written, watchers, server, active, clock, faults, blind, fault>>

\* The hook is killed: at its 20 s timeout, or with the machine.
Kill(s) ==
    /\ hook[s].pc \notin {"idle", "ended"}
    /\ Fails(s)
    /\ hook' = [hook EXCEPT ![s] =
                  [Idle EXCEPT !.pc = IF hook[s].end THEN "ended" ELSE "idle"]]
    /\ blind' = IF At(s, "added") THEN [blind EXCEPT ![s] = @ \cup hook[s].items] ELSE blind
    /\ UNCHANGED <<written, file, watchers, server, active, clock>>

-----------------------------------------------------------------------------
(* UserPromptSubmit: flush_before_recall *)

PendingSessions(s) == {t \in Sessions \ {s} : file[t].pending > 0}

Prompt(s) ==
    LET todo == IF active \in {None, s} THEN {} ELSE PendingSessions(s) IN
    /\ At(s, "idle") /\ active # s
    /\ active' = s
    /\ hook' = IF todo = {} THEN hook
               ELSE [hook EXCEPT ![s] = [Idle EXCEPT !.pc = "switch", !.todo = todo]]
    /\ UNCHANGED <<written, file, watchers, server, clock, faults, blind, fault>>

\* Session t is done with, flushed or not.
Next1(s, t) ==
    LET todo == hook[s].todo \ {t} IN
    IF todo = {} THEN Exit(s)
    ELSE hook' = [hook EXCEPT ![s] = [Idle EXCEPT !.pc = "switch", !.todo = todo]]

SwitchFlush(s) ==
    \E t \in hook[s].todo :
        /\ At(s, "switch")
        /\ \/ /\ Flushed(t)
              /\ hook' = [hook EXCEPT ![s].pc = "switched", ![s].target = t]
              /\ UNCHANGED <<faults, fault>>
           \/ LosesFlush(t) /\ Fails(t) /\ Next1(s, t)
        /\ UNCHANGED <<written, file, watchers, active, clock, blind>>

SwitchReset(s) ==
    /\ At(s, "switched")
    /\ Reset(hook[s].target)
    /\ Next1(s, hook[s].target)
    /\ UNCHANGED <<written, watchers, server, active, clock, faults, blind, fault>>

-----------------------------------------------------------------------------
(* flush_watcher.py *)

\* Mutant: ordinary activity cancels the max-delay watcher too.
StaleByEpoch(w) == file[w.of].first # w.value \/ file[w.of].epoch # w.value

\* "superseded": by any later Stop, or by the end of the window.
Stale(w) ==
    IF w.field = "epoch" THEN file[w.of].epoch # w.value
    ELSE file[w.of].first = 0 \/ file[w.of].first # w.value

Wakes(w) ==
    /\ w.pc = "asleep"
    /\ watchers' = IF Stale(w) \/ file[w.of].pending = 0 THEN watchers \ {w}
                   ELSE (watchers \ {w}) \cup {[w EXCEPT !.pc = "awake"]}
    /\ UNCHANGED <<written, file, hook, server, active, clock, faults, blind, fault>>

WatcherFlush(w) ==
    /\ w.pc = "awake"
    /\ \/ /\ Flushed(w.of)
          /\ watchers' = (watchers \ {w}) \cup {[w EXCEPT !.pc = "flushed"]}
          /\ UNCHANGED <<faults, fault>>
       \/ /\ LosesFlush(w.of) /\ Fails(w.of)
          /\ watchers' = watchers \ {w}
    /\ UNCHANGED <<written, file, hook, active, clock, blind>>

\* The counters are reset whatever was captured since the flush.
WatcherReset(w) ==
    /\ w.pc = "flushed"
    /\ Reset(w.of)
    /\ watchers' = watchers \ {w}
    /\ UNCHANGED <<written, hook, server, active, clock, faults, blind, fault>>

-----------------------------------------------------------------------------
\* What a hook process does once it is started.
HookStep(s) ==
    \/ Add(s) \/ AddFails(s) \/ Count(s) \/ FlushFull(s) \/ ResetFull(s)
    \/ ArmIdle(s) \/ ArmMax(s)
    \/ CountEnd(s) \/ Seal(s) \/ DeleteState(s)
    \/ SwitchFlush(s) \/ SwitchReset(s)

WatcherStep(w) == Wakes(w) \/ WatcherFlush(w) \/ WatcherReset(w)

Next ==
    \/ \E s \in Sessions : Write(s) \/ StartStop(s) \/ StartEnd(s) \/ Prompt(s)
    \/ \E s \in Sessions : HookStep(s) \/ Kill(s)
    \/ \E w \in watchers : WatcherStep(w)

\* A started process goes on: no fairness for the user, who may never come back.
Fairness ==
    /\ \A s \in Sessions : WF_vars(HookStep(s))
    /\ WF_vars(\E w \in watchers : WatcherStep(w))

Spec == Init /\ [][Next]_vars /\ Fairness

-----------------------------------------------------------------------------
(* Properties *)

\* Every variable has its type, and a cursor is a line of its transcript.
TypeOK ==
    /\ written \in [Sessions -> Nat]
    /\ file \in [Sessions -> State]
    /\ \A s \in Sessions : file[s].cursor <= written[s] /\ written[s] <= Lines[s]
    /\ hook \in [Sessions -> Hook]
    /\ watchers \subseteq Watcher
    /\ server \in [Sessions -> [buffer : SUBSET Nat, folded : SUBSET Nat]]
    /\ active \in Sessions \cup {None}
    /\ clock \in [Sessions -> Nat] /\ faults \in 0..MaxFaults
    /\ blind \in [Sessions -> SUBSET Nat] /\ fault \in [Sessions -> BOOLEAN]

\* A line the cursor has passed is on the server: a capture that fails, is killed
\* or answers too late ("fails open") never costs a message.
NothingSkipped ==
    \A s \in Sessions :
        1..file[s].cursor \ Silent \subseteq server[s].buffer \cup server[s].folded

\* While a window is open and no hook of the session is at work, the max-delay
\* watcher of that window exists, so that a user who keeps the idle watcher from
\* firing cannot keep the messages from being flushed (flush_watcher.py: "armed once
\* per buffer-open window and never reset by capture()"); unless a call failed, a
\* hook was killed or Stop wrote old counters over a reset in that window.
OpenWindowHasMaxTimer ==
    \A s \in Sessions : file[s].pending > 0 /\ At(s, "idle") /\ ~fault[s] =>
        \E w \in watchers : w.of = s /\ w.field = "first" /\ w.value = file[s].first

\* Every captured message is extracted in the end, whatever the user does or stops
\* doing; except those that arrived while a flusher had yet to reset the counters
\* (flush_watcher.py:76 forgets them) and those of a window with a failure in it
\* ("best-effort background maintenance; a later Stop/seal will retry").
CapturedIsFlushed ==
    \A s \in Sessions :
        (server[s].buffer \ blind[s] # {} /\ ~fault[s])
            ~> (server[s].buffer \subseteq blind[s] \/ fault[s])

=============================================================================
