------------------------- MODULE FlushTimersProofs -------------------------
(***************************************************************************)
(* For any sessions, transcripts, hooks and watchers: a cursor never       *)
(* passes a line the server lacks, and an open window has its max-delay    *)
(* watcher.                                                                *)
(***************************************************************************)
EXTENDS FlushTimers, FiniteSetTheorems, TLAPS

-----------------------------------------------------------------------------
(* The inductive invariant *)

\* All that reached the server of a session.
On(s) == server[s].buffer \cup server[s].folded

Passed(s) == 1..file[s].cursor \ Silent \subseteq On(s)

\* An open window has its birth date.
Dated(s) == file[s].pending > 0 => file[s].first > 0

\* What a capture read is what the file says, but for a reset in between.
Captured(s) ==
    hook[s].pc \in {"read", "added"} =>
        /\ hook[s].upto <= written[s] /\ file[s].cursor = hook[s].before.cursor
        /\ hook[s].items = (hook[s].before.cursor + 1)..hook[s].upto \ Silent
        /\ file[s].pending \in {0, hook[s].before.pending}
        /\ file[s].pending > 0 => file[s].first = hook[s].before.first
        /\ hook[s].before.pending > 0 => hook[s].before.first > 0
        /\ hook[s].now > 0
        /\ hook[s].pc = "added" => hook[s].items \subseteq On(s)

\* The birth date that a hook is about to hand to the watchers is the file's.
Handed(s) ==
    hook[s].pc \in {"idleTimer", "maxTimer"} /\ file[s].pending > 0 =>
        file[s].first = Counted(s).first

\* A hook that is about to flush the window or to arm its max-delay watcher.
Arming(s) == \/ hook[s].pc \in {"full", "flushed", "maxTimer"}
             \/ hook[s].pc = "idleTimer" /\ Opens(s)

Timer(s) == \E w \in watchers : w.of = s /\ w.field = "first" /\ w.value = file[s].first

Timed(s) == file[s].pending > 0 /\ ~fault[s] /\ ~Arming(s) => Timer(s)

Targeted(s) == hook[s].pc = "switched" => hook[s].target \in Sessions

Sound(s) == Passed(s) /\ Dated(s) /\ Captured(s) /\ Handed(s) /\ Timed(s) /\ Targeted(s)

IInv == TypeOK /\ \A s \in Sessions : Sound(s)

-----------------------------------------------------------------------------
(* Pieces of steps *)

LEMMA SessionIs ==
    ASSUME IInv, NEW s \in Sessions
    PROVE  /\ Sound(s)
           /\ file[s] \in State /\ hook[s] \in Hook
           /\ file[s].cursor \in Nat /\ file[s].pending \in Nat /\ file[s].first \in Nat
           /\ file[s].epoch \in Nat
           /\ hook[s].pc \in Phase /\ hook[s].end \in BOOLEAN /\ hook[s].now \in Nat
           /\ hook[s].before \in State /\ hook[s].upto \in Nat /\ hook[s].items \subseteq Nat
           /\ hook[s].todo \subseteq Sessions
           /\ hook[s].before.cursor \in Nat /\ hook[s].before.pending \in Nat
           /\ hook[s].before.first \in Nat /\ hook[s].before.epoch \in Nat
           /\ written[s] \in Nat /\ written[s] <= Lines[s] /\ file[s].cursor <= written[s]
           /\ fault[s] \in BOOLEAN /\ s # None
  <1>1. /\ Sound(s) /\ file[s] \in State /\ hook[s] \in Hook
        /\ written[s] \in Nat /\ written[s] <= Lines[s] /\ file[s].cursor <= written[s]
        /\ fault[s] \in BOOLEAN
    BY DEF IInv, TypeOK
  <1>2. hook[s].before \in State
    BY <1>1 DEF Hook
  <1>3. QED
    BY <1>1, <1>2, FlushAssumption DEF State, Hook

LEMMA IdleIs ==
    /\ Idle \in Hook /\ Idle.pc = "idle"
    /\ DEFAULT_STATE \in State /\ DEFAULT_STATE.pending = 0 /\ DEFAULT_STATE.cursor = 0
  BY DEF Idle, Hook, Phase, DEFAULT_STATE, State

Others(s) == \A d \in Sessions \ {s} : hook'[d] = hook[d]

LEMMA HookGoes ==
    ASSUME IInv, NEW s \in Sessions, NEW new \in Hook, hook' = [hook EXCEPT ![s] = new]
    PROVE  hook' \in [Sessions -> Hook] /\ hook'[s] = new /\ Others(s)
  BY DEF IInv, TypeOK, Others

\* A hook that moves on with what it has.
Same(s) ==
    /\ hook'[s].end = hook[s].end /\ hook'[s].now = hook[s].now
    /\ hook'[s].before = hook[s].before /\ hook'[s].upto = hook[s].upto
    /\ hook'[s].items = hook[s].items /\ hook'[s].todo = hook[s].todo
    /\ hook'[s].target = hook[s].target

LEMMA GotoIs ==
    ASSUME IInv, NEW s \in Sessions, NEW pc \in Phase, Goto(s, pc)
    PROVE  hook' \in [Sessions -> Hook] /\ hook'[s].pc = pc /\ Same(s) /\ Others(s)
  <1>1. hook[s] \in Hook
    BY SessionIs
  <1>2. [hook[s] EXCEPT !.pc = pc] \in Hook
    BY <1>1 DEF Hook
  <1>3. hook' = [hook EXCEPT ![s] = [hook[s] EXCEPT !.pc = pc]]
    BY DEF Goto, IInv, TypeOK
  <1>4. /\ hook' \in [Sessions -> Hook] /\ hook'[s] = [hook[s] EXCEPT !.pc = pc]
        /\ Others(s)
    BY <1>2, <1>3, HookGoes
  <1>5. QED
    BY <1>1, <1>4 DEF Same, Hook

LEMMA ExitIs ==
    ASSUME IInv, NEW s \in Sessions, Exit(s)
    PROVE  hook' \in [Sessions -> Hook] /\ hook'[s].pc = "idle" /\ Others(s)
  BY IdleIs, HookGoes DEF Exit

LEMMA FlushedIs ==
    ASSUME IInv, NEW s \in Sessions, Flushed(s) \/ UNCHANGED server
    PROVE  /\ server' \in [Sessions -> [buffer : SUBSET Nat, folded : SUBSET Nat]]
           /\ \A d \in Sessions : On(d)' = On(d)
  <1>1. server \in [Sessions -> [buffer : SUBSET Nat, folded : SUBSET Nat]]
    BY DEF IInv, TypeOK
  <1>2. CASE Flushed(s)
    <2>1. server[s].folded \cup server[s].buffer \in SUBSET Nat /\ {} \in SUBSET Nat
      BY <1>1
    <2>2. server' = [server EXCEPT ![s] = [buffer |-> {},
                                           folded |-> server[s].folded \cup server[s].buffer]]
      BY <1>1, <1>2 DEF Flushed
    <2>3. QED
      BY <1>1, <2>1, <2>2 DEF On
  <1>3. CASE UNCHANGED server
    BY <1>1, <1>3 DEF On
  <1>4. QED
    BY <1>2, <1>3

LEMMA ResetIs ==
    ASSUME IInv, NEW s \in Sessions, Reset(s)
    PROVE  /\ file' \in [Sessions -> State]
           /\ file'[s].pending = 0 /\ file'[s].cursor = file[s].cursor
           /\ \A d \in Sessions \ {s} : file'[d] = file[d]
  <1>1. file \in [Sessions -> State] /\ file[s] \in State
    BY SessionIs DEF IInv, TypeOK
  <1>2. [file[s] EXCEPT !.pending = 0, !.first = 0] \in State
    BY <1>1 DEF State
  <1>3. file' = [file EXCEPT ![s] = [file[s] EXCEPT !.pending = 0, !.first = 0]]
    BY <1>1 DEF Reset
  <1>4. QED
    BY <1>1, <1>2, <1>3 DEF State

LEMMA FailsIs ==
    ASSUME IInv, NEW s \in Sessions, Fails(s)
    PROVE  /\ faults' \in 0..MaxFaults /\ fault' \in [Sessions -> BOOLEAN]
           /\ fault'[s] /\ \A d \in Sessions : fault[d] => fault'[d]
  <1>1. faults \in Nat /\ faults < MaxFaults /\ faults' = faults + 1
    BY DEF Fails, IInv, TypeOK
  <1>2. QED
    BY <1>1, FlushAssumption DEF Fails, IInv, TypeOK

-----------------------------------------------------------------------------
(* What a step leaves of the invariant *)

\* A session whose file and hook a step does not touch.
Keeps(d) ==
    /\ file'[d] = file[d] /\ hook'[d] = hook[d] /\ (fault[d] => fault'[d])
    /\ written[d] <= written'[d] /\ written'[d] \in Nat /\ On(d) \subseteq On(d)'
    /\ file[d].pending > 0 /\ ~fault'[d] /\ Timer(d) => Timer(d)'

LEMMA KeepsSound ==
    ASSUME IInv, NEW d \in Sessions, Keeps(d)
    PROVE  Sound(d)'
  <1>1. /\ Sound(d) /\ hook[d].upto \in Nat /\ written[d] \in Nat
    BY SessionIs
  <1>2. Passed(d)' /\ Dated(d)' /\ Handed(d)' /\ Targeted(d)'
    BY <1>1 DEF Sound, Keeps, Passed, Dated, Handed, Targeted, Counted, Opens, WasEmpty
  <1>3. Captured(d)'
    <2>1. hook[d].upto <= written[d] => hook[d].upto <= written'[d]
      BY <1>1 DEF Keeps
    <2>2. QED
      BY <1>1, <2>1 DEF Sound, Keeps, Captured
  <1>4. Timed(d)'
    BY <1>1 DEF Sound, Keeps, Timed, Arming, Opens, WasEmpty
  <1>5. QED
    BY <1>2, <1>3, <1>4 DEF Sound

\* A session whose counters somebody resets.
LEMMA AfterReset ==
    ASSUME IInv, NEW d \in Sessions,
           file'[d].pending = 0, file'[d].cursor = file[d].cursor,
           hook'[d] = hook[d] \/ hook'[d].pc \in {"idle", "switch"},
           written'[d] = written[d], On(d) \subseteq On(d)'
    PROVE  Sound(d)'
  <1>1. Sound(d)
    BY SessionIs
  <1>2. Passed(d)' /\ Dated(d)' /\ Handed(d)' /\ Targeted(d)' /\ Timed(d)'
    BY <1>1 DEF Sound, Passed, Dated, Handed, Targeted, Timed
  <1>3. Captured(d)'
    BY <1>1 DEF Sound, Captured
  <1>4. QED
    BY <1>2, <1>3 DEF Sound

\* A hook that goes where it holds no copy of the file.
LEMMA Settles ==
    ASSUME IInv, NEW d \in Sessions,
           file'[d] = file[d], fault[d] => fault'[d], On(d) \subseteq On(d)',
           Timer(d) => Timer(d)',
           hook'[d].pc \notin {"read", "added", "idleTimer", "maxTimer"},
           hook'[d].pc = "switched" => hook'[d].target \in Sessions,
           \/ hook[d].pc \notin {"full", "flushed", "idleTimer", "maxTimer"}
           \/ hook'[d].pc \in {"full", "flushed"} \/ fault'[d]
    PROVE  Sound(d)'
  <1>1. Sound(d)
    BY SessionIs
  <1>2. Passed(d)' /\ Dated(d)' /\ Handed(d)' /\ Targeted(d)' /\ Captured(d)'
    BY <1>1 DEF Sound, Passed, Dated, Handed, Targeted, Captured
  <1>3. Timed(d)'
    BY <1>1 DEF Sound, Timed, Arming
  <1>4. QED
    BY <1>2, <1>3 DEF Sound

LEMMA TypesAre ==
    ASSUME IInv
    PROVE  /\ written \in [Sessions -> Nat] /\ file \in [Sessions -> State]
           /\ hook \in [Sessions -> Hook] /\ watchers \subseteq Watcher
           /\ server \in [Sessions -> [buffer : SUBSET Nat, folded : SUBSET Nat]]
           /\ active \in Sessions \cup {None}
           /\ clock \in [Sessions -> Nat] /\ faults \in 0..MaxFaults
           /\ blind \in [Sessions -> SUBSET Nat] /\ fault \in [Sessions -> BOOLEAN]
  BY DEF IInv, TypeOK

\* A step that keeps the transcripts and the cursors.
LEMMA Assembles ==
    ASSUME IInv, \A d \in Sessions : Sound(d)', UNCHANGED <<written, clock>>,
           file' \in [Sessions -> State],
           \A d \in Sessions : file'[d].cursor <= file[d].cursor,
           hook' \in [Sessions -> Hook], watchers' \subseteq Watcher,
           server' \in [Sessions -> [buffer : SUBSET Nat, folded : SUBSET Nat]],
           active' \in Sessions \cup {None}, faults' \in 0..MaxFaults,
           blind' \in [Sessions -> SUBSET Nat], fault' \in [Sessions -> BOOLEAN]
    PROVE  IInv'
  <1>1. ASSUME NEW d \in Sessions
        PROVE  file'[d].cursor <= written'[d] /\ written'[d] <= Lines[d]
    <2>1. /\ file[d].cursor <= written[d] /\ written[d] <= Lines[d]
          /\ file[d].cursor \in Nat /\ written[d] \in Nat
      BY SessionIs
    <2>2. file'[d] \in State
      OBVIOUS
    <2>3. file'[d].cursor \in Nat
      BY <2>2 DEF State
    <2>4. QED
      BY <2>1, <2>3
  <1>2. TypeOK'
    BY <1>1, TypesAre DEF TypeOK
  <1>3. QED
    BY <1>2 DEF IInv

LEMMA WriteKeeps ==
    ASSUME IInv, NEW s \in Sessions, Write(s)
    PROVE  IInv'
  <1>1. /\ written[s] < Lines[s] /\ written' = [written EXCEPT ![s] = @ + 1]
        /\ UNCHANGED <<file, hook, watchers, server, active, clock, faults, blind, fault>>
    BY DEF Write
  <1>2. ASSUME NEW d \in Sessions
        PROVE  /\ written[d] <= written'[d] /\ written'[d] \in Nat
               /\ file'[d].cursor <= written'[d] /\ written'[d] <= Lines[d]
    <2>1. /\ written \in [Sessions -> Nat] /\ written[d] \in Nat
          /\ file[d].cursor \in Nat /\ file[d].cursor <= written[d] /\ written[d] <= Lines[d]
      BY SessionIs, TypesAre
    <2>2. written'[d] = IF d = s THEN written[d] + 1 ELSE written[d]
      BY <1>1, <2>1
    <2>3. Lines[d] \in Nat
      BY FlushAssumption
    <2>4. QED
      BY <1>1, <2>1, <2>2, <2>3
  <1>3. \A d \in Sessions : Keeps(d)
    BY <1>1, <1>2 DEF Keeps, On, Timer
  <1>4. \A d \in Sessions : Sound(d)'
    BY <1>3, KeepsSound
  <1>5. written' \in [Sessions -> Nat]
    BY <1>1, <1>2, TypesAre
  <1>6. TypeOK'
    BY <1>1, <1>2, <1>5, TypesAre DEF TypeOK
  <1>7. QED
    BY <1>4, <1>6 DEF IInv

\* The sessions that a step of one hook does not touch.
LEMMA ElsewhereSound ==
    ASSUME IInv, NEW s \in Sessions, Others(s), written' = written,
           \A d \in Sessions : On(d) \subseteq On(d)',
           \A d \in Sessions \ {s} : file'[d] = file[d] /\ (fault[d] => fault'[d]),
           watchers \subseteq watchers', Sound(s)'
    PROVE  \A d \in Sessions : Sound(d)'
  <1> SUFFICES ASSUME NEW d \in Sessions, d # s PROVE Sound(d)'
    OBVIOUS
  <1>1. written[d] \in Nat
    BY SessionIs
  <1>2. Timer(d) => Timer(d)'
    BY DEF Timer
  <1>3. Keeps(d)
    BY <1>1, <1>2 DEF Keeps, Others
  <1>4. QED
    BY <1>3, KeepsSound

LEMMA CaptureIs ==
    ASSUME IInv, NEW s \in Sessions, NEW end \in BOOLEAN, Capture(s, end),
           UNCHANGED <<written, file, watchers, server, fault>>
    PROVE  hook' \in [Sessions -> Hook] /\ \A d \in Sessions : Sound(d)'
  <1> DEFINE items == (file[s].cursor + 1)..written[s] \ Silent
             new == [Idle EXCEPT !.pc = "read", !.end = end, !.now = clock[s] + 1,
                                 !.before = file[s], !.upto = written[s], !.items = items]
  <1>1. /\ items \in SUBSET Nat /\ clock[s] + 1 \in Nat /\ clock[s] + 1 > 0
        /\ file[s] \in State /\ written[s] \in Nat
    <2>1. clock[s] \in Nat /\ file[s] \in State /\ written[s] \in Nat /\ file[s].cursor \in Nat
      BY SessionIs, TypesAre
    <2>2. QED
      BY <2>1
  <1> HIDE DEF items
  <1>2. new \in Hook
    BY <1>1, IdleIs DEF Hook, Phase
  <1>3. hook' = [hook EXCEPT ![s] = new] /\ hook[s].pc = "idle"
    BY DEF Capture, items, At
  <1>4. /\ hook' \in [Sessions -> Hook] /\ hook'[s] = new /\ Others(s)
    BY <1>2, <1>3, HookGoes
  <1>5. /\ hook'[s].pc = "read" /\ hook'[s].now = clock[s] + 1 /\ hook'[s].before = file[s]
        /\ hook'[s].upto = written[s] /\ hook'[s].items = items
    BY <1>2, <1>4, IdleIs DEF Hook, Idle
  <1>6. Sound(s)
    BY SessionIs
  <1>7. Captured(s)'
    BY <1>1, <1>5, <1>6, SessionIs DEF Captured, Sound, Dated, items
  <1>8. Passed(s)' /\ Dated(s)' /\ Handed(s)' /\ Targeted(s)'
    BY <1>5, <1>6 DEF Sound, Passed, Dated, Handed, Targeted, On
  <1>9. Timed(s)'
    BY <1>3, <1>5, <1>6 DEF Sound, Timed, Arming, Timer
  <1>10. \A d \in Sessions : On(d) \subseteq On(d)'
    BY DEF On
  <1>11. QED
    BY <1>4, <1>7, <1>8, <1>9, <1>10, ElsewhereSound DEF Sound

LEMMA StartStopKeeps ==
    ASSUME IInv, NEW s \in Sessions, StartStop(s)
    PROVE  IInv'
  <1>1. /\ Capture(s, FALSE) /\ clock' = [clock EXCEPT ![s] = @ + 1]
        /\ UNCHANGED <<written, file, watchers, server, active, faults, blind, fault>>
    BY DEF StartStop
  <1>2. hook' \in [Sessions -> Hook] /\ \A d \in Sessions : Sound(d)'
    BY <1>1, CaptureIs
  <1>3. clock' \in [Sessions -> Nat]
    BY <1>1, TypesAre
  <1>4. TypeOK'
    BY <1>1, <1>2, <1>3 DEF IInv, TypeOK
  <1>5. QED
    BY <1>2, <1>4 DEF IInv

LEMMA StartEndKeeps ==
    ASSUME IInv, NEW s \in Sessions, StartEnd(s)
    PROVE  IInv'
  <1>1. /\ Capture(s, TRUE)
        /\ UNCHANGED <<written, file, watchers, server, active, clock, faults, blind, fault>>
    BY DEF StartEnd
  <1>2. hook' \in [Sessions -> Hook] /\ \A d \in Sessions : Sound(d)'
    BY <1>1, CaptureIs
  <1>3. TypeOK'
    BY <1>1, <1>2 DEF IInv, TypeOK
  <1>4. QED
    BY <1>2, <1>3 DEF IInv

LEMMA PromptKeeps ==
    ASSUME IInv, NEW s \in Sessions, Prompt(s)
    PROVE  IInv'
  <1> DEFINE todo == IF active \in {None, s} THEN {} ELSE PendingSessions(s)
             new == [Idle EXCEPT !.pc = "switch", !.todo = todo]
  <1>1. /\ hook[s].pc = "idle" /\ active' = s
        /\ hook' = IF todo = {} THEN hook ELSE [hook EXCEPT ![s] = new]
        /\ UNCHANGED <<written, file, watchers, server, clock, faults, blind, fault>>
    BY DEF Prompt, At
  <1>2. todo \in SUBSET Sessions
    BY DEF PendingSessions
  <1> HIDE DEF todo
  <1>3. new \in Hook /\ new.pc = "switch"
    BY <1>2, IdleIs DEF Hook, Phase
  <1>4. hook' \in [Sessions -> Hook] /\ Others(s) /\ hook'[s].pc \in {"idle", "switch"}
    <2>1. CASE todo = {}
      BY <1>1, <2>1, TypesAre DEF Others
    <2>2. CASE todo # {}
      BY <1>1, <1>3, <2>2, HookGoes
    <2>3. QED
      BY <2>1, <2>2
  <1>5. \A d \in Sessions : On(d)' = On(d) /\ (Timer(d)' <=> Timer(d))
    BY <1>1 DEF On, Timer
  <1>6. Sound(s)'
    BY <1>1, <1>4, <1>5, Settles
  <1>7. \A d \in Sessions : Sound(d)'
    BY <1>1, <1>4, <1>5, <1>6, ElsewhereSound
  <1>8. \A d \in Sessions : file[d].cursor \in Nat
    BY SessionIs
  <1>9. \A d \in Sessions : file'[d].cursor <= file[d].cursor
    BY <1>1, <1>8
  <1>10. QED
    BY <1>1, <1>4, <1>7, <1>9, TypesAre, Assembles

LEMMA CursorsStay ==
    ASSUME IInv, \A d \in Sessions : file'[d].cursor = file[d].cursor
    PROVE  \A d \in Sessions : file'[d].cursor <= file[d].cursor
  <1>1. \A d \in Sessions : file[d].cursor \in Nat
    BY SessionIs
  <1>2. QED
    BY <1>1

LEMMA AddsIs ==
    ASSUME IInv, NEW s \in Sessions,
           server' = [server EXCEPT ![s].buffer = @ \cup hook[s].items]
    PROVE  /\ server' \in [Sessions -> [buffer : SUBSET Nat, folded : SUBSET Nat]]
           /\ hook[s].items \subseteq On(s)'
           /\ \A d \in Sessions : On(d) \subseteq On(d)'
  <1>1. server \in [Sessions -> [buffer : SUBSET Nat, folded : SUBSET Nat]]
        /\ hook[s].items \in SUBSET Nat
    BY TypesAre, SessionIs
  <1>2. server[s] \in [buffer : SUBSET Nat, folded : SUBSET Nat]
    BY <1>1
  <1>3. [server[s] EXCEPT !.buffer = server[s].buffer \cup hook[s].items]
           \in [buffer : SUBSET Nat, folded : SUBSET Nat]
    BY <1>1, <1>2
  <1>4. server' = [server EXCEPT ![s] = [server[s] EXCEPT !.buffer = server[s].buffer \cup hook[s].items]]
    BY <1>1
  <1>5. server' \in [Sessions -> [buffer : SUBSET Nat, folded : SUBSET Nat]]
    BY <1>1, <1>3, <1>4
  <1>6. /\ server'[s].buffer = server[s].buffer \cup hook[s].items
        /\ server'[s].folded = server[s].folded
        /\ \A d \in Sessions \ {s} : server'[d] = server[d]
    BY <1>1, <1>2, <1>4
  <1>7. QED
    BY <1>5, <1>6 DEF On

LEMMA BlindIs ==
    ASSUME IInv, NEW s \in Sessions,
           \/ blind' = [blind EXCEPT ![s] = @ \cup hook[s].items]
           \/ blind' = blind
    PROVE  blind' \in [Sessions -> SUBSET Nat]
  <1>1. blind \in [Sessions -> SUBSET Nat] /\ blind[s] \in SUBSET Nat
    BY TypesAre
  <1>2. blind[s] \cup hook[s].items \in SUBSET Nat
    BY <1>1, SessionIs
  <1>3. \/ blind' = [blind EXCEPT ![s] = blind[s] \cup hook[s].items]
        \/ blind' = blind
    BY <1>1
  <1>4. QED
    BY <1>1, <1>2, <1>3

LEMMA AddKeeps ==
    ASSUME IInv, NEW s \in Sessions, Add(s)
    PROVE  IInv'
  <1>1. /\ hook[s].pc = "read" /\ Goto(s, "added")
        /\ server' = [server EXCEPT ![s].buffer = @ \cup hook[s].items]
        /\ \/ blind' = [blind EXCEPT ![s] = @ \cup hook[s].items]
           \/ blind' = blind
        /\ UNCHANGED <<written, file, watchers, active, clock, faults, fault>>
    BY DEF Add, At
  <1>2. /\ hook' \in [Sessions -> Hook] /\ hook'[s].pc = "added" /\ Same(s) /\ Others(s)
    BY <1>1, GotoIs DEF Phase
  <1>3. /\ server' \in [Sessions -> [buffer : SUBSET Nat, folded : SUBSET Nat]]
        /\ hook[s].items \subseteq On(s)'
        /\ \A d \in Sessions : On(d) \subseteq On(d)'
    BY <1>1, AddsIs
  <1>4. Sound(s)
    BY SessionIs
  <1>5. Captured(s)'
    BY <1>1, <1>2, <1>3, <1>4 DEF Sound, Captured, Same
  <1>6. Passed(s)' /\ Dated(s)' /\ Handed(s)' /\ Targeted(s)'
    BY <1>1, <1>2, <1>3, <1>4 DEF Sound, Passed, Dated, Handed, Targeted
  <1>7. Timed(s)'
    BY <1>1, <1>2, <1>4 DEF Sound, Timed, Arming, Timer
  <1>8. \A d \in Sessions : Sound(d)'
    BY <1>1, <1>2, <1>3, <1>5, <1>6, <1>7, ElsewhereSound DEF Sound
  <1>9. blind' \in [Sessions -> SUBSET Nat] /\ \A d \in Sessions : file'[d].cursor <= file[d].cursor
    BY <1>1, BlindIs, CursorsStay
  <1>10. QED
    BY <1>1, <1>2, <1>3, <1>8, <1>9, TypesAre, Assembles

LEMMA AddFailsKeeps ==
    ASSUME IInv, NEW s \in Sessions, AddFails(s)
    PROVE  IInv'
  <1>1. /\ hook[s].pc = "read" /\ Fails(s)
        /\ \/ UNCHANGED server
           \/ server' = [server EXCEPT ![s].buffer = @ \cup hook[s].items]
        /\ \/ blind' = [blind EXCEPT ![s] = @ \cup hook[s].items]
           \/ blind' = blind
        /\ Goto(s, "seal") \/ Exit(s)
        /\ UNCHANGED <<written, file, watchers, active, clock>>
    BY DEF AddFails, At
  <1>2. hook' \in [Sessions -> Hook] /\ hook'[s].pc \in {"seal", "idle"} /\ Others(s)
    BY <1>1, GotoIs, ExitIs DEF Phase
  <1>3. /\ server' \in [Sessions -> [buffer : SUBSET Nat, folded : SUBSET Nat]]
        /\ \A d \in Sessions : On(d) \subseteq On(d)'
    BY <1>1, AddsIs, TypesAre DEF On
  <1>4. /\ faults' \in 0..MaxFaults /\ fault' \in [Sessions -> BOOLEAN]
        /\ fault'[s] /\ \A d \in Sessions : fault[d] => fault'[d]
    BY <1>1, FailsIs
  <1>5. Sound(s)'
    BY <1>1, <1>2, <1>3, <1>4, Settles DEF Timer
  <1>6. \A d \in Sessions : Sound(d)'
    BY <1>1, <1>2, <1>3, <1>4, <1>5, ElsewhereSound
  <1>7. blind' \in [Sessions -> SUBSET Nat] /\ \A d \in Sessions : file'[d].cursor <= file[d].cursor
    BY <1>1, BlindIs, CursorsStay
  <1>8. QED
    BY <1>1, <1>2, <1>3, <1>4, <1>6, <1>7, TypesAre, Assembles

LEMMA CountedIs ==
    ASSUME IInv, NEW s \in Sessions, hook[s].pc = "added"
    PROVE  /\ Counted(s) \in State
           /\ Counted(s).cursor = hook[s].upto
           /\ Counted(s).first = IF Opens(s) THEN hook[s].now ELSE hook[s].before.first
           /\ Counted(s).pending > 0 => hook[s].before.pending > 0 \/ Opens(s)
  <1>1. Sound(s)
    BY SessionIs
  <1>2. hook[s].items \subseteq (hook[s].before.cursor + 1)..hook[s].upto
    BY <1>1 DEF Sound, Captured
  <1>3. hook[s].before.cursor + 1 \in Int /\ hook[s].upto \in Int
    BY SessionIs
  <1>4. IsFiniteSet(hook[s].items)
    BY <1>2, <1>3, FS_Interval, FS_Subset
  <1>5. Cardinality(hook[s].items) \in Nat /\ (hook[s].items = {} => Cardinality(hook[s].items) = 0)
    BY <1>4, FS_CardinalityType, FS_EmptySet
  <1>6. /\ hook[s].before.pending + Cardinality(hook[s].items) \in Nat
        /\ hook[s].before.epoch + 1 \in Nat
    BY <1>5, SessionIs
  <1>7. Counted(s) \in State
    BY <1>6, SessionIs DEF Counted, State
  <1>8. Counted(s).pending > 0 => hook[s].before.pending > 0 \/ Opens(s)
    BY <1>5, SessionIs DEF Counted, Opens, WasEmpty
  <1>9. QED
    BY <1>7, <1>8 DEF Counted

\* The lines of a capture follow those the cursor had passed.
LEMMA PassesOn ==
    ASSUME IInv, NEW s \in Sessions, hook[s].pc = "added"
    PROVE  1..hook[s].upto \ Silent \subseteq On(s)
  <1>1. Sound(s)
    BY SessionIs
  <1>2. /\ hook[s].before.cursor \in Nat /\ hook[s].upto \in Nat
        /\ 1..hook[s].before.cursor \ Silent \subseteq On(s)
        /\ (hook[s].before.cursor + 1)..hook[s].upto \ Silent \subseteq On(s)
    BY <1>1, SessionIs DEF Sound, Passed, Captured
  <1>3. 1..hook[s].upto \subseteq 1..hook[s].before.cursor
                                    \cup (hook[s].before.cursor + 1)..hook[s].upto
    BY <1>2
  <1>4. QED
    BY <1>2, <1>3

LEMMA CountKeeps ==
    ASSUME IInv, NEW s \in Sessions, Count(s)
    PROVE  IInv'
  <1> DEFINE after == Counted(s)
  <1>1. /\ hook[s].pc = "added"
        /\ file' = [file EXCEPT ![s] = after]
        /\ fault' = [fault EXCEPT ![s] =
                       IF Opens(s) THEN FALSE ELSE @ \/ (file[s].pending # hook[s].before.pending)]
        /\ \/ after.pending = 0 /\ Exit(s)
           \/ Goto(s, "full")
           \/ Goto(s, "idleTimer")
        /\ UNCHANGED <<written, watchers, server, active, clock, faults, blind>>
    BY DEF Count, At
  <1>2. /\ after \in State /\ after.cursor = hook[s].upto
        /\ after.first = IF Opens(s) THEN hook[s].now ELSE hook[s].before.first
        /\ after.pending > 0 => hook[s].before.pending > 0 \/ Opens(s)
    BY <1>1, CountedIs
  <1>3. /\ file' \in [Sessions -> State] /\ file'[s] = after
        /\ \A d \in Sessions \ {s} : file'[d] = file[d]
    BY <1>1, <1>2, TypesAre
  <1>4. /\ hook' \in [Sessions -> Hook] /\ Others(s)
        /\ \/ after.pending = 0 /\ hook'[s].pc = "idle"
           \/ hook'[s].pc \in {"full", "idleTimer"} /\ Same(s)
    BY <1>1, ExitIs, GotoIs DEF Phase
  <1>5. /\ fault' \in [Sessions -> BOOLEAN]
        /\ \A d \in Sessions \ {s} : fault'[d] = fault[d]
        /\ ~fault'[s] => Opens(s) \/ (~fault[s] /\ file[s].pending = hook[s].before.pending)
    <2>1. fault \in [Sessions -> BOOLEAN] /\ fault[s] \in BOOLEAN
      BY TypesAre, SessionIs
    <2>2. (IF Opens(s) THEN FALSE ELSE fault[s] \/ (file[s].pending # hook[s].before.pending))
             \in BOOLEAN
      BY <2>1
    <2>3. fault'[s] = IF Opens(s) THEN FALSE
                      ELSE fault[s] \/ (file[s].pending # hook[s].before.pending)
      BY <1>1, <2>1
    <2>4. \A d \in Sessions \ {s} : fault'[d] = fault[d]
      BY <1>1, <2>1
    <2>5. fault' \in [Sessions -> BOOLEAN]
      BY <1>1, <2>1, <2>2
    <2>6. QED
      BY <2>3, <2>4, <2>5
  <1>6. Sound(s)
    BY SessionIs
  <1>7. after.pending \in Nat
    BY <1>2 DEF State
  <1> HIDE DEF after
  <1>8. Passed(s)'
    BY <1>1, <1>2, <1>3, PassesOn DEF Passed, On
  <1>9. Dated(s)'
    BY <1>1, <1>2, <1>3, <1>6 DEF Sound, Captured, Dated
  <1>10. Captured(s)' /\ Targeted(s)'
    BY <1>4 DEF Captured, Targeted
  <1>11. Handed(s)'
    <2> SUFFICES ASSUME hook'[s].pc \in {"full", "idleTimer"}, Same(s)
                 PROVE  file'[s].first = (Counted(s).first)'
      BY <1>4 DEF Handed
    <2>1. (Counted(s).first)' = IF Opens(s)' THEN hook'[s].now ELSE hook'[s].before.first
      BY DEF Counted
    <2>2. Opens(s)' <=> Opens(s)
      BY DEF Opens, WasEmpty, Same
    <2>3. QED
      BY <1>2, <1>3, <2>1, <2>2 DEF Same
  <1>12. Timed(s)'
    <2> SUFFICES ASSUME file'[s].pending > 0, ~fault'[s], ~Arming(s)'
                 PROVE  Timer(s)'
      BY DEF Timed
    <2>1. hook'[s].pc = "idleTimer" /\ Same(s)
      BY <1>3, <1>4 DEF Arming
    <2>2. ~Opens(s)
      BY <2>1 DEF Arming, Opens, WasEmpty, Same
    <2>3. ~fault[s] /\ file[s].pending = hook[s].before.pending
      BY <1>5, <2>2
    <2>4. file[s].pending > 0
      BY <1>2, <1>3, <2>2, <2>3
    <2>5. file[s].first = hook[s].before.first /\ file'[s].first = file[s].first
      BY <1>1, <1>2, <1>3, <1>6, <2>2, <2>4 DEF Sound, Captured
    <2>6. Timer(s)
      BY <1>1, <1>6, <2>3, <2>4 DEF Sound, Timed, Arming
    <2>7. QED
      BY <1>1, <2>5, <2>6 DEF Timer
  <1>13. \A d \in Sessions : Sound(d)'
    BY <1>1, <1>3, <1>4, <1>5, <1>8, <1>9, <1>10, <1>11, <1>12, ElsewhereSound DEF Sound, On
  <1>14. ASSUME NEW d \in Sessions
         PROVE  file'[d].cursor <= written'[d] /\ written'[d] <= Lines[d]
    <2>1. CASE d = s
      BY <1>1, <1>2, <1>3, <1>6, <2>1, SessionIs DEF Sound, Captured
    <2>2. CASE d # s
      BY <1>1, <1>3, <2>2, SessionIs
    <2>3. QED
      BY <2>1, <2>2
  <1>15. TypeOK'
    BY <1>1, <1>3, <1>4, <1>5, <1>14, TypesAre DEF TypeOK
  <1>16. QED
    BY <1>13, <1>15 DEF IInv

LEMMA FlushFullKeeps ==
    ASSUME IInv, NEW s \in Sessions, FlushFull(s)
    PROVE  IInv'
  <1>1. /\ hook[s].pc = "full" /\ (Flushed(s) \/ UNCHANGED server)
        /\ \/ Goto(s, "flushed") /\ UNCHANGED <<faults, fault>>
           \/ Exit(s) /\ Fails(s)
        /\ UNCHANGED <<written, file, watchers, active, clock, blind>>
    BY DEF FlushFull, LosesFlush, At
  <1>2. /\ server' \in [Sessions -> [buffer : SUBSET Nat, folded : SUBSET Nat]]
        /\ \A d \in Sessions : On(d)' = On(d)
    BY <1>1, FlushedIs
  <1>3. /\ hook' \in [Sessions -> Hook] /\ Others(s)
        /\ faults' \in 0..MaxFaults /\ fault' \in [Sessions -> BOOLEAN]
        /\ \A d \in Sessions : fault[d] => fault'[d]
        /\ hook'[s].pc = "flushed" \/ (hook'[s].pc = "idle" /\ fault'[s])
    BY <1>1, GotoIs, ExitIs, FailsIs, TypesAre DEF Phase
  <1>4. Sound(s)'
    BY <1>1, <1>2, <1>3, Settles DEF Timer
  <1>5. \A d \in Sessions : Sound(d)'
    BY <1>1, <1>2, <1>3, <1>4, ElsewhereSound
  <1>6. \A d \in Sessions : file'[d].cursor <= file[d].cursor
    BY <1>1, CursorsStay
  <1>7. QED
    BY <1>1, <1>2, <1>3, <1>5, <1>6, TypesAre, Assembles

LEMMA ResetFullKeeps ==
    ASSUME IInv, NEW s \in Sessions, ResetFull(s)
    PROVE  IInv'
  <1>1. /\ Reset(s) /\ Exit(s)
        /\ UNCHANGED <<written, watchers, server, active, clock, faults, blind, fault>>
    BY DEF ResetFull
  <1>2. /\ file' \in [Sessions -> State]
        /\ file'[s].pending = 0 /\ file'[s].cursor = file[s].cursor
        /\ \A d \in Sessions \ {s} : file'[d] = file[d]
    BY <1>1, ResetIs
  <1>3. hook' \in [Sessions -> Hook] /\ hook'[s].pc = "idle" /\ Others(s)
    BY <1>1, ExitIs
  <1>4. Sound(s)'
    BY <1>1, <1>2, <1>3, AfterReset DEF On
  <1>5. \A d \in Sessions : Sound(d)'
    BY <1>1, <1>2, <1>3, <1>4, ElsewhereSound DEF On
  <1>6. \A d \in Sessions : file'[d].cursor <= file[d].cursor
    BY <1>2, CursorsStay
  <1>7. QED
    BY <1>1, <1>2, <1>3, <1>5, <1>6, TypesAre, Assembles

LEMMA SpawnIs ==
    ASSUME IInv, NEW s \in Sessions, NEW field \in {"epoch", "first"}, NEW value \in Nat,
           Spawn(s, field, value)
    PROVE  /\ watchers \subseteq watchers' /\ watchers' \subseteq Watcher
           /\ \E w \in watchers' : w.of = s /\ w.field = field /\ w.value = value
  <1> DEFINE w == [of |-> s, field |-> field, value |-> value, born |-> hook[s].now,
                   pc |-> "asleep"]
  <1>1. w \in Watcher /\ w.of = s /\ w.field = field /\ w.value = value
    BY SessionIs DEF Watcher
  <1>2. watchers' = watchers \cup {w}
    BY DEF Spawn
  <1> HIDE DEF w
  <1>3. QED
    BY <1>1, <1>2, TypesAre

LEMMA ArmIdleKeeps ==
    ASSUME IInv, NEW s \in Sessions, ArmIdle(s)
    PROVE  IInv'
  <1>1. /\ hook[s].pc = "idleTimer" /\ Spawn(s, "epoch", hook[s].before.epoch + 1)
        /\ IF Opens(s) THEN Goto(s, "maxTimer") ELSE Exit(s)
        /\ UNCHANGED <<written, file, server, active, clock, faults, blind, fault>>
    BY DEF ArmIdle, At
  <1>2. hook[s].before.epoch + 1 \in Nat
    BY SessionIs
  <1>3. watchers \subseteq watchers' /\ watchers' \subseteq Watcher
    BY <1>1, <1>2, SpawnIs
  <1>4. /\ hook' \in [Sessions -> Hook] /\ Others(s)
        /\ \/ Opens(s) /\ hook'[s].pc = "maxTimer" /\ Same(s)
           \/ ~Opens(s) /\ hook'[s].pc = "idle"
    BY <1>1, GotoIs, ExitIs DEF Phase
  <1>5. Sound(s)
    BY SessionIs
  <1>6. Passed(s)' /\ Dated(s)' /\ Captured(s)' /\ Targeted(s)'
    BY <1>1, <1>4, <1>5 DEF Sound, Passed, Dated, Captured, Targeted, On
  <1>7. Handed(s)'
    <2> SUFFICES ASSUME hook'[s].pc = "maxTimer", Same(s), file[s].pending > 0
                 PROVE  file'[s].first = (Counted(s).first)'
      BY <1>1, <1>4 DEF Handed
    <2>1. (Counted(s).first)' = Counted(s).first
      BY DEF Counted, Opens, WasEmpty, Same
    <2>2. QED
      BY <1>1, <1>5, <2>1 DEF Sound, Handed
  <1>8. Timed(s)'
    BY <1>1, <1>3, <1>4, <1>5 DEF Sound, Timed, Arming, Timer
  <1>9. \A d \in Sessions : Sound(d)'
    BY <1>1, <1>3, <1>4, <1>6, <1>7, <1>8, ElsewhereSound DEF Sound, On
  <1>10. \A d \in Sessions : file'[d].cursor <= file[d].cursor
    BY <1>1, CursorsStay
  <1>11. QED
    BY <1>1, <1>3, <1>4, <1>9, <1>10, TypesAre, Assembles

LEMMA ArmMaxKeeps ==
    ASSUME IInv, NEW s \in Sessions, ArmMax(s)
    PROVE  IInv'
  <1>1. /\ hook[s].pc = "maxTimer" /\ Spawn(s, "first", Counted(s).first) /\ Exit(s)
        /\ UNCHANGED <<written, file, server, active, clock, faults, blind, fault>>
    BY DEF ArmMax, At
  <1>2. Counted(s).first \in Nat
    BY SessionIs DEF Counted
  <1>3. /\ watchers \subseteq watchers' /\ watchers' \subseteq Watcher
        /\ \E w \in watchers' : w.of = s /\ w.field = "first" /\ w.value = Counted(s).first
    BY <1>1, <1>2, SpawnIs
  <1>4. hook' \in [Sessions -> Hook] /\ hook'[s].pc = "idle" /\ Others(s)
    BY <1>1, ExitIs
  <1>5. Sound(s)
    BY SessionIs
  <1>6. Passed(s)' /\ Dated(s)' /\ Captured(s)' /\ Handed(s)' /\ Targeted(s)'
    BY <1>1, <1>4, <1>5 DEF Sound, Passed, Dated, Captured, Handed, Targeted, On
  <1>7. Timed(s)'
    BY <1>1, <1>3, <1>5 DEF Sound, Timed, Handed, Timer
  <1>8. \A d \in Sessions : Sound(d)'
    BY <1>1, <1>3, <1>4, <1>6, <1>7, ElsewhereSound DEF Sound, On
  <1>9. \A d \in Sessions : file'[d].cursor <= file[d].cursor
    BY <1>1, CursorsStay
  <1>10. QED
    BY <1>1, <1>3, <1>4, <1>8, <1>9, TypesAre, Assembles

LEMMA CountEndKeeps ==
    ASSUME IInv, NEW s \in Sessions, CountEnd(s)
    PROVE  IInv'
  <1>1. /\ hook[s].pc = "added" /\ Goto(s, "seal")
        /\ file' = [file EXCEPT ![s].cursor = hook[s].upto]
        /\ UNCHANGED <<written, watchers, server, active, clock, faults, blind, fault>>
    BY DEF CountEnd, At
  <1>2. /\ file' \in [Sessions -> State]
        /\ file'[s].cursor = hook[s].upto /\ file'[s].pending = file[s].pending
        /\ file'[s].first = file[s].first
        /\ \A d \in Sessions \ {s} : file'[d] = file[d]
    <2>1. file \in [Sessions -> State] /\ file[s] \in State /\ hook[s].upto \in Nat
      BY TypesAre, SessionIs
    <2>2. [file[s] EXCEPT !.cursor = hook[s].upto] \in State
      BY <2>1 DEF State
    <2>3. file' = [file EXCEPT ![s] = [file[s] EXCEPT !.cursor = hook[s].upto]]
      BY <1>1, <2>1
    <2>4. QED
      BY <2>1, <2>2, <2>3 DEF State
  <1>3. hook' \in [Sessions -> Hook] /\ hook'[s].pc = "seal" /\ Others(s)
    BY <1>1, GotoIs DEF Phase
  <1>4. Sound(s)
    BY SessionIs
  <1>5. Passed(s)'
    BY <1>1, <1>2, PassesOn DEF Passed, On
  <1>6. Dated(s)' /\ Captured(s)' /\ Handed(s)' /\ Targeted(s)'
    BY <1>2, <1>3, <1>4 DEF Sound, Dated, Captured, Handed, Targeted
  <1>7. Timed(s)'
    BY <1>1, <1>2, <1>4 DEF Sound, Timed, Arming, Timer
  <1>8. \A d \in Sessions : Sound(d)'
    BY <1>1, <1>2, <1>3, <1>5, <1>6, <1>7, ElsewhereSound DEF Sound, On
  <1>9. ASSUME NEW d \in Sessions
        PROVE  file'[d].cursor <= written'[d] /\ written'[d] <= Lines[d]
    <2>1. CASE d = s
      BY <1>1, <1>2, <1>4, <2>1, SessionIs DEF Sound, Captured
    <2>2. CASE d # s
      BY <1>1, <1>2, <2>2, SessionIs
    <2>3. QED
      BY <2>1, <2>2
  <1>10. TypeOK'
    BY <1>1, <1>2, <1>3, <1>9, TypesAre DEF TypeOK
  <1>11. QED
    BY <1>8, <1>10 DEF IInv

LEMMA SealKeeps ==
    ASSUME IInv, NEW s \in Sessions, Seal(s)
    PROVE  IInv'
  <1>1. /\ hook[s].pc = "seal" /\ (Flushed(s) \/ UNCHANGED server) /\ Goto(s, "gone")
        /\ UNCHANGED <<faults, fault>> \/ Fails(s)
        /\ UNCHANGED <<written, file, watchers, active, clock, blind>>
    BY DEF Seal, LosesFlush, At
  <1>2. /\ server' \in [Sessions -> [buffer : SUBSET Nat, folded : SUBSET Nat]]
        /\ \A d \in Sessions : On(d)' = On(d)
    BY <1>1, FlushedIs
  <1>3. /\ hook' \in [Sessions -> Hook] /\ Others(s) /\ hook'[s].pc = "gone"
        /\ faults' \in 0..MaxFaults /\ fault' \in [Sessions -> BOOLEAN]
        /\ \A d \in Sessions : fault[d] => fault'[d]
    BY <1>1, GotoIs, FailsIs, TypesAre DEF Phase
  <1>4. Sound(s)'
    BY <1>1, <1>2, <1>3, Settles DEF Timer
  <1>5. \A d \in Sessions : Sound(d)'
    BY <1>1, <1>2, <1>3, <1>4, ElsewhereSound
  <1>6. \A d \in Sessions : file'[d].cursor <= file[d].cursor
    BY <1>1, CursorsStay
  <1>7. QED
    BY <1>1, <1>2, <1>3, <1>5, <1>6, TypesAre, Assembles

LEMMA DeleteStateKeeps ==
    ASSUME IInv, NEW s \in Sessions, DeleteState(s)
    PROVE  IInv'
  <1>1. /\ file' = [file EXCEPT ![s] = DEFAULT_STATE]
        /\ hook' = [hook EXCEPT ![s] = [Idle EXCEPT !.pc = "ended"]]
        /\ UNCHANGED <<written, watchers, server, active, clock, faults, blind, fault>>
    BY DEF DeleteState
  <1>2. [Idle EXCEPT !.pc = "ended"] \in Hook /\ [Idle EXCEPT !.pc = "ended"].pc = "ended"
    BY IdleIs DEF Hook, Phase
  <1>3. hook' \in [Sessions -> Hook] /\ hook'[s].pc = "ended" /\ Others(s)
    BY <1>1, <1>2, HookGoes
  <1>4. /\ file' \in [Sessions -> State] /\ file'[s].cursor = 0 /\ file'[s].pending = 0
        /\ \A d \in Sessions \ {s} : file'[d] = file[d]
    BY <1>1, IdleIs, TypesAre
  <1>5. Passed(s)'
    BY <1>4 DEF Passed
  <1>6. Dated(s)' /\ Captured(s)' /\ Handed(s)' /\ Targeted(s)' /\ Timed(s)'
    BY <1>3, <1>4 DEF Dated, Captured, Handed, Targeted, Timed
  <1>7. \A d \in Sessions : Sound(d)'
    BY <1>1, <1>3, <1>4, <1>5, <1>6, ElsewhereSound DEF Sound, On
  <1>8. \A d \in Sessions : file'[d].cursor <= file[d].cursor
    BY <1>4, SessionIs
  <1>9. QED
    BY <1>1, <1>3, <1>4, <1>7, <1>8, TypesAre, Assembles

LEMMA KillKeeps ==
    ASSUME IInv, NEW s \in Sessions, Kill(s)
    PROVE  IInv'
  <1> DEFINE new == [Idle EXCEPT !.pc = IF hook[s].end THEN "ended" ELSE "idle"]
  <1>1. /\ Fails(s) /\ hook' = [hook EXCEPT ![s] = new]
        /\ \/ blind' = [blind EXCEPT ![s] = @ \cup hook[s].items]
           \/ blind' = blind
        /\ UNCHANGED <<written, file, watchers, server, active, clock>>
    BY DEF Kill
  <1>2. new \in Hook /\ new.pc \in {"ended", "idle"}
    BY IdleIs DEF Hook, Phase
  <1>3. hook' \in [Sessions -> Hook] /\ hook'[s].pc \in {"ended", "idle"} /\ Others(s)
    BY <1>1, <1>2, HookGoes
  <1>4. /\ faults' \in 0..MaxFaults /\ fault' \in [Sessions -> BOOLEAN]
        /\ fault'[s] /\ \A d \in Sessions : fault[d] => fault'[d]
    BY <1>1, FailsIs
  <1>5. Sound(s)'
    BY <1>1, <1>3, <1>4, Settles DEF Timer, On
  <1>6. \A d \in Sessions : Sound(d)'
    BY <1>1, <1>3, <1>4, <1>5, ElsewhereSound DEF On
  <1>7. blind' \in [Sessions -> SUBSET Nat] /\ \A d \in Sessions : file'[d].cursor <= file[d].cursor
    BY <1>1, BlindIs, CursorsStay
  <1>8. QED
    BY <1>1, <1>3, <1>4, <1>6, <1>7, TypesAre, Assembles

LEMMA Next1Is ==
    ASSUME IInv, NEW s \in Sessions, NEW t, Next1(s, t)
    PROVE  hook' \in [Sessions -> Hook] /\ hook'[s].pc \in {"idle", "switch"} /\ Others(s)
  <1> DEFINE todo == hook[s].todo \ {t}
             new == [Idle EXCEPT !.pc = "switch", !.todo = todo]
  <1>1. todo \in SUBSET Sessions
    BY SessionIs
  <1>2. Exit(s) \/ hook' = [hook EXCEPT ![s] = new]
    BY DEF Next1
  <1> HIDE DEF todo
  <1>3. new \in Hook /\ new.pc = "switch"
    BY <1>1, IdleIs DEF Hook, Phase
  <1>4. QED
    BY <1>2, <1>3, ExitIs, HookGoes

LEMMA SwitchFlushKeeps ==
    ASSUME IInv, NEW s \in Sessions, SwitchFlush(s)
    PROVE  IInv'
  <1>1. PICK t \in hook[s].todo :
          /\ hook[s].pc = "switch" /\ (Flushed(t) \/ UNCHANGED server)
          /\ \/ /\ hook' = [hook EXCEPT ![s].pc = "switched", ![s].target = t]
                /\ UNCHANGED <<faults, fault>>
             \/ Fails(t) /\ Next1(s, t)
          /\ UNCHANGED <<written, file, watchers, active, clock, blind>>
    BY DEF SwitchFlush, LosesFlush, At
  <1>2. t \in Sessions
    BY SessionIs
  <1>3. /\ server' \in [Sessions -> [buffer : SUBSET Nat, folded : SUBSET Nat]]
        /\ \A d \in Sessions : On(d)' = On(d)
    BY <1>1, <1>2, FlushedIs
  <1>4. ASSUME hook' = [hook EXCEPT ![s].pc = "switched", ![s].target = t]
        PROVE  /\ hook' \in [Sessions -> Hook] /\ Others(s)
               /\ hook'[s].pc = "switched" /\ hook'[s].target = t
    <2>1. hook[s] \in Hook
      BY SessionIs
    <2>2. [hook[s] EXCEPT !.pc = "switched", !.target = t] \in Hook
      BY <1>2, <2>1 DEF Hook, Phase
    <2>3. hook' = [hook EXCEPT ![s] = [hook[s] EXCEPT !.pc = "switched", !.target = t]]
      BY <1>4, TypesAre
    <2>4. hook' \in [Sessions -> Hook] /\ Others(s)
          /\ hook'[s] = [hook[s] EXCEPT !.pc = "switched", !.target = t]
      BY <2>2, <2>3, HookGoes
    <2>5. QED
      BY <2>1, <2>4 DEF Hook
  <1>5. /\ hook' \in [Sessions -> Hook] /\ Others(s)
        /\ \/ hook'[s].pc = "switched" /\ hook'[s].target = t
           \/ hook'[s].pc \in {"idle", "switch"}
        /\ faults' \in 0..MaxFaults /\ fault' \in [Sessions -> BOOLEAN]
        /\ \A d \in Sessions : fault[d] => fault'[d]
    BY <1>1, <1>2, <1>4, Next1Is, FailsIs, TypesAre
  <1>6. Sound(s)'
    BY <1>1, <1>2, <1>3, <1>5, Settles DEF Timer
  <1>7. \A d \in Sessions : Sound(d)'
    BY <1>1, <1>3, <1>5, <1>6, ElsewhereSound
  <1>8. \A d \in Sessions : file'[d].cursor <= file[d].cursor
    BY <1>1, CursorsStay
  <1>9. QED
    BY <1>1, <1>3, <1>5, <1>7, <1>8, TypesAre, Assembles

LEMMA SwitchResetKeeps ==
    ASSUME IInv, NEW s \in Sessions, SwitchReset(s)
    PROVE  IInv'
  <1>1. PICK t \in Sessions : t = hook[s].target
    BY SessionIs DEF SwitchReset, At, Sound, Targeted
  <1>2. /\ hook[s].pc = "switched" /\ Reset(t) /\ Next1(s, t)
        /\ UNCHANGED <<written, watchers, server, active, clock, faults, blind, fault>>
    BY <1>1 DEF SwitchReset, At
  <1>3. /\ file' \in [Sessions -> State]
        /\ file'[t].pending = 0 /\ file'[t].cursor = file[t].cursor
        /\ \A d \in Sessions \ {t} : file'[d] = file[d]
    BY <1>2, ResetIs
  <1>4. hook' \in [Sessions -> Hook] /\ hook'[s].pc \in {"idle", "switch"} /\ Others(s)
    BY <1>2, Next1Is
  <1>5. ASSUME NEW d \in Sessions PROVE Sound(d)'
    <2>1. CASE d = t
      BY <1>2, <1>3, <1>4, <2>1, AfterReset DEF Others, On
    <2>2. CASE d # t /\ d = s
      BY <1>2, <1>3, <1>4, <2>2, Settles DEF Timer, On
    <2>3. CASE d # t /\ d # s
      <3>1. Keeps(d)
        BY <1>2, <1>3, <1>4, <2>3, SessionIs DEF Keeps, Others, Timer, On
      <3>2. QED
        BY <3>1, KeepsSound
    <2>4. QED
      BY <2>1, <2>2, <2>3
  <1>6. \A d \in Sessions : file'[d].cursor <= file[d].cursor
    BY <1>3, CursorsStay
  <1>7. QED
    BY <1>2, <1>3, <1>4, <1>5, <1>6, TypesAre, Assembles

-----------------------------------------------------------------------------
(* The watchers *)

LEMMA WatcherIs ==
    ASSUME IInv, NEW w \in watchers
    PROVE  /\ w \in Watcher /\ w.of \in Sessions
           /\ \A pc \in {"asleep", "awake", "flushed"} :
                 /\ [w EXCEPT !.pc = pc] \in Watcher
                 /\ [w EXCEPT !.pc = pc].of = w.of
                 /\ [w EXCEPT !.pc = pc].field = w.field
                 /\ [w EXCEPT !.pc = pc].value = w.value
  <1>1. w \in Watcher
    BY TypesAre
  <1>2. QED
    BY <1>1 DEF Watcher

\* A watcher that goes on stands for the timer it stood for.
LEMMA MovesOn ==
    ASSUME IInv, NEW w \in watchers, NEW pc \in {"asleep", "awake", "flushed"},
           watchers' = (watchers \ {w}) \cup {[w EXCEPT !.pc = pc]}, UNCHANGED file
    PROVE  /\ watchers' \subseteq Watcher
           /\ \A d \in Sessions : Timer(d) => Timer(d)'
  <1> DEFINE v == [w EXCEPT !.pc = pc]
  <1>1. /\ v \in Watcher /\ v.of = w.of /\ v.field = w.field /\ v.value = w.value
    BY WatcherIs
  <1>2. watchers' = (watchers \ {w}) \cup {v}
    OBVIOUS
  <1> HIDE DEF v
  <1>3. QED
    BY <1>1, <1>2, TypesAre DEF Timer

\* Steps of a watcher that leave the hooks and the files.
LEMMA WatcherFrame ==
    ASSUME IInv, UNCHANGED <<written, file, hook, active, clock, blind>>,
           watchers' \subseteq Watcher,
           server' \in [Sessions -> [buffer : SUBSET Nat, folded : SUBSET Nat]],
           \A d \in Sessions : On(d)' = On(d),
           faults' \in 0..MaxFaults, fault' \in [Sessions -> BOOLEAN],
           \A d \in Sessions : fault[d] => fault'[d],
           \A d \in Sessions : file[d].pending > 0 /\ ~fault'[d] /\ Timer(d) => Timer(d)'
    PROVE  IInv'
  <1>1. \A d \in Sessions : Keeps(d)
    BY SessionIs DEF Keeps
  <1>2. \A d \in Sessions : Sound(d)'
    BY <1>1, KeepsSound
  <1>3. \A d \in Sessions : file'[d].cursor <= file[d].cursor
    BY CursorsStay
  <1>4. QED
    BY <1>2, <1>3, TypesAre, Assembles

LEMMA WakesKeeps ==
    ASSUME IInv, NEW w \in watchers, Wakes(w)
    PROVE  IInv'
  <1>1. /\ \/ (Stale(w) \/ file[w.of].pending = 0) /\ watchers' = watchers \ {w}
           \/ watchers' = (watchers \ {w}) \cup {[w EXCEPT !.pc = "awake"]}
        /\ UNCHANGED <<written, file, hook, server, active, clock, faults, blind, fault>>
    BY DEF Wakes
  <1>2. CASE watchers' = (watchers \ {w}) \cup {[w EXCEPT !.pc = "awake"]}
    <2>1. watchers' \subseteq Watcher /\ \A d \in Sessions : Timer(d) => Timer(d)'
      BY <1>1, <1>2, MovesOn
    <2>2. QED
      BY <1>1, <2>1, TypesAre, WatcherFrame DEF On
  <1>3. CASE (Stale(w) \/ file[w.of].pending = 0) /\ watchers' = watchers \ {w}
    <2>1. watchers' \subseteq Watcher
      BY <1>3, TypesAre
    <2>2. ASSUME NEW d \in Sessions, file[d].pending > 0, Timer(d)
          PROVE  Timer(d)'
      <3>1. PICK v \in watchers : v.of = d /\ v.field = "first" /\ v.value = file[d].first
        BY <2>2 DEF Timer
      <3>2. file[d].first > 0 /\ file[d].first \in Nat /\ file[d].pending \in Nat
        BY <2>2, SessionIs DEF Sound, Dated
      <3>3. v # w
        BY <1>3, <2>2, <3>1, <3>2 DEF Stale
      <3>4. QED
        BY <1>1, <1>3, <3>1, <3>3 DEF Timer
    <2>3. QED
      BY <1>1, <2>1, <2>2, TypesAre, WatcherFrame DEF On
  <1>4. QED
    BY <1>1, <1>2, <1>3

LEMMA WatcherFlushKeeps ==
    ASSUME IInv, NEW w \in watchers, WatcherFlush(w)
    PROVE  IInv'
  <1>1. /\ Flushed(w.of) \/ UNCHANGED server
        /\ \/ /\ watchers' = (watchers \ {w}) \cup {[w EXCEPT !.pc = "flushed"]}
              /\ UNCHANGED <<faults, fault>>
           \/ Fails(w.of) /\ watchers' = watchers \ {w}
        /\ UNCHANGED <<written, file, hook, active, clock, blind>>
    BY DEF WatcherFlush, LosesFlush
  <1>2. w.of \in Sessions
    BY WatcherIs
  <1>3. /\ server' \in [Sessions -> [buffer : SUBSET Nat, folded : SUBSET Nat]]
        /\ \A d \in Sessions : On(d)' = On(d)
    BY <1>1, <1>2, FlushedIs
  <1>4. CASE /\ watchers' = (watchers \ {w}) \cup {[w EXCEPT !.pc = "flushed"]}
             /\ UNCHANGED <<faults, fault>>
    <2>1. watchers' \subseteq Watcher /\ \A d \in Sessions : Timer(d) => Timer(d)'
      BY <1>1, <1>4, MovesOn
    <2>2. QED
      BY <1>1, <1>3, <1>4, <2>1, TypesAre, WatcherFrame
  <1>5. CASE Fails(w.of) /\ watchers' = watchers \ {w}
    <2>1. /\ faults' \in 0..MaxFaults /\ fault' \in [Sessions -> BOOLEAN]
          /\ fault'[w.of] /\ \A d \in Sessions : fault[d] => fault'[d]
      BY <1>2, <1>5, FailsIs
    <2>2. watchers' \subseteq Watcher
      BY <1>5, TypesAre
    <2>3. \A d \in Sessions : ~fault'[d] /\ Timer(d) => Timer(d)'
      BY <1>1, <1>5, <2>1 DEF Timer
    <2>4. QED
      BY <1>1, <1>3, <2>1, <2>2, <2>3, WatcherFrame
  <1>6. QED
    BY <1>1, <1>4, <1>5

LEMMA WatcherResetKeeps ==
    ASSUME IInv, NEW w \in watchers, WatcherReset(w)
    PROVE  IInv'
  <1>1. /\ Reset(w.of) /\ watchers' = watchers \ {w}
        /\ UNCHANGED <<written, hook, server, active, clock, faults, blind, fault>>
    BY DEF WatcherReset
  <1>2. w.of \in Sessions
    BY WatcherIs
  <1>3. /\ file' \in [Sessions -> State]
        /\ file'[w.of].pending = 0 /\ file'[w.of].cursor = file[w.of].cursor
        /\ \A d \in Sessions \ {w.of} : file'[d] = file[d]
    BY <1>1, <1>2, ResetIs
  <1>4. ASSUME NEW d \in Sessions PROVE Sound(d)'
    <2>1. CASE d = w.of
      BY <1>1, <1>3, <2>1, AfterReset DEF On
    <2>2. CASE d # w.of
      <3>1. Timer(d) => Timer(d)'
        BY <1>1, <1>3, <2>2 DEF Timer
      <3>2. Keeps(d)
        BY <1>1, <1>3, <2>2, <3>1, SessionIs DEF Keeps, On
      <3>3. QED
        BY <3>2, KeepsSound
    <2>3. QED
      BY <2>1, <2>2
  <1>5. watchers' \subseteq Watcher /\ \A d \in Sessions : file'[d].cursor <= file[d].cursor
    BY <1>1, <1>3, TypesAre, CursorsStay
  <1>6. QED
    BY <1>1, <1>3, <1>4, <1>5, TypesAre, Assembles

-----------------------------------------------------------------------------
(* The invariant holds *)

LEMMA Starting == Init => IInv
  <1> SUFFICES ASSUME Init PROVE IInv
    OBVIOUS
  <1>1. /\ written = [s \in Sessions |-> 0] /\ file = [s \in Sessions |-> DEFAULT_STATE]
        /\ hook = [s \in Sessions |-> Idle] /\ watchers = {}
        /\ server = [s \in Sessions |-> [buffer |-> {}, folded |-> {}]]
        /\ active = None /\ clock = [s \in Sessions |-> 0] /\ faults = 0
        /\ blind = [s \in Sessions |-> {}] /\ fault = [s \in Sessions |-> FALSE]
    BY DEF Init
  <1>2. ASSUME NEW s \in Sessions
        PROVE  /\ file[s].cursor = 0 /\ file[s].pending = 0 /\ hook[s].pc = "idle"
               /\ written[s] = 0 /\ Lines[s] \in Nat
    BY <1>1, IdleIs, FlushAssumption
  <1>3. file \in [Sessions -> State] /\ hook \in [Sessions -> Hook]
    BY <1>1, IdleIs
  <1>4. server \in [Sessions -> [buffer : SUBSET Nat, folded : SUBSET Nat]]
    BY <1>1
  <1>5. TypeOK
    BY <1>1, <1>2, <1>3, <1>4, FlushAssumption DEF TypeOK
  <1>6. ASSUME NEW s \in Sessions PROVE Sound(s)
    BY <1>2 DEF Sound, Passed, Dated, Captured, Handed, Timed, Targeted
  <1>7. QED
    BY <1>5, <1>6 DEF IInv

LEMMA Stuttering ==
    ASSUME IInv, UNCHANGED vars
    PROVE  IInv'
  <1>1. UNCHANGED <<written, file, hook, watchers, server, active, clock, faults, blind, fault>>
    BY DEF vars
  <1>2. QED
    BY <1>1, TypesAre, WatcherFrame DEF On, Timer

LEMMA Stepping == IInv /\ [Next]_vars => IInv'
  <1> SUFFICES ASSUME IInv, [Next]_vars PROVE IInv'
    OBVIOUS
  <1>1. CASE UNCHANGED vars
    BY <1>1, Stuttering
  <1>2. ASSUME NEW s \in Sessions, Write(s) \/ StartStop(s) \/ StartEnd(s) \/ Prompt(s)
        PROVE  IInv'
    BY <1>2, WriteKeeps, StartStopKeeps, StartEndKeeps, PromptKeeps
  <1>3. ASSUME NEW s \in Sessions, HookStep(s)
        PROVE  IInv'
    BY <1>3, AddKeeps, AddFailsKeeps, CountKeeps, FlushFullKeeps, ResetFullKeeps,
       ArmIdleKeeps, ArmMaxKeeps, CountEndKeeps, SealKeeps, DeleteStateKeeps,
       SwitchFlushKeeps, SwitchResetKeeps DEF HookStep
  <1>4. ASSUME NEW s \in Sessions, Kill(s)
        PROVE  IInv'
    BY <1>4, KillKeeps
  <1>5. ASSUME NEW w \in watchers, WatcherStep(w)
        PROVE  IInv'
    BY <1>5, WakesKeeps, WatcherFlushKeeps, WatcherResetKeeps DEF WatcherStep
  <1>6. QED
    BY <1>1, <1>2, <1>3, <1>4, <1>5 DEF Next

LEMMA Always == Spec => []IInv
  <1>1. Init => IInv
    BY Starting
  <1>2. IInv /\ [Next]_vars => IInv'
    BY Stepping
  <1>3. QED
    BY <1>1, <1>2, PTL DEF Spec

\* Every variable keeps its type, and no cursor passes the end of its transcript,
\* whichever hooks and watchers run, fail or are killed (src/hooks).
THEOREM TypeCorrect == Spec => []TypeOK
  <1>1. IInv => TypeOK
    BY DEF IInv
  <1>2. QED
    BY <1>1, Always, PTL

\* A line the cursor has passed is on the server: the state file is written after
\* client.add answered, and by the hooks of its session alone.
THEOREM SkippedCorrect == Spec => []NothingSkipped
  <1>1. IInv => NothingSkipped
    BY DEF IInv, Sound, Passed, On, NothingSkipped
  <1>2. QED
    BY <1>1, Always, PTL

\* An open window has its max-delay watcher: the hook that opens it hands the birth date
\* to the watcher, and the watcher leaves only after the window it was armed for.
THEOREM TimerCorrect == Spec => []OpenWindowHasMaxTimer
  <1>1. IInv => OpenWindowHasMaxTimer
    BY DEF IInv, Sound, Timed, Arming, Timer, OpenWindowHasMaxTimer, At
  <1>2. QED
    BY <1>1, Always, PTL
=============================================================================
