-------------------------------- MODULE Alerts --------------------------------
(***************************************************************************)
(* notifications/ntfy.py: what the operator hears of one run after another.*)
(*                                                                         *)
(* Each call makes an AlertManager of its own, which loads the state file  *)
(* (the count of consecutive failures, and when each alert was last sent). *)
(* evaluate() counts, fires the alert of a transition and saves the state; *)
(* fire_critical() only fires.  A message may be lost, and so may the      *)
(* answer to one that has arrived.  The save opens the file, which empties *)
(* it, and then writes: a process that dies in between, or a full disk,    *)
(* leaves a file that is read as no failure and no alert.                  *)
(*                                                                         *)
(* The calls come from run_sync, under the lock (SyncLock.tla), so that    *)
(* they do not overlap.  Times are kept as ages, in ticks.                 *)
(***************************************************************************)
EXTENDS Integers

CONSTANTS
  MinPriority,  \* ntfy_min_priority
  Cooldown,     \* ntfy_cooldown_hours, in ticks; ages end there
  Many          \* bound: failures are counted up to here; the code tests 0, 1, 2

ASSUME MinPriorityAssumption == MinPriority \in 1 .. 5
ASSUME CooldownAssumption    == Cooldown \in Nat \ {0}
ASSUME ManyAssumption        == Many \in Nat /\ Many >= 2

VARIABLES
  file,     \* alerts.json
  pc,       \* where the AlertManager is
  mem,      \* its state
  event,    \* the alert it is about to send
  streak,   \* history: failed runs since the last success
  since,    \* history: age of the last message of each kind that arrived
  told,     \* history: transitions the operator heard of since the last success
  belief,   \* history: what the operator takes the state of the sync to be
  missed,   \* history: the last transition did not reach the operator
  unsaved   \* history: what the file has lost

vars == <<file, pc, mem, event, streak, since, told, belief, missed, unsaved>>
history == <<streak, since, told, belief, missed, unsaved>>

Transitions == {"sync_failing", "sync_repeatedly_failing", "sync_recovered"}
Critical    == "mobile_api_key_revoked"
Kinds       == Transitions \cup {Critical}
Silence     == "none"

Priority ==
  [k \in Kinds |-> CASE k = "sync_failing"   -> 3
                     [] k = "sync_recovered" -> 2
                     [] OTHER                -> 5]

IgnoresCooldown == {"sync_recovered"}

Ages   == 0 .. Cooldown
Counts == 0 .. Many
States == [fails : Counts, sent : [Kinds -> Ages]]

\* Never sent is as good as sent long ago.
NewState == [fails |-> 0, sent |-> [k \in Kinds |-> Cooldown]]

\* A file that is missing or not JSON, and _load_state.
Broken  == [fails |-> 0, sent |-> [k \in Kinds |-> Cooldown], broken |-> TRUE]

Load(f) == IF f = Broken THEN NewState ELSE f

\* The shape of the alert state on disk and in memory, and of the histories.
TypeOK ==
  /\ file \in States \cup {Broken}
  /\ pc \in {"idle", "fire", "fire_critical", "save", "write"}
  /\ mem \in States
  /\ event \in Kinds \cup {Silence}
  /\ streak \in Counts
  /\ since \in [Kinds -> Ages]
  /\ told \in SUBSET Transitions
  /\ belief \in {"well", "failing", "failing for long"}
  /\ missed \in BOOLEAN
  /\ unsaved \in SUBSET (Kinds \cup {"count"})

Init ==
  /\ file = Broken
  /\ pc = "idle"
  /\ mem = NewState
  /\ event = Silence
  /\ streak = 0
  /\ since = [k \in Kinds |-> Cooldown]
  /\ told = {}
  /\ belief = "well"
  /\ missed = FALSE
  /\ unsaved = {}

Forget ==
  /\ mem' = NewState
  /\ event' = Silence

OneMore(n) == IF n < Many THEN n + 1 ELSE n
Older(age) == IF age < Cooldown THEN age + 1 ELSE age

-------------------------------------------------------------------------------
(* What is fired *)

\* Mutant: the alert of repeated failures is fired by every failure after the first.
AgainAndAgain(prev, new) ==
  IF prev = 0 /\ new = 1 THEN "sync_failing"
  ELSE IF 2 <= new       THEN "sync_repeatedly_failing"
  ELSE IF prev > 0 /\ new = 0 THEN "sync_recovered"
  ELSE Silence

\* Mutant: recovery is told only of repeated failures.
RecoveryOfMany(prev, new) ==
  IF prev = 0 /\ new = 1 THEN "sync_failing"
  ELSE IF prev < 2 /\ 2 <= new THEN "sync_repeatedly_failing"
  ELSE IF prev > 1 /\ new = 0  THEN "sync_recovered"
  ELSE Silence

\* The transition from one count to the next.
Transition(prev, new) ==
  IF prev = 0 /\ new = 1 THEN "sync_failing"
  ELSE IF prev < 2 /\ 2 <= new THEN "sync_repeatedly_failing"
  ELSE IF prev > 0 /\ new = 0  THEN "sync_recovered"
  ELSE Silence

\* Mutant: the cooldown is not looked at.
MaySendAnytime(k) == Priority[k] >= MinPriority

\* _fire, ahead of the sending: priority and cooldown.
MaySend(k) ==
  /\ Priority[k] >= MinPriority
  /\ k \in IgnoresCooldown \/ mem.sent[k] >= Cooldown

\* Mutant: the count is not reset by a success.
EvaluateKeepsCount(success) ==
  LET prev == Load(file).fails
      new  == IF success THEN prev ELSE OneMore(prev)
  IN  /\ pc = "idle"
      /\ mem' = [Load(file) EXCEPT !.fails = new]
      /\ event' = Transition(prev, new)
      /\ pc' = IF Transition(prev, new) = Silence THEN "save" ELSE "fire"
      /\ streak' = IF success THEN 0 ELSE OneMore(streak)
      /\ told' = IF success THEN {} ELSE told
      /\ UNCHANGED <<file, since, belief, missed, unsaved>>

\* A run is over and evaluate() is told its status; partial is no success.
Evaluate(success) ==
  LET prev == Load(file).fails
      new  == IF success THEN 0 ELSE OneMore(prev)
  IN  /\ pc = "idle"
      /\ mem' = [Load(file) EXCEPT !.fails = new]
      /\ event' = Transition(prev, new)
      /\ pc' = IF Transition(prev, new) = Silence THEN "save" ELSE "fire"
      /\ streak' = IF success THEN 0 ELSE OneMore(streak)
      /\ told' = IF success THEN {} ELSE told
      /\ UNCHANGED <<file, since, belief, missed, unsaved>>

\* The fetch of a run met a rejected mobile key.
FireCritical ==
  /\ pc = "idle"
  /\ mem' = Load(file)
  /\ event' = Critical
  /\ pc' = "fire_critical"
  /\ UNCHANGED <<file, history>>

-------------------------------------------------------------------------------
(* _fire, _send and _stamp_sent *)

Firing == pc \in {"fire", "fire_critical"}

\* fire_critical() returns after _fire; evaluate() goes on to save.
AfterFire ==
  /\ event' = Silence
  /\ pc' = IF pc = "fire" THEN "save" ELSE "idle"

\* The message reaches the operator.
Arrives(k) ==
  /\ since' = [since EXCEPT ![k] = 0]
  /\ IF k \in Transitions
     THEN /\ told' = told \cup {k}
          /\ belief' = IF k = "sync_failing" THEN "failing"
                       ELSE IF k = "sync_repeatedly_failing" THEN "failing for long"
                       ELSE "well"
          /\ missed' = FALSE
     ELSE UNCHANGED <<told, belief, missed>>

Missed(k) ==
  /\ missed' = (missed \/ k \in Transitions)
  /\ UNCHANGED <<since, told, belief>>

\* The answer says so, and the time is stamped.  fire_critical's stamp dies with
\* its AlertManager.
Sent ==
  /\ Firing
  /\ MaySend(event)
  /\ Arrives(event)
  /\ mem' = IF pc = "fire" THEN [mem EXCEPT !.sent = [@ EXCEPT ![event] = 0]] ELSE NewState
  /\ AfterFire
  /\ UNCHANGED <<file, streak, unsaved>>

\* It arrives, but its answer is an error or comes too late: no stamp.
SentUnconfirmed ==
  /\ Firing
  /\ MaySend(event)
  /\ Arrives(event)
  /\ unsaved' = unsaved \cup {event}
  /\ mem' = IF pc = "fire" THEN mem ELSE NewState
  /\ AfterFire
  /\ UNCHANGED <<file, streak>>

\* It does not arrive, or is not sent at all.
NotSent ==
  /\ Firing
  /\ Missed(event)
  /\ mem' = IF pc = "fire" THEN mem ELSE NewState
  /\ AfterFire
  /\ UNCHANGED <<file, streak, unsaved>>

-------------------------------------------------------------------------------
(* _save_state *)

OpenFile ==
  /\ pc = "save"
  /\ file' = Broken
  /\ pc' = "write"
  /\ UNCHANGED <<mem, event, history>>

\* The state replaces what the file held; what it agrees with is lost no longer.
WriteFile ==
  /\ pc = "write"
  /\ file' = mem
  /\ pc' = "idle"
  /\ unsaved' = {u \in unsaved : IF u = "count" THEN mem.fails # streak
                                                ELSE mem.sent[u] # since[u]}
  /\ Forget
  /\ UNCHANGED <<streak, since, told, belief, missed>>

\* The process dies, or the state cannot be saved: what this evaluation has
\* counted and stamped is gone, and after the opening all the rest with it.
Lost ==
  /\ pc # "idle"
  /\ pc' = "idle"
  /\ IF pc = "fire_critical" THEN UNCHANGED <<unsaved, missed>>
     ELSE unsaved' = Kinds \cup {"count"} /\ missed' = TRUE
  /\ Forget
  /\ UNCHANGED <<file, streak, since, told, belief>>

\* Time passes between two calls; sending takes seconds, the cooldown hours.
Tick ==
  /\ pc = "idle"
  /\ file' = IF file = Broken THEN file
             ELSE [file EXCEPT !.sent = [k \in Kinds |-> Older(@[k])]]
  /\ since' = [k \in Kinds |-> Older(since[k])]
  /\ UNCHANGED <<pc, mem, event, streak, told, belief, missed, unsaved>>

Next ==
  \/ \E success \in BOOLEAN : Evaluate(success)
  \/ FireCritical
  \/ Sent \/ SentUnconfirmed \/ NotSent
  \/ OpenFile \/ WriteFile \/ Lost
  \/ Tick

Spec == Init /\ [][Next]_vars

-------------------------------------------------------------------------------
(* Properties *)

\* The count that survives from run to run (evaluate, _save_state, _load_state),
\* through files emptied, unreadable and rewritten, is that of the failed runs
\* since the last success.
CountIsStreak ==
  pc = "idle" /\ "count" \notin unsaved => Load(file).fails = streak

\* A persistent failure does not page every night: in a streak of failures each
\* transition is told once, whatever the cooldown; only a lost count repeats it.
ToldOnce ==
  [][\A k \in Transitions :
       (Sent \/ SentUnconfirmed) /\ event = k /\ "count" \notin unsaved
         => k \notin told]_vars

\* The operator's belief follows the state of the sync, unless the last alert did
\* not get through (priority, cooldown, network) or the count was lost.
OperatorKnows ==
  pc = "idle" /\ ~missed /\ "count" \notin unsaved =>
    belief = IF streak = 0 THEN "well"
             ELSE IF streak = 1 THEN "failing" ELSE "failing for long"

\* "minimum time between same-key alerts" (docs/10_sync_orchestration.md): two
\* alerts of a kind are Cooldown apart, unless the first one's stamp was lost.
FailuresKeepCooldown ==
  [][\A k \in {"sync_failing", "sync_repeatedly_failing"} :
       since'[k] = 0 /\ since[k] # 0 /\ k \notin unsaved => since[k] = Cooldown]_vars
===============================================================================
