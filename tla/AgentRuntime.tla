----------------------------- MODULE AgentRuntime -----------------------------
(***************************************************************************)
(* agent_runtime.py with agent_event.py and agent_event_store.py: the      *)
(* proactive agent turns signals of Home Assistant automations into        *)
(* events, delivers them, and takes the users' answers to them.            *)
(*                                                                         *)
(* Every handler is a task of the event loop; task[p] says where it stands *)
(* and which copy of an event it holds in memory.  One asyncio.Lock guards *)
(* finding and saving, but delivery and the physical action run outside    *)
(* it, and every save replaces the whole stored event by that copy.        *)
(***************************************************************************)
EXTENDS Naturals, FiniteSets

CONSTANTS
  Events,          \* event ids (uuid4: never given out twice)
  Keys,            \* dedupe keys
  RuleKeys,        \* keys whose rule is an automation that can be re-triggered
  Signals,         \* <<key, mode>> pairs automations signal
  Workers,         \* tasks that run side by side
  Boot,            \* the start-up task
  None,
  Life,            \* expires_seconds
  Cooldown,        \* cooldown_seconds
  Snooze,          \* how long a snooze lasts
  MaxTime,         \* bound of the clock
  MaxAnswers,      \* bound: answers given
  MaxCrashes,      \* bound: restarts of Home Assistant
  DeliveryRaces,   \* may an event change in the store while it is delivered?
  TriggerFails     \* may automation.trigger fail?

ASSUME AgentAssumption ==
  /\ IsFiniteSet(Events)
  /\ Boot \notin Workers /\ RuleKeys \subseteq Keys
  /\ Life \in Nat /\ Cooldown \in Nat /\ Snooze \in Nat \ {0}
  /\ MaxTime \in Nat /\ MaxAnswers \in Nat /\ MaxCrashes \in Nat
  /\ DeliveryRaces \in BOOLEAN /\ TriggerFails \in BOOLEAN

Modes == {"inform", "ask", "auto"}
OpenStates == {"active", "notified", "snoozed"}
States == OpenStates \cup
          {"acknowledged", "resolved", "expired", "denied", "failed"}
Tasks == Workers \cup {Boot}

Moment == 0..(MaxTime + Life + Snooze)

(* AgentEvent: tts - the message was spoken; until - snoozed_until (0: none). *)
Event == [key : Keys, mode : Modes, state : States, expires : Moment,
          upd : Moment, until : Moment, tts : BOOLEAN]

ASSUME AgentNullAssumption ==
  /\ None \notin Event /\ None \notin Events /\ None \notin Tasks
  /\ Signals \subseteq Keys \X Modes

Clicks == {"execute", "ignore", "snooze"}
Replies == {"yes", "no"}
Answers == Clicks \cup Replies
Ops == Answers \cup {"signal", "recheck", "-"}

(* Where a task stands; those of Locked hold the lock. *)
Locked == {"read", "create", "remind", "claim", "expire", "saveLocked"}
Pcs == Locked \cup {"idle", "lock", "auto", "deliver", "store", "execute",
                    "trigger", "save"}
Delivering == {"auto", "deliver", "store"}

Task == [pc : Pcs, op : Ops, id : Events \cup {None}, ev : Event \cup {None},
         at : 0..MaxTime, heard : SUBSET Events]
Idle == [pc |-> "idle", op |-> "-", id |-> None, ev |-> None, at |-> 0,
         heard |-> {}]

Reminder == [id : Events, due : Moment]

VARIABLES
  stored,     \* homeintent_agent_events.json
  reminders,  \* the one-shot automations of snoozed events
  shown,      \* the events a message of which has reached the users
  task, lock, \* the event loop
  booting,    \* async_recover: load, loop, done
  todo, snap, bootAt,  \* its loop over the events it loaded, and when
  now, answers, crashes,  \* clock and counters
  executed    \* ghost: how often an event's action was executed

loop == <<task, lock>>
boot == <<booting, todo, snap, bootAt>>
counters == <<now, answers, crashes>>
vars == <<stored, reminders, shown, loop, boot, counters, executed>>

TypeOK ==
  /\ stored \in [Events -> Event \cup {None}]
  /\ reminders \subseteq Reminder /\ shown \subseteq Events
  /\ task \in [Tasks -> Task]
  /\ lock \in Tasks \cup {None}
  /\ booting \in {"load", "loop", "done"}
  /\ todo \subseteq Events
  /\ snap \in [Events -> Event \cup {None}]
  /\ bootAt \in 0..MaxTime
  /\ now \in 0..MaxTime /\ answers \in 0..MaxAnswers
  /\ crashes \in 0..MaxCrashes
  /\ executed \in [Events -> Nat]

NoEvents == [e \in Events |-> None]

Init ==
  /\ stored = NoEvents /\ reminders = {} /\ shown = {}
  /\ task = [p \in Tasks |-> Idle] /\ lock = None
  /\ booting = "done" /\ todo = {} /\ snap = NoEvents /\ bootAt = 0
  /\ now = 0 /\ answers = 0 /\ crashes = 0
  /\ executed = [e \in Events |-> 0]

-------------------------------------------------------------------------------
(* Steps of a task *)

Known(e) == stored[e] # None
Open(x) == x # None /\ x.state \in OpenStates
Snoozed(x) == x # None /\ x.state = "snoozed"

(* An event as it is built for the next save. *)
In(x, s) == [x EXCEPT !.state = s, !.upd = now]

Become(p, t) == task' = [task EXCEPT ![p] = t]
Goto(p, to) == Become(p, [task[p] EXCEPT !.pc = to])
With(p, to, x) == Become(p, [task[p] EXCEPT !.pc = to, !.ev = x])
Release == lock' = None
Quit(p) == Become(p, Idle) /\ Release

(* async_save: the stored event is replaced by the task's copy. *)
SaveCopy(p, x) == stored' = [stored EXCEPT ![task[p].id] = x]

At(p, at) == task[p].pc = at
Reading(p, ops) == At(p, "read") /\ task[p].op \in ops

Begin(p, t) == task[p] = Idle /\ Become(p, t)

(* An ASK question that was spoken and waits for its answer at moment t. *)
Question(x, t) == /\ x # None /\ x.mode = "ask" /\ x.state = "notified"
                  /\ x.tts /\ x.expires > t

(* What somebody who speaks now may be answering: also a question that has *)
(* been spoken while its delivery is not stored yet.                       *)
Questions == {e \in Events : Question(stored[e], now)} \cup
             {task[p].id : p \in {q \in Tasks : /\ At(q, "store")
                                                /\ task[q].ev.mode = "ask"
                                                /\ task[q].ev.tts}}

BeingDelivered == {task[p].id : p \in {q \in Tasks : task[q].pc \in Delivering}}

(* Does p meet a delivery that has not been stored? *)
Overlaps(p) == \/ task[p].op \in Replies /\ BeingDelivered # {}
               \/ task[p].op \in Clicks \cup {"recheck"}
                  /\ task[p].id \in BeingDelivered

Acquire(p) ==
  /\ At(p, "lock") /\ lock = None
  /\ Overlaps(p) => DeliveryRaces
  /\ lock' = p
  /\ Goto(p, "read")
  /\ UNCHANGED <<stored, reminders, shown, boot, counters, executed>>

Save(p) ==
  /\ \/ At(p, "save") /\ UNCHANGED lock
     \/ At(p, "saveLocked") /\ Release
  /\ SaveCopy(p, task[p].ev)
  /\ Become(p, Idle)
  /\ UNCHANGED <<reminders, shown, boot, counters, executed>>

-------------------------------------------------------------------------------
(* A signal: async_signal *)

Fresh == {e \in Events : ~Known(e)}
Signalling == {p \in Tasks : task[p].op = "signal"}

(* The moment is taken before the lock is asked for. *)
StartSignal(p) ==
  /\ Cardinality(Fresh) > Cardinality(Signalling)
  /\ \E s \in Signals :
       Begin(p, [Idle EXCEPT !.pc = "lock", !.op = "signal",
                   !.ev = [key |-> s[1], mode |-> s[2], state |-> "active",
                           expires |-> now + Life, upd |-> now, until |-> 0,
                           tts |-> FALSE]])
  /\ UNCHANGED <<stored, reminders, shown, lock, boot, counters, executed>>

(* _find_duplicate: an open event of the key stands for the new signal, and *)
(* so does one that was closed a moment ago.                                *)
(* Fault: a snoozed event does not count. *)
Duplicate_NotSnoozed(x, k, at) ==
  /\ x # None /\ x.key = k /\ x.state \notin {"expired", "snoozed"}
  /\ Open(x) \/ (Cooldown # 0 /\ at < x.upd + Cooldown)
Duplicate(x, k, at) ==
  /\ x # None /\ x.key = k /\ x.state # "expired"
  /\ Open(x) \/ (Cooldown # 0 /\ at < x.upd + Cooldown)

ReadSignal(p) ==
  /\ Reading(p, {"signal"})
  /\ LET draft == task[p].ev IN
     IF \E e \in Events : Duplicate(stored[e], draft.key, draft.upd)
     THEN Quit(p)
     ELSE /\ \E e \in Fresh :
               Become(p, [task[p] EXCEPT !.pc = "create", !.id = e])
          /\ UNCHANGED lock
  /\ UNCHANGED <<stored, reminders, shown, boot, counters, executed>>

(* The event is saved, and only then the source entity is looked at, which  *)
(* may have changed or not: each look is a free choice.  AUTO is lowered to *)
(* ASK unless the policy allows the action.                                 *)
Create(p) ==
  /\ At(p, "create")
  /\ LET x == task[p].ev IN
     /\ SaveCopy(p, x)
     /\ \/ With(p, "save", In(x, "resolved"))
        \/ x.mode # "auto" /\ Goto(p, "deliver")
        \/ x.mode = "auto" /\ Goto(p, "auto")
        \/ x.mode = "auto" /\ With(p, "deliver", [x EXCEPT !.mode = "ask"])
  /\ Release
  /\ UNCHANGED <<reminders, shown, boot, counters, executed>>

Perform(e) == executed' = [executed EXCEPT ![e] = @ + 1]

(* async_execute_service_plan for AUTO; what was not executed is asked. *)
AutoExecute(p) ==
  /\ At(p, "auto")
  /\ \/ Perform(task[p].id)
        /\ With(p, "deliver", [task[p].ev EXCEPT !.state = "resolved"])
     \/ UNCHANGED executed
        /\ With(p, "deliver", [task[p].ev EXCEPT !.mode = "ask"])
  /\ UNCHANGED <<stored, reminders, shown, lock, boot, counters>>

(* async_deliver: the push, then the speech, each of which may fail. *)
Deliver(p) ==
  /\ At(p, "deliver")
  /\ \E t \in BOOLEAN : With(p, "store", [task[p].ev EXCEPT !.tts = t])
  /\ shown' = shown \cup {task[p].id}
  /\ UNCHANGED <<stored, reminders, lock, boot, counters, executed>>

(* _deliver_and_store: whatever was stored meanwhile is overwritten. *)
StoreDelivered(p) ==
  /\ At(p, "store")
  /\ LET x == task[p].ev
     IN SaveCopy(p, In(x, IF x.state = "resolved" THEN x.state ELSE "notified"))
  /\ Become(p, Idle)
  /\ UNCHANGED <<reminders, shown, lock, boot, counters, executed>>

-------------------------------------------------------------------------------
(* Answers: async_handle_notification_action, async_handle_voice_reply *)

StartAnswer(p, t) ==
  /\ answers < MaxAnswers /\ answers' = answers + 1
  /\ Begin(p, t)
  /\ UNCHANGED <<stored, reminders, shown, lock, boot, now, crashes, executed>>

StartClick(p) ==
  \E e \in shown, c \in Clicks :
    StartAnswer(p, [Idle EXCEPT !.pc = "lock", !.op = c, !.id = e])

StartVoice(p) ==
  \E r \in Replies :
    StartAnswer(p, [Idle EXCEPT !.pc = "lock", !.op = r, !.at = now,
                                !.heard = Questions])

ReadClick(p) ==
  /\ Reading(p, Clicks)
  /\ LET x == stored[task[p].id]
         c == task[p].op
     IN \/ ~Open(x) /\ Quit(p)
        \/ /\ Open(x) /\ x.expires <= now
           /\ With(p, "saveLocked", In(x, "expired")) /\ UNCHANGED lock
        \/ /\ Open(x) /\ x.expires > now
           /\ \/ c = "ignore" /\ With(p, "saveLocked", In(x, "acknowledged"))
                 /\ UNCHANGED lock
              \/ c = "snooze" /\ With(p, "remind", x) /\ UNCHANGED lock
              \/ c = "execute" /\ x.mode = "ask"
                 /\ With(p, "claim", In(x, "acknowledged")) /\ UNCHANGED lock
              \/ c = "execute" /\ x.mode # "ask" /\ Quit(p)
  /\ UNCHANGED <<stored, reminders, shown, boot, counters, executed>>

(* _async_snooze_locked: the automation first, then the event. *)
Remind(p) ==
  /\ At(p, "remind")
  /\ LET due == now + Snooze IN
     \/ /\ reminders' = reminders \cup {[id |-> task[p].id, due |-> due]}
        /\ With(p, "saveLocked", [In(task[p].ev, "snoozed") EXCEPT !.until = due])
        /\ UNCHANGED lock
     \/ UNCHANGED reminders /\ Quit(p)
  /\ UNCHANGED <<stored, shown, boot, counters, executed>>

(* Only one unique, spoken question can be answered by voice. *)
(* Fault: with several open questions any of them is taken. *)
Addressed_Any(candidates) == candidates
Addressed(candidates) ==
  IF Cardinality(candidates) = 1 THEN candidates ELSE {}

ReadVoice(p) ==
  /\ Reading(p, Replies)
  /\ LET addressed == Addressed({e \in Events : Question(stored[e], task[p].at)}) IN
     IF addressed = {} THEN Quit(p)
     ELSE /\ \E e \in addressed :
               Become(p, [task[p] EXCEPT !.pc = "claim", !.id = e, !.at = 0,
                            !.ev = [stored[e] EXCEPT !.state = "acknowledged",
                                                     !.upd = task[p].at]])
          /\ UNCHANGED lock
  /\ UNCHANGED <<stored, reminders, shown, boot, counters, executed>>

(* The event is claimed before anything physical happens. *)
(* Fault: the action is executed without the claim being saved. *)
Claim_Unsaved(p) ==
  /\ At(p, "claim")
  /\ IF task[p].op = "no" THEN Become(p, Idle) ELSE Goto(p, "execute")
  /\ Release
  /\ UNCHANGED <<stored, reminders, shown, boot, counters, executed>>
Claim(p) ==
  /\ At(p, "claim")
  /\ SaveCopy(p, task[p].ev)
  /\ IF task[p].op = "no" THEN Become(p, Idle) ELSE Goto(p, "execute")
  /\ Release
  /\ UNCHANGED <<reminders, shown, boot, counters, executed>>

(* _async_execute_claimed: source, policy, the service call. *)
Execute(p) ==
  /\ At(p, "execute")
  /\ LET x == task[p].ev IN
     \/ Perform(task[p].id) /\ With(p, "save", In(x, "resolved"))
     \/ /\ \E s \in {"resolved", "denied", "failed"} : With(p, "save", In(x, s))
        /\ UNCHANGED executed
  /\ UNCHANGED <<stored, reminders, shown, lock, boot, counters>>

-------------------------------------------------------------------------------
(* A snooze is over: async_recheck *)

(* Fault: the id of the event is not passed on. *)
Recheck_NoId(e) == [Idle EXCEPT !.pc = "lock", !.op = "recheck", !.ev = e]
Recheck(e) == [Idle EXCEPT !.pc = "lock", !.op = "recheck", !.id = e]

(* The reminder automation fires once and deletes itself. *)
Fire(p) ==
  /\ \E r \in reminders : /\ r.due <= now
                          /\ reminders' = reminders \ {r}
                          /\ Begin(p, Recheck(r.id))
  /\ UNCHANGED <<stored, shown, lock, boot, counters, executed>>

ReadRecheck(p) ==
  /\ Reading(p, {"recheck"})
  /\ LET x == stored[task[p].id]
     IN \/ ~Snoozed(x) /\ Quit(p)
        \/ /\ Snoozed(x)
           /\ With(p, "saveLocked", In(x, "resolved")) /\ UNCHANGED lock
        \/ /\ Snoozed(x) /\ x.key \in RuleKeys
           /\ With(p, "expire", x) /\ UNCHANGED lock
        \/ /\ Snoozed(x) /\ x.key \notin RuleKeys
           /\ With(p, "deliver", [In(x, "active") EXCEPT !.until = 0])
           /\ Release
  /\ UNCHANGED <<stored, reminders, shown, boot, counters, executed>>

(* The old event makes room for the one its automation may signal now. *)
Expire(p) ==
  /\ At(p, "expire")
  /\ SaveCopy(p, [In(task[p].ev, "expired") EXCEPT !.until = 0])
  /\ Goto(p, "trigger")
  /\ Release
  /\ UNCHANGED <<reminders, shown, boot, counters, executed>>

(* automation.trigger: the signal it leads to is a task of its own; a      *)
(* failure puts the old event back.                                        *)
Trigger(p) ==
  /\ At(p, "trigger")
  /\ \/ Become(p, Idle)
     \/ TriggerFails /\ With(p, "save", In(task[p].ev, "snoozed"))
  /\ UNCHANGED <<stored, reminders, shown, lock, boot, counters, executed>>

-------------------------------------------------------------------------------
(* Start-up: async_recover, without the lock, over the events it loaded *)

Restart ==
  /\ crashes < MaxCrashes /\ crashes' = crashes + 1
  /\ task' = [p \in Tasks |-> Idle] /\ lock' = None
  /\ booting' = "load" /\ todo' = {} /\ snap' = NoEvents
  /\ reminders' = {r \in reminders : r.due > now}
  /\ UNCHANGED <<stored, shown, bootAt, now, answers, executed>>

RecoverLoad ==
  /\ booting = "load"
  /\ booting' = "loop" /\ snap' = stored /\ bootAt' = now
  /\ todo' = {e \in Events : Known(e)}
  /\ UNCHANGED <<stored, reminders, shown, loop, counters, executed>>

Overdue(x) == x.state = "snoozed" /\ x.until <= bootAt
(* Fault: a snooze that ended while Home Assistant was down is forgotten. *)
Resumes_Never(x) == FALSE
Resumes(x) == x.expires > bootAt /\ Overdue(x)

Outdated(x) == x.expires <= bootAt /\ x.state \notin {"resolved", "expired"}

RecoverOne(e) ==
  /\ booting = "loop" /\ e \in todo /\ task[Boot] = Idle
  /\ Outdated(snap[e]) /\ e \in BeingDelivered => DeliveryRaces
  /\ todo' = todo \ {e}
  /\ stored' = IF Outdated(snap[e])
               THEN [stored EXCEPT ![e] = [snap[e] EXCEPT !.state = "expired",
                                                          !.upd = bootAt]]
               ELSE stored
  /\ IF Resumes(snap[e]) THEN Become(Boot, Recheck(e)) ELSE UNCHANGED task
  /\ UNCHANGED <<reminders, shown, lock, booting, snap, bootAt, counters,
                 executed>>

EndRecover ==
  /\ booting = "loop" /\ todo = {} /\ task[Boot] = Idle
  /\ booting' = "done" /\ snap' = NoEvents
  /\ UNCHANGED <<stored, reminders, shown, loop, todo, bootAt, counters,
                 executed>>

Recover == RecoverLoad \/ (\E e \in Events : RecoverOne(e)) \/ EndRecover

-------------------------------------------------------------------------------
(* The world, and the whole *)

Tick ==
  /\ now < MaxTime /\ now' = now + 1
  /\ UNCHANGED <<stored, reminders, shown, loop, boot, answers, crashes,
                 executed>>

(* Nothing is left to do; any other state without a successor is a deadlock. *)
AtRest == /\ \A p \in Tasks : task[p] = Idle
          /\ booting = "done"
          /\ UNCHANGED vars

Step(p) ==
  \/ Save(p) \/ ReadSignal(p) \/ Create(p) \/ AutoExecute(p) \/ Deliver(p)
  \/ StoreDelivered(p) \/ ReadClick(p) \/ Remind(p) \/ ReadVoice(p) \/ Claim(p)
  \/ Execute(p) \/ ReadRecheck(p) \/ Expire(p) \/ Trigger(p)

Next ==
  \/ \E p \in Tasks : Acquire(p) \/ Step(p)
  \/ \E p \in Workers : StartSignal(p) \/ StartClick(p) \/ StartVoice(p) \/ Fire(p)
  \/ Recover \/ Restart \/ Tick \/ AtRest

Spec == Init /\ [][Next]_vars

(* The event loop runs every task on; asyncio.Lock serves waiters in order; *)
(* Home Assistant fires an automation that is due; time passes.             *)
FairSpec ==
  /\ Spec
  /\ \A p \in Tasks : WF_vars(Step(p)) /\ SF_vars(Acquire(p))
  /\ SF_vars(\E p \in Workers : Fire(p))
  /\ WF_vars(Recover) /\ WF_vars(Tick)

-------------------------------------------------------------------------------
(* What must hold *)

(* async_signal and _find_duplicate: while an event of a key is open, there *)
(* is no second one.                                                        *)
OneOpenPerKey ==
  \A e, f \in Events :
    Open(stored[e]) /\ Open(stored[f]) /\ stored[e].key = stored[f].key => e = f

(* The claim in async_handle_notification_action and async_handle_voice_reply: *)
(* however many answers arrive at once, an event's action runs at most once.  *)
ExecutedOnce == \A e \in Events : executed[e] <= 1

(* An answer, or the end of the situation, stands: whatever copies of the   *)
(* event other handlers still hold, it is not open again.                   *)
AnswerStands ==
  [][\A e \in Events :
       Known(e) /\ stored[e].state \in {"acknowledged", "resolved", "denied", "failed"}
         => ~Open(stored'[e])]_vars

(* async_handle_voice_reply: a spoken yes runs an action only if no other   *)
(* question the speaker had heard is still open.                            *)
VoiceUnambiguous ==
  [][\A p \in Tasks :
       task[p].op = "yes" /\ At(p, "claim") /\ task'[p].pc = "execute" =>
         Questions \cap task[p].heard \subseteq {task[p].id}]_vars

(* The reminder automation, async_recheck and async_recover: a snoozed event *)
(* whose time has come does not stay snoozed, not even when Home Assistant   *)
(* was down at that moment.                                                  *)
Waiting(e) == /\ Snoozed(stored[e]) /\ stored[e].until <= MaxTime
              /\ stored[e].key \notin RuleKeys
SnoozeComesBack == \A e \in Events : Waiting(e) ~> ~Waiting(e)
===============================================================================
