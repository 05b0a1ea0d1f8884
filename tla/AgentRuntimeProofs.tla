-------------------------- MODULE AgentRuntimeProofs --------------------------
(***************************************************************************)
(* Theorems about AgentRuntime, for every set of events, keys, signals and *)
(* tasks and every bound: the types of its state and mutual exclusion of   *)
(* its lock; and, as long as nothing meets a delivery that is not stored   *)
(* yet, that no action is executed twice, that an answered event stays     *)
(* closed, that a key has one open event, and that a spoken yes has one    *)
(* meaning.                                                                *)
(***************************************************************************)
EXTENDS AgentRuntime, FiniteSetTheorems, TLAPS

-------------------------------------------------------------------------------
(* The inductive invariant for types and the lock *)

(* From here on a task holds a copy of the event it works on. *)
Copying == Pcs \ {"idle", "lock", "read"}

(* What a handler brings with it when it asks for the lock. *)
Shaped(t) ==
  /\ t.pc \in Copying => t.id \in Events /\ t.ev \in Event
  /\ t.pc \in {"lock", "read"} =>
       \/ t.op = "signal" /\ t.ev \in Event
       \/ t.op \in Clicks \cup {"recheck"} /\ t.id \in Events
       \/ t.op \in Replies

(* The lock is held exactly by the task that stands inside it. *)
LockHeld == \A p \in Tasks : lock = p <=> task[p].pc \in Locked

IInv ==
  /\ TypeOK
  /\ \A p \in Tasks : Shaped(task[p])
  /\ \A e \in todo : snap[e] # None
  /\ LockHeld

(* The names of the places where a task stands. *)
LEMMA Places ==
  /\ Locked \subseteq Pcs /\ Delivering \subseteq Pcs
  /\ Locked \subseteq Copying \cup {"read"}
  /\ Delivering \subseteq Copying /\ Delivering \cap Locked = {}
BY DEF Locked, Delivering, Pcs, Copying

(* The clock never leaves the moments an event can carry. *)
LEMMA Moments ==
  /\ 0..MaxTime \subseteq Moment /\ 0 \in Moment /\ 0 \in 0..MaxTime
  /\ \A t \in 0..MaxTime : t + Life \in Moment /\ t + Snooze \in Moment
BY AgentAssumption DEF Moment

(* What In makes of an event is an event again. *)
LEMMA InType ==
  ASSUME TypeOK, NEW x \in Event, NEW s \in States
  PROVE  In(x, s) \in Event /\ In(x, s).state = s /\ In(x, s).mode = x.mode
BY Moments DEF In, Event, TypeOK

(* A step of one task leaves the invariant intact if what the task becomes *)
(* is well-formed and stands inside the lock exactly if it holds it.       *)
LEMMA MoveKeeps ==
  ASSUME IInv, NEW p \in Tasks, NEW t \in Task, Become(p, t), Shaped(t),
         \/ lock' = lock /\ (t.pc \in Locked <=> task[p].pc \in Locked)
         \/ lock' = None /\ task[p].pc \in Locked /\ t.pc \notin Locked
         \/ lock = None /\ lock' = p /\ t.pc \in Locked
  PROVE  /\ task' \in [Tasks -> Task]
         /\ lock' \in Tasks \cup {None}
         /\ \A q \in Tasks : Shaped(task'[q])
         /\ LockHeld'
<1>1. /\ task \in [Tasks -> Task] /\ task' = [task EXCEPT ![p] = t]
      /\ lock \in Tasks \cup {None} /\ None \notin Tasks
      /\ LockHeld /\ \A q \in Tasks : Shaped(task[q])
  BY AgentNullAssumption DEF IInv, TypeOK, Become
<1>2. task' \in [Tasks -> Task] /\ task'[p] = t
      /\ \A q \in Tasks \ {p} : task'[q] = task[q]
  BY <1>1
<1>3. \A q \in Tasks : Shaped(task'[q])
  BY <1>1, <1>2
<1>4. LockHeld'
  BY <1>1, <1>2 DEF LockHeld
<1> QED
  BY <1>1, <1>2, <1>3, <1>4

(* The same for a step that only moves a task on, with its copy or another. *)
LEMMA StepKeeps ==
  ASSUME IInv, NEW p \in Tasks, NEW to \in Copying, NEW x \in Event,
         task[p].pc \in Pcs, task[p].id \in Events,
         \/ With(p, to, x)
         \/ x = task[p].ev /\ Goto(p, to),
         \/ lock' = lock /\ (to \in Locked <=> task[p].pc \in Locked)
         \/ lock' = None /\ task[p].pc \in Locked /\ to \notin Locked
  PROVE  /\ task' \in [Tasks -> Task]
         /\ lock' \in Tasks \cup {None}
         /\ \A q \in Tasks : Shaped(task'[q])
         /\ LockHeld'
<1> DEFINE t == [task[p] EXCEPT !.pc = to, !.ev = x]
<1>1. task[p] \in Task
  BY DEF IInv, TypeOK
<1>2. t \in Task /\ t.pc = to /\ t.ev = x /\ t.id = task[p].id
  BY <1>1 DEF Task, Copying
<1>3. Become(p, t)
  <2>1. CASE With(p, to, x)
    BY <2>1 DEF With
  <2>2. CASE x = task[p].ev /\ Goto(p, to)
    <3>1. t = [task[p] EXCEPT !.pc = to]
      BY <1>1, <2>2 DEF Task
    <3> QED
      BY <2>2, <3>1 DEF Goto
  <2> QED
    BY <2>1, <2>2
<1>4. Shaped(t)
  BY <1>2 DEF Shaped, Copying
<1> HIDE DEF t
<1> QED
  BY <1>2, <1>3, <1>4, MoveKeeps

(* A task that ends. *)
LEMMA EndKeeps ==
  ASSUME IInv, NEW p \in Tasks, Become(p, Idle),
         \/ lock' = lock /\ task[p].pc \notin Locked
         \/ lock' = None /\ task[p].pc \in Locked
  PROVE  /\ task' \in [Tasks -> Task]
         /\ lock' \in Tasks \cup {None}
         /\ \A q \in Tasks : Shaped(task'[q])
         /\ LockHeld'
<1>1. Idle \in Task /\ Idle.pc \notin Locked /\ Shaped(Idle)
  BY Moments DEF Idle, Task, Pcs, Ops, Shaped, Copying, Locked
<1> QED
  BY <1>1, MoveKeeps

(* A task that begins and asks for the lock. *)
LEMMA BeginKeeps ==
  ASSUME IInv, NEW p \in Tasks, NEW t \in Task, Begin(p, t), t.pc = "lock",
         Shaped(t), UNCHANGED lock
  PROVE  /\ task' \in [Tasks -> Task]
         /\ lock' \in Tasks \cup {None}
         /\ \A q \in Tasks : Shaped(task'[q])
         /\ LockHeld'
<1>1. t.pc \notin Locked /\ task[p].pc \notin Locked /\ Become(p, t)
  BY DEF Begin, Idle, Locked
<1> QED
  BY <1>1, MoveKeeps

(* What a task holds, by the place where it stands. *)
LEMMA Holds ==
  ASSUME IInv, NEW p \in Tasks
  PROVE  /\ task[p] \in Task
         /\ task[p].pc \in Copying =>
              /\ task[p].id \in Events /\ task[p].ev \in Event
              /\ stored[task[p].id] \in Event \cup {None}
         /\ task[p].pc \in {"lock", "read"} /\ task[p].op \in Clicks \cup {"recheck"} =>
              /\ task[p].id \in Events
              /\ stored[task[p].id] \in Event \cup {None}
         /\ task[p].pc \in {"lock", "read"} /\ task[p].op = "signal" =>
              task[p].ev \in Event
BY DEF IInv, TypeOK, Shaped, Clicks, Replies

(* Saving a task's copy keeps the store well-formed. *)
LEMMA SaveType ==
  ASSUME IInv, NEW p \in Tasks, NEW x \in Event, task[p].id \in Events,
         SaveCopy(p, x)
  PROVE  /\ stored' \in [Events -> Event \cup {None}]
         /\ stored'[task[p].id] = x
         /\ \A e \in Events : e # task[p].id => stored'[e] = stored[e]
BY DEF SaveCopy, IInv, TypeOK

-------------------------------------------------------------------------------
(* Every step keeps the invariant *)

(* The lock passes from nobody to the task that enters. *)
LEMMA AcquireKeeps ==
  ASSUME IInv, NEW p \in Tasks, Acquire(p)
  PROVE  IInv'
<1> DEFINE t == [task[p] EXCEPT !.pc = "read"]
<1>1. task[p] \in Task /\ task[p].pc = "lock" /\ Shaped(task[p])
  BY DEF IInv, TypeOK, Acquire, At
<1>2. t \in Task /\ t.pc = "read" /\ Shaped(t)
  BY <1>1 DEF Task, Pcs, Locked, Shaped, Copying
<1>3. Become(p, t) /\ lock = None /\ lock' = p /\ t.pc \in Locked
  BY <1>2 DEF Acquire, Goto, Locked
<1> HIDE DEF t
<1> QED
  BY <1>2, <1>3, MoveKeeps DEF Acquire, boot, counters, IInv, TypeOK

(* A task saves the copy it holds, and leaves the lock if it held it. *)
LEMMA SaveKeeps ==
  ASSUME IInv, NEW p \in Tasks, Save(p)
  PROVE  IInv'
<1>1. /\ task[p].id \in Events /\ task[p].ev \in Event
      /\ \/ lock' = lock /\ task[p].pc \notin Locked
         \/ lock' = None /\ task[p].pc \in Locked
  BY Holds DEF Save, At, Release, Locked, Copying, Pcs
<1> QED
  BY <1>1, EndKeeps, SaveType DEF Save, boot, counters, IInv, TypeOK

(* A signal brings a well-formed draft of its event. *)
LEMMA StartSignalKeeps ==
  ASSUME IInv, NEW p \in Tasks, StartSignal(p)
  PROVE  IInv'
<1>1. PICK s \in Signals :
        Begin(p, [Idle EXCEPT !.pc = "lock", !.op = "signal",
                   !.ev = [key |-> s[1], mode |-> s[2], state |-> "active",
                           expires |-> now + Life, upd |-> now, until |-> 0,
                           tts |-> FALSE]])
  BY DEF StartSignal
<1> DEFINE x == [key |-> s[1], mode |-> s[2], state |-> "active",
                 expires |-> now + Life, upd |-> now, until |-> 0, tts |-> FALSE]
           t == [Idle EXCEPT !.pc = "lock", !.op = "signal", !.ev = x]
<1>2. s[1] \in Keys /\ s[2] \in Modes
  BY AgentNullAssumption
<1>3. x \in Event
  BY <1>2, Moments DEF Event, States, OpenStates, IInv, TypeOK
<1>4. t \in Task /\ t.pc = "lock" /\ Shaped(t)
  BY <1>3, Moments DEF Task, Idle, Pcs, Ops, Shaped, Copying
<1>5. Begin(p, t)
  BY <1>1
<1> HIDE DEF t
<1> QED
  BY <1>4, <1>5, BeginKeeps DEF StartSignal, boot, counters, IInv, TypeOK

(* A draft gets an unused id, or the signal ends as a duplicate. *)
LEMMA ReadSignalKeeps ==
  ASSUME IInv, NEW p \in Tasks, ReadSignal(p)
  PROVE  IInv'
<1>1. /\ task[p] \in Task /\ task[p].pc = "read" /\ task[p].pc \in Locked
      /\ task[p].ev \in Event
  BY Holds DEF ReadSignal, Reading, At, Locked
<1>2. CASE Quit(p)
  BY <1>1, <1>2, EndKeeps DEF Quit, Release, ReadSignal, boot, counters, IInv, TypeOK
<1>3. CASE /\ \E e \in Fresh :
                 Become(p, [task[p] EXCEPT !.pc = "create", !.id = e])
           /\ UNCHANGED lock
  <2>1. PICK e \in Fresh : Become(p, [task[p] EXCEPT !.pc = "create", !.id = e])
    BY <1>3
  <2> DEFINE t == [task[p] EXCEPT !.pc = "create", !.id = e]
  <2>2. t \in Task /\ t.pc = "create" /\ Shaped(t)
    BY <1>1 DEF Task, Pcs, Locked, Shaped, Copying, Fresh
  <2>3. Become(p, t) /\ t.pc \in Locked
    BY <2>1, <2>2 DEF Locked
  <2> HIDE DEF t
  <2> QED
    BY <1>1, <1>3, <2>2, <2>3, MoveKeeps DEF ReadSignal, boot, counters, IInv, TypeOK
<1> QED
  BY <1>2, <1>3 DEF ReadSignal

(* A new event is saved, and the lock is left, whatever comes next. *)
LEMMA CreateKeeps ==
  ASSUME IInv, NEW p \in Tasks, Create(p)
  PROVE  IInv'
<1>1. /\ task[p].pc = "create" /\ task[p].pc \in Locked /\ task[p].pc \in Pcs
      /\ task[p].id \in Events /\ task[p].ev \in Event
  BY Holds DEF Create, At, Locked, Copying, Pcs
<1>2. In(task[p].ev, "resolved") \in Event /\ [task[p].ev EXCEPT !.mode = "ask"] \in Event
  BY <1>1, InType DEF States, Event, Modes, IInv
<1>3. {"save", "deliver", "auto"} \subseteq Copying \ Locked /\ lock' = None
  BY DEF Copying, Pcs, Locked, Create, Release
<1>4. \E to \in Copying \ Locked, x \in Event :
        With(p, to, x) \/ (x = task[p].ev /\ Goto(p, to))
  BY <1>1, <1>2, <1>3 DEF Create
<1>5. /\ task' \in [Tasks -> Task] /\ lock' \in Tasks \cup {None}
      /\ \A q \in Tasks : Shaped(task'[q])
      /\ LockHeld'
  BY <1>1, <1>3, <1>4, StepKeeps
<1> QED
  BY <1>1, <1>5, SaveType DEF Create, boot, counters, IInv, TypeOK

(* An automatic action works outside the lock on its own copy. *)
LEMMA AutoExecuteKeeps ==
  ASSUME IInv, NEW p \in Tasks, AutoExecute(p)
  PROVE  IInv'
<1>1. /\ task[p].pc = "auto" /\ task[p].pc \notin Locked /\ task[p].pc \in Pcs
      /\ task[p].id \in Events /\ task[p].ev \in Event
  BY Holds DEF AutoExecute, At, Locked, Copying, Pcs
<1>2. /\ [task[p].ev EXCEPT !.state = "resolved"] \in Event
      /\ [task[p].ev EXCEPT !.mode = "ask"] \in Event
  BY <1>1 DEF States, Event, Modes
<1>3. "deliver" \in Copying /\ "deliver" \notin Locked /\ lock' = lock
  BY DEF Copying, Pcs, Locked, AutoExecute
<1>4. /\ task' \in [Tasks -> Task] /\ lock' \in Tasks \cup {None}
      /\ \A q \in Tasks : Shaped(task'[q])
      /\ LockHeld'
  BY <1>1, <1>2, <1>3, StepKeeps DEF AutoExecute
<1>5. executed' \in [Events -> Nat]
  BY <1>1 DEF AutoExecute, Perform, IInv, TypeOK
<1> QED
  BY <1>4, <1>5 DEF AutoExecute, boot, counters, IInv, TypeOK

(* A delivery changes only whether the message was spoken. *)
LEMMA DeliverKeeps ==
  ASSUME IInv, NEW p \in Tasks, Deliver(p)
  PROVE  IInv'
<1>1. /\ task[p].pc = "deliver" /\ task[p].pc \notin Locked /\ task[p].pc \in Pcs
      /\ task[p].id \in Events /\ task[p].ev \in Event
  BY Holds DEF Deliver, At, Locked, Copying, Pcs
<1>2. PICK b \in BOOLEAN : With(p, "store", [task[p].ev EXCEPT !.tts = b])
  BY DEF Deliver
<1>3. [task[p].ev EXCEPT !.tts = b] \in Event
  BY <1>1 DEF Event
<1>4. "store" \in Copying /\ "store" \notin Locked /\ lock' = lock
  BY DEF Copying, Pcs, Locked, Deliver
<1>5. /\ task' \in [Tasks -> Task] /\ lock' \in Tasks \cup {None}
      /\ \A q \in Tasks : Shaped(task'[q])
      /\ LockHeld'
  BY <1>1, <1>2, <1>3, <1>4, StepKeeps
<1> QED
  BY <1>1, <1>5 DEF Deliver, boot, counters, IInv, TypeOK

(* What a delivery stores is an event in one of the known states. *)
LEMMA StoreDeliveredKeeps ==
  ASSUME IInv, NEW p \in Tasks, StoreDelivered(p)
  PROVE  IInv'
<1>1. /\ task[p].id \in Events /\ task[p].ev \in Event /\ task[p].pc \notin Locked
  BY Holds DEF StoreDelivered, At, Locked, Copying, Pcs
<1>2. \E s \in States : SaveCopy(p, In(task[p].ev, s))
  BY <1>1 DEF StoreDelivered, States, OpenStates, Event
<1>3. stored' \in [Events -> Event \cup {None}]
  BY <1>1, <1>2, InType, SaveType DEF IInv
<1> QED
  BY <1>1, <1>3, EndKeeps DEF StoreDelivered, boot, counters, IInv, TypeOK

(* A click names an event that was shown. *)
LEMMA StartClickKeeps ==
  ASSUME IInv, NEW p \in Tasks, StartClick(p)
  PROVE  IInv'
<1>1. PICK e \in shown, c \in Clicks :
        StartAnswer(p, [Idle EXCEPT !.pc = "lock", !.op = c, !.id = e])
  BY DEF StartClick
<1> DEFINE t == [Idle EXCEPT !.pc = "lock", !.op = c, !.id = e]
<1>2. t \in Task /\ t.pc = "lock" /\ Shaped(t)
  BY Moments DEF Task, Idle, Pcs, Ops, Answers, Shaped, Copying, IInv, TypeOK
<1>3. StartAnswer(p, t)
  BY <1>1
<1> HIDE DEF t
<1>4. Begin(p, t) /\ UNCHANGED lock /\ answers' \in 0..MaxAnswers
  BY <1>3, AgentAssumption DEF StartAnswer, IInv, TypeOK
<1> QED
  BY <1>2, <1>3, <1>4, BeginKeeps DEF StartAnswer, boot, IInv, TypeOK

(* A spoken reply carries the questions that were heard. *)
LEMMA StartVoiceKeeps ==
  ASSUME IInv, NEW p \in Tasks, StartVoice(p)
  PROVE  IInv'
<1>1. PICK r \in Replies :
        StartAnswer(p, [Idle EXCEPT !.pc = "lock", !.op = r, !.at = now,
                                    !.heard = Questions])
  BY DEF StartVoice
<1> DEFINE t == [Idle EXCEPT !.pc = "lock", !.op = r, !.at = now, !.heard = Questions]
<1>2. Questions \subseteq Events
  BY Holds DEF Questions, At, Copying, Pcs, Locked
<1>3. t \in Task /\ t.pc = "lock" /\ Shaped(t)
  BY <1>2, Moments DEF Task, Idle, Pcs, Ops, Answers, Shaped, Copying, IInv, TypeOK
<1>4. StartAnswer(p, t)
  BY <1>1
<1> HIDE DEF t
<1>5. Begin(p, t) /\ UNCHANGED lock /\ answers' \in 0..MaxAnswers
  BY <1>4, AgentAssumption DEF StartAnswer, IInv, TypeOK
<1> QED
  BY <1>3, <1>4, <1>5, BeginKeeps DEF StartAnswer, boot, IInv, TypeOK

(* A click inside the lock takes a copy of an open event, or ends. *)
LEMMA ReadClickKeeps ==
  ASSUME IInv, NEW p \in Tasks, ReadClick(p)
  PROVE  IInv'
<1> DEFINE x == stored[task[p].id]
<1>1. /\ task[p].pc = "read" /\ task[p].pc \in Locked /\ task[p].pc \in Pcs
      /\ task[p].id \in Events /\ x \in Event \cup {None}
  BY Holds DEF ReadClick, Reading, At, Locked, Pcs
<1>2. CASE Quit(p)
  BY <1>1, <1>2, EndKeeps DEF Quit, Release, ReadClick, boot, counters, IInv, TypeOK
<1>3. CASE /\ Open(x) /\ UNCHANGED lock
           /\ \/ \E s \in {"expired", "acknowledged"} : \E to \in {"saveLocked", "claim"} :
                   With(p, to, In(x, s))
              \/ With(p, "remind", x)
  <2>1. x \in Event
    BY <1>1, <1>3 DEF Open
  <2>2. \A s \in {"expired", "acknowledged"} : In(x, s) \in Event
    BY <2>1, InType DEF States, IInv
  <2>3. {"saveLocked", "claim", "remind"} \subseteq Copying \cap Locked
    BY DEF Copying, Pcs, Locked
  <2>4. \E to \in Copying \cap Locked, y \in Event : With(p, to, y)
    BY <1>3, <2>1, <2>2, <2>3
  <2>5. /\ task' \in [Tasks -> Task] /\ lock' \in Tasks \cup {None}
        /\ \A q \in Tasks : Shaped(task'[q])
        /\ LockHeld'
    BY <1>1, <1>3, <2>4, StepKeeps
  <2> QED
    BY <2>5 DEF ReadClick, boot, counters, IInv, TypeOK
<1> QED
  BY <1>2, <1>3 DEF ReadClick

(* A reminder is due at a moment an event can carry. *)
LEMMA RemindKeeps ==
  ASSUME IInv, NEW p \in Tasks, Remind(p)
  PROVE  IInv'
<1> DEFINE due == now + Snooze
           x == [In(task[p].ev, "snoozed") EXCEPT !.until = due]
<1>1. /\ task[p].pc = "remind" /\ task[p].pc \in Locked /\ task[p].pc \in Pcs
      /\ task[p].id \in Events /\ task[p].ev \in Event
  BY Holds DEF Remind, At, Locked, Copying, Pcs
<1>2. CASE UNCHANGED reminders /\ Quit(p)
  BY <1>1, <1>2, EndKeeps DEF Quit, Release, Remind, boot, counters, IInv, TypeOK
<1>3. CASE /\ reminders' = reminders \cup {[id |-> task[p].id, due |-> due]}
           /\ With(p, "saveLocked", x)
           /\ UNCHANGED lock
  <2>1. due \in Moment
    BY Moments DEF IInv, TypeOK
  <2>2. x \in Event
    BY <1>1, <2>1, InType DEF States, OpenStates, Event, IInv
  <2>3. "saveLocked" \in Copying \cap Locked
    BY DEF Copying, Pcs, Locked
  <2>4. /\ task' \in [Tasks -> Task] /\ lock' \in Tasks \cup {None}
        /\ \A q \in Tasks : Shaped(task'[q])
        /\ LockHeld'
    BY <1>1, <1>3, <2>2, <2>3, StepKeeps
  <2>5. reminders' \subseteq Reminder
    BY <1>1, <1>3, <2>1 DEF Reminder, IInv, TypeOK
  <2> QED
    BY <2>4, <2>5 DEF Remind, boot, counters, IInv, TypeOK
<1> QED
  BY <1>2, <1>3 DEF Remind

(* What a reply is addressed to is one of the questions it may answer. *)
LEMMA AddressedIs ==
  ASSUME NEW S PROVE Addressed(S) \subseteq S
BY DEF Addressed

(* A reply inside the lock takes a copy of the question it answers. *)
LEMMA ReadVoiceKeeps ==
  ASSUME IInv, NEW p \in Tasks, ReadVoice(p)
  PROVE  IInv'
<1> DEFINE S == {e \in Events : Question(stored[e], task[p].at)}
           t(e) == [task[p] EXCEPT !.pc = "claim", !.id = e, !.at = 0,
                        !.ev = [stored[e] EXCEPT !.state = "acknowledged",
                                                 !.upd = task[p].at]]
<1>1. /\ task[p] \in Task /\ task[p].pc = "read" /\ task[p].pc \in Locked
  BY Holds DEF ReadVoice, Reading, At, Locked
<1>2. CASE Quit(p)
  BY <1>1, <1>2, EndKeeps DEF Quit, Release, ReadVoice, boot, counters, IInv, TypeOK
<1>3. CASE (\E e \in Addressed(S) : Become(p, t(e))) /\ UNCHANGED lock
  <2>1. PICK e \in S : Become(p, t(e))
    BY <1>3, AddressedIs
  <2>2. stored[e] \in Event /\ task[p].at \in Moment
    BY <1>1, Moments DEF Question, IInv, TypeOK, Task
  <2>3. [stored[e] EXCEPT !.state = "acknowledged", !.upd = task[p].at] \in Event
    BY <2>2 DEF Event, States
  <2>4. t(e) \in Task /\ t(e).pc = "claim" /\ Shaped(t(e))
    BY <1>1, <2>3, Moments DEF Task, Pcs, Locked, Shaped, Copying
  <2>5. t(e).pc \in Locked
    BY <2>4 DEF Locked
  <2> HIDE DEF t
  <2> QED
    BY <1>1, <1>3, <2>1, <2>4, <2>5, MoveKeeps
    DEF ReadVoice, boot, counters, IInv, TypeOK
<1> QED
  BY <1>2, <1>3 DEF ReadVoice

(* A claim is saved before the lock is left. *)
LEMMA ClaimKeeps ==
  ASSUME IInv, NEW p \in Tasks, Claim(p)
  PROVE  IInv'
<1>1. /\ task[p].pc = "claim" /\ task[p].pc \in Locked /\ task[p].pc \in Pcs
      /\ task[p].id \in Events /\ task[p].ev \in Event
  BY Holds DEF Claim, At, Locked, Copying, Pcs
<1>2. "execute" \in Copying /\ "execute" \notin Locked /\ lock' = None
  BY DEF Copying, Pcs, Locked, Claim, Release
<1>3. /\ task' \in [Tasks -> Task] /\ lock' \in Tasks \cup {None}
      /\ \A q \in Tasks : Shaped(task'[q])
      /\ LockHeld'
  <2>1. CASE Become(p, Idle)
    BY <1>1, <1>2, <2>1, EndKeeps
  <2>2. CASE Goto(p, "execute")
    BY <1>1, <1>2, <2>2, StepKeeps
  <2> QED
    BY <2>1, <2>2 DEF Claim
<1> QED
  BY <1>1, <1>3, SaveType DEF Claim, boot, counters, IInv, TypeOK

(* An execution ends in one of the closed states, and counts as a number. *)
LEMMA ExecuteKeeps ==
  ASSUME IInv, NEW p \in Tasks, Execute(p)
  PROVE  IInv'
<1>1. /\ task[p].pc = "execute" /\ task[p].pc \notin Locked /\ task[p].pc \in Pcs
      /\ task[p].id \in Events /\ task[p].ev \in Event
  BY Holds DEF Execute, At, Locked, Copying, Pcs
<1>2. \A s \in {"resolved", "denied", "failed"} : In(task[p].ev, s) \in Event
  BY <1>1, InType DEF States, IInv
<1>3. "save" \in Copying /\ "save" \notin Locked /\ lock' = lock
  BY DEF Copying, Pcs, Locked, Execute
<1>4. \E x \in Event : With(p, "save", x)
  BY <1>2 DEF Execute
<1>5. /\ task' \in [Tasks -> Task] /\ lock' \in Tasks \cup {None}
      /\ \A q \in Tasks : Shaped(task'[q])
      /\ LockHeld'
  BY <1>1, <1>3, <1>4, StepKeeps
<1>6. executed' \in [Events -> Nat]
  BY <1>1 DEF Execute, Perform, IInv, TypeOK
<1> QED
  BY <1>5, <1>6 DEF Execute, boot, counters, IInv, TypeOK

(* A re-check begins like any other handler. *)
LEMMA RecheckShape ==
  ASSUME NEW e \in Events
  PROVE  Recheck(e) \in Task /\ Recheck(e).pc = "lock" /\ Shaped(Recheck(e))
BY Moments DEF Recheck, Idle, Task, Pcs, Ops, Shaped, Copying

(* A reminder that fires starts a re-check of its event. *)
LEMMA FireKeeps ==
  ASSUME IInv, NEW p \in Tasks, Fire(p)
  PROVE  IInv'
<1>1. PICK r \in reminders : reminders' = reminders \ {r} /\ Begin(p, Recheck(r.id))
  BY DEF Fire
<1>2. r.id \in Events
  BY DEF IInv, TypeOK, Reminder
<1> QED
  BY <1>1, <1>2, RecheckShape, BeginKeeps DEF Fire, boot, counters, IInv, TypeOK

(* A re-check inside the lock takes a copy of a snoozed event, or ends. *)
LEMMA ReadRecheckKeeps ==
  ASSUME IInv, NEW p \in Tasks, ReadRecheck(p)
  PROVE  IInv'
<1> DEFINE x == stored[task[p].id]
<1>1. /\ task[p].pc = "read" /\ task[p].pc \in Locked /\ task[p].pc \in Pcs
      /\ task[p].id \in Events /\ x \in Event \cup {None}
  BY Holds DEF ReadRecheck, Reading, At, Locked, Pcs
<1>2. CASE Quit(p)
  BY <1>1, <1>2, EndKeeps DEF Quit, Release, ReadRecheck, boot, counters, IInv, TypeOK
<1>3. CASE /\ Snoozed(x) /\ UNCHANGED lock
           /\ With(p, "saveLocked", In(x, "resolved")) \/ With(p, "expire", x)
  <2>1. x \in Event /\ In(x, "resolved") \in Event
    BY <1>1, <1>3, InType DEF Snoozed, States, IInv
  <2>2. {"saveLocked", "expire"} \subseteq Copying \cap Locked
    BY DEF Copying, Pcs, Locked
  <2>3. /\ task' \in [Tasks -> Task] /\ lock' \in Tasks \cup {None}
        /\ \A q \in Tasks : Shaped(task'[q])
        /\ LockHeld'
    BY <1>1, <1>3, <2>1, <2>2, StepKeeps
  <2> QED
    BY <2>3 DEF ReadRecheck, boot, counters, IInv, TypeOK
<1>4. CASE /\ Snoozed(x) /\ Release
           /\ With(p, "deliver", [In(x, "active") EXCEPT !.until = 0])
  <2>1. In(x, "active") \in Event
    BY <1>1, <1>4, InType DEF Snoozed, States, OpenStates, IInv
  <2>2. [In(x, "active") EXCEPT !.until = 0] \in Event
    BY <2>1, Moments DEF Event
  <2>3. "deliver" \in Copying /\ "deliver" \notin Locked /\ lock' = None
    BY <1>4 DEF Copying, Pcs, Locked, Release
  <2>4. /\ task' \in [Tasks -> Task] /\ lock' \in Tasks \cup {None}
        /\ \A q \in Tasks : Shaped(task'[q])
        /\ LockHeld'
    BY <1>1, <1>4, <2>2, <2>3, StepKeeps
  <2> QED
    BY <2>4 DEF ReadRecheck, boot, counters, IInv, TypeOK
<1> QED
  BY <1>2, <1>3, <1>4 DEF ReadRecheck

(* The old event is saved as expired before the lock is left. *)
LEMMA ExpireKeeps ==
  ASSUME IInv, NEW p \in Tasks, Expire(p)
  PROVE  IInv'
<1>1. /\ task[p].pc = "expire" /\ task[p].pc \in Locked /\ task[p].pc \in Pcs
      /\ task[p].id \in Events /\ task[p].ev \in Event
  BY Holds DEF Expire, At, Locked, Copying, Pcs
<1>2. In(task[p].ev, "expired") \in Event
  BY <1>1, InType DEF States, IInv
<1>3. [In(task[p].ev, "expired") EXCEPT !.until = 0] \in Event
  BY <1>2, Moments DEF Event
<1>4. "trigger" \in Copying /\ "trigger" \notin Locked /\ lock' = None
  BY DEF Copying, Pcs, Locked, Expire, Release
<1>5. /\ task' \in [Tasks -> Task] /\ lock' \in Tasks \cup {None}
      /\ \A q \in Tasks : Shaped(task'[q])
      /\ LockHeld'
  BY <1>1, <1>4, StepKeeps DEF Expire
<1> QED
  BY <1>1, <1>3, <1>5, SaveType DEF Expire, boot, counters, IInv, TypeOK

(* A failed trigger prepares the old event to be saved again. *)
LEMMA TriggerKeeps ==
  ASSUME IInv, NEW p \in Tasks, Trigger(p)
  PROVE  IInv'
<1>1. /\ task[p].pc = "trigger" /\ task[p].pc \notin Locked /\ task[p].pc \in Pcs
      /\ task[p].id \in Events /\ task[p].ev \in Event /\ lock' = lock
  BY Holds DEF Trigger, At, Locked, Copying, Pcs
<1>2. In(task[p].ev, "snoozed") \in Event
  BY <1>1, InType DEF States, OpenStates, IInv
<1>3. "save" \in Copying /\ "save" \notin Locked
  BY DEF Copying, Pcs, Locked
<1>4. /\ task' \in [Tasks -> Task] /\ lock' \in Tasks \cup {None}
      /\ \A q \in Tasks : Shaped(task'[q])
      /\ LockHeld'
  BY <1>1, <1>2, <1>3, EndKeeps, StepKeeps DEF Trigger
<1> QED
  BY <1>4 DEF Trigger, boot, counters, IInv, TypeOK

(* After a restart no task stands anywhere and nobody holds the lock. *)
LEMMA RestartKeeps == IInv /\ Restart => IInv'
<1> SUFFICES ASSUME IInv, Restart PROVE IInv'
  OBVIOUS
<1>1. Idle \in Task /\ Shaped(Idle) /\ Idle.pc \notin Locked
  BY Moments DEF Idle, Task, Pcs, Ops, Shaped, Copying, Locked
<1>2. \A p \in Tasks : task'[p] = Idle
  BY DEF Restart
<1>3. /\ task' \in [Tasks -> Task] /\ \A p \in Tasks : Shaped(task'[p])
      /\ LockHeld'
  BY <1>1, <1>2, AgentNullAssumption DEF Restart, LockHeld
<1> QED
  BY <1>3, AgentAssumption DEF Restart, NoEvents, IInv, TypeOK

(* The start-up loop sets out with the stored events only. *)
LEMMA RecoverLoadKeeps == IInv /\ RecoverLoad => IInv'
BY DEF RecoverLoad, Known, loop, counters, IInv, TypeOK, LockHeld

(* The start-up loop saves well-formed events and starts re-checks only. *)
LEMMA RecoverOneKeeps ==
  ASSUME IInv, NEW e \in Events, RecoverOne(e)
  PROVE  IInv'
<1>1. snap[e] \in Event /\ bootAt \in Moment
  BY Moments DEF RecoverOne, IInv, TypeOK
<1>2. [snap[e] EXCEPT !.state = "expired", !.upd = bootAt] \in Event
  BY <1>1 DEF Event, States
<1>3. stored' \in [Events -> Event \cup {None}]
  BY <1>2 DEF RecoverOne, IInv, TypeOK
<1>4. Boot \in Tasks /\ task[Boot].pc \notin Locked /\ lock' = lock
  BY DEF RecoverOne, Tasks, Idle, Locked
<1>5. /\ task' \in [Tasks -> Task] /\ lock' \in Tasks \cup {None}
      /\ \A q \in Tasks : Shaped(task'[q])
      /\ LockHeld'
  <2>1. CASE Become(Boot, Recheck(e))
    <3>1. Recheck(e).pc \notin Locked
      BY RecheckShape DEF Locked
    <3> QED
      BY <1>4, <2>1, <3>1, RecheckShape, MoveKeeps
  <2>2. CASE UNCHANGED task
    BY <1>4, <2>2 DEF IInv, TypeOK, LockHeld
  <2> QED
    BY <2>1, <2>2 DEF RecoverOne
<1> QED
  BY <1>3, <1>5 DEF RecoverOne, counters, IInv, TypeOK

(* The end of the start-up loop touches nothing else. *)
LEMMA EndRecoverKeeps == IInv /\ EndRecover => IInv'
BY DEF EndRecover, NoEvents, loop, counters, IInv, TypeOK, LockHeld

(* Time passes within its bound. *)
LEMMA TickKeeps == IInv /\ Tick => IInv'
BY AgentAssumption DEF Tick, loop, boot, IInv, TypeOK, LockHeld

(* The invariant holds at first: no event, no task, no holder. *)
LEMMA InitHolds == Init => IInv
<1> SUFFICES ASSUME Init PROVE IInv
  OBVIOUS
<1>1. Idle \in Task /\ Shaped(Idle) /\ Idle.pc \notin Locked
  BY Moments DEF Idle, Task, Pcs, Ops, Shaped, Copying, Locked
<1>2. \A p \in Tasks : task[p] = Idle
  BY DEF Init
<1> QED
  BY <1>1, <1>2, AgentAssumption, AgentNullAssumption
  DEF Init, NoEvents, IInv, TypeOK, LockHeld

(* The invariant is inductive. *)
LEMMA NextKeeps == IInv /\ [Next]_vars => IInv'
<1> SUFFICES ASSUME IInv, [Next]_vars PROVE IInv'
  OBVIOUS
<1>1. ASSUME NEW p \in Tasks, Acquire(p) \/ Step(p) PROVE IInv'
  BY <1>1, AcquireKeeps, SaveKeeps, ReadSignalKeeps, CreateKeeps, AutoExecuteKeeps,
     DeliverKeeps, StoreDeliveredKeeps, ReadClickKeeps, RemindKeeps, ReadVoiceKeeps,
     ClaimKeeps, ExecuteKeeps, ReadRecheckKeeps, ExpireKeeps, TriggerKeeps DEF Step
<1>2. ASSUME NEW p \in Workers,
             StartSignal(p) \/ StartClick(p) \/ StartVoice(p) \/ Fire(p)
      PROVE  IInv'
  <2>1. p \in Tasks
    BY DEF Tasks
  <2> QED
    BY <1>2, <2>1, StartSignalKeeps, StartClickKeeps, StartVoiceKeeps, FireKeeps
<1>3. CASE Recover
  BY <1>3, RecoverLoadKeeps, RecoverOneKeeps, EndRecoverKeeps DEF Recover
<1>4. CASE AtRest \/ UNCHANGED vars
  BY <1>4 DEF AtRest, vars, loop, boot, counters, IInv, TypeOK, LockHeld
<1> QED
  BY <1>1, <1>2, <1>3, <1>4, RestartKeeps, TickKeeps DEF Next

(* The inductive invariant of the agent runtime. *)
THEOREM InvariantHolds == Spec => []IInv
BY InitHolds, NextKeeps, PTL DEF Spec

(* Every variable keeps its type: no handler saves a malformed event, and *)
(* no task acts on an event it has not read.                              *)
THEOREM TypeCorrect == Spec => []TypeOK
<1>1. IInv => TypeOK
  BY DEF IInv
<1> QED
  BY <1>1, InvariantHolds, PTL

-------------------------------------------------------------------------------
(* No action is executed twice *)

(* A task that may yet execute its event's action, or write the event back *)
(* as an open one.                                                         *)
Armed(t) ==
  \/ t.pc \in Delivering \cup
       {"create", "remind", "claim", "execute", "expire", "trigger"}
  \/ t.pc \in {"save", "saveLocked"} /\ t.ev.state \in OpenStates

(* Who holds the lock has not met a delivery that is not stored. *)
Gate ==
  \A p, q \in Tasks :
    task[p].pc \in Locked /\ task[q].pc \in Delivering =>
      /\ task[p].op \notin Replies
      /\ task[p].op \in Clicks \cup {"recheck"} => task[p].id # task[q].id

(* Whatever names an event names a stored one; only a new event is not yet. *)
Real ==
  /\ \A p \in Tasks : /\ task[p].pc = "create" => ~Known(task[p].id)
                      /\ task[p].id \in Events /\ task[p].pc # "create" =>
                           Known(task[p].id)
  /\ \A r \in reminders : Known(r.id)
  /\ \A e \in shown : Known(e)
  /\ \A e \in Events : snap[e] # None => Known(e)

(* An event has at most one armed task. *)
Alone ==
  \A p, q \in Tasks :
    p # q /\ Armed(task[p]) /\ Armed(task[q]) => task[p].id # task[q].id

(* A claim closes its event.  A task that is armed outside the lock has     *)
(* closed it before, or is the automatic execution of an event nobody is    *)
(* asked about.                                                             *)
ClosedBefore(t) ==
  /\ t.pc = "claim" => ~Open(t.ev)
  /\ t.pc \in {"execute", "trigger", "save"} /\ Armed(t) => ~Open(stored[t.id])
  /\ t.pc = "auto" => /\ t.ev.mode = "auto"
                      /\ Open(stored[t.id]) => stored[t.id].mode # "ask"

(* An event whose action was executed can never be asked about again. *)
SpentFor(e, t) ==
  executed[e] = 1 /\ t.id = e /\ Armed(t) =>
    /\ t.pc \notin {"create", "auto", "claim", "execute"}
    /\ t.ev.mode # "ask"

Spent ==
  \A e \in Events :
    /\ executed[e] <= 1
    /\ executed[e] = 1 => /\ Known(e)
                          /\ Open(stored[e]) => stored[e].mode # "ask"
    /\ \A p \in Tasks : SpentFor(e, task[p])

ClaimInv ==
  /\ Gate /\ Real /\ Alone /\ Spent
  /\ \A p \in Tasks : ClosedBefore(task[p])

(* What every step of a task does: p becomes t, and its event is left alone *)
(* or replaced by x, which only an armed task may leave open.               *)
Writes(p, x) ==
  \/ stored' = stored
  \/ /\ task[p].id \in Events /\ x \in Event
     /\ stored' = [stored EXCEPT ![task[p].id] = x]
     /\ Open(x) => Armed(task[p])
     /\ Open(x) /\ executed[task[p].id] = 1 => x.mode # "ask"

(* A task takes up a delivery inside the lock, and enters it past the gate. *)
Passes(p, t) ==
  /\ t.pc \in Delivering =>
       \/ task[p].pc \in Delivering /\ t.id = task[p].id
       \/ task[p].pc \in Locked
  /\ t.pc \in Locked => \A q \in Tasks \ {p} : task[q].pc \in Delivering =>
       /\ t.op \notin Replies
       /\ t.op \in Clicks \cup {"recheck"} => t.id # task[q].id

(* It arms itself only for an event no other task is armed for. *)
Arms(p, t) ==
  Armed(t) => \/ Armed(task[p]) /\ t.id = task[p].id
              \/ \A q \in Tasks \ {p} : Armed(task[q]) => task[q].id # t.id

(* It names only stored events, or a new one. *)
Names(t) ==
  /\ t.pc = "create" => stored'[t.id] = None
  /\ t.id \in Events /\ t.pc # "create" => stored'[t.id] # None
  /\ \A r \in reminders' : r \in reminders \/ stored'[r.id] # None
  /\ \A e \in shown' : e \in shown \/ stored'[e] # None
  /\ \A e \in Events : snap'[e] # None => snap[e] # None \/ stored'[e] # None

Disciplined(p, t, x) ==
  /\ Become(p, t) /\ Writes(p, x) /\ Passes(p, t) /\ Arms(p, t) /\ Names(t)
  /\ t.pc = "claim" => ~Open(t.ev)
  /\ t.pc \in {"execute", "trigger", "save"} /\ Armed(t) => ~Open(stored'[t.id])
  /\ t.pc = "auto" => /\ t.ev.mode = "auto"
                      /\ Open(stored'[t.id]) => stored'[t.id].mode # "ask"

(* After a disciplined step the other tasks are as before. *)
LEMMA OthersStay ==
  ASSUME IInv, NEW p \in Tasks, NEW t, Become(p, t)
  PROVE  task'[p] = t /\ \A q \in Tasks \ {p} : task'[q] = task[q]
BY DEF IInv, TypeOK, Become

(* Only one task at a time stands inside the lock. *)
LEMMA OneInside ==
  ASSUME LockHeld, NEW p \in Tasks, NEW q \in Tasks,
         task[p].pc \in Locked, task[q].pc \in Locked
  PROVE  p = q
BY DEF LockHeld

(* What a disciplined step does to the events of other tasks. *)
LEMMA WritesElsewhere ==
  ASSUME IInv, ClaimInv, NEW p \in Tasks, NEW x, Writes(p, x),
         NEW q \in Tasks \ {p}, Armed(task[q])
  PROVE  \/ stored'[task[q].id] = stored[task[q].id]
         \/ stored'[task[q].id] # None /\ ~Open(stored'[task[q].id])
<1>1. CASE stored' = stored
  BY <1>1
<1>2. CASE stored' # stored
  <2>1. /\ task[p].id \in Events /\ x \in Event
        /\ stored' = [stored EXCEPT ![task[p].id] = x]
        /\ Open(x) => Armed(task[p])
    BY <1>2 DEF Writes
  <2>2. stored \in [Events -> Event \cup {None}]
    BY DEF IInv, TypeOK
  <2>3. CASE task[q].id # task[p].id
    BY <2>1, <2>2, <2>3
  <2>4. CASE task[q].id = task[p].id
    <3>1. ~Armed(task[p])
      BY <2>4 DEF ClaimInv, Alone
    <3>2. stored'[task[q].id] = x /\ x # None
      BY <2>1, <2>2, <2>4, AgentNullAssumption
    <3> QED
      BY <2>1, <3>1, <3>2
  <2> QED
    BY <2>3, <2>4
<1> QED
  BY <1>1, <1>2

(* No event is ever deleted. *)
LEMMA EventsStay ==
  ASSUME IInv, NEW p \in Tasks, NEW x, Writes(p, x), NEW e \in Events, Known(e)
  PROVE  Known(e)'
BY AgentNullAssumption DEF Writes, Known, IInv, TypeOK

(* Whoever passes the gate keeps meeting no delivery. *)
LEMMA GateKept ==
  ASSUME IInv, ClaimInv, NEW p \in Tasks, NEW t, Become(p, t), Passes(p, t)
  PROVE  Gate'
<1> SUFFICES ASSUME NEW q \in Tasks, NEW r \in Tasks,
                    task'[q].pc \in Locked, task'[r].pc \in Delivering
             PROVE  /\ task'[q].op \notin Replies
                    /\ task'[q].op \in Clicks \cup {"recheck"} =>
                         task'[q].id # task'[r].id
  BY DEF Gate
<1>1. task'[p] = t /\ \A s \in Tasks \ {p} : task'[s] = task[s]
  BY OthersStay
<1>2. q # r
  BY Places
<1>3. CASE q = p
  BY <1>1, <1>2, <1>3 DEF Passes
<1>4. CASE r = p
  <2>1. task[q].pc \in Locked /\ q # p
    BY <1>1, <1>2, <1>4
  <2>2. task[p].pc \notin Locked
    BY <2>1, OneInside DEF IInv
  <2> QED
    BY <1>1, <1>4, <2>1, <2>2 DEF Passes, ClaimInv, Gate
<1>5. CASE q # p /\ r # p
  BY <1>1, <1>5 DEF ClaimInv, Gate
<1> QED
  BY <1>3, <1>4, <1>5

(* Names stay names of stored events. *)
LEMMA RealKept ==
  ASSUME IInv, ClaimInv, NEW p \in Tasks, NEW t, NEW x,
         Become(p, t), Writes(p, x), Names(t), IInv'
  PROVE  Real'
<1>1. task'[p] = t /\ \A s \in Tasks \ {p} : task'[s] = task[s]
  BY OthersStay
<1>2. \A e \in Events : Known(e) => stored'[e] # None
  BY EventsStay DEF Known
<1>3. ASSUME NEW q \in Tasks
      PROVE  /\ task'[q].pc = "create" => stored'[task'[q].id] = None
             /\ task'[q].id \in Events /\ task'[q].pc # "create" =>
                  stored'[task'[q].id] # None
  <2>1. CASE q = p
    BY <1>1, <2>1 DEF Names, Known
  <2>2. CASE q # p /\ task'[q].pc # "create"
    BY <1>1, <1>2, <2>2 DEF ClaimInv, Real, Known
  <2>3. CASE q # p /\ task'[q].pc = "create"
    <3>1. task[q] = task'[q] /\ task[q].pc = "create" /\ ~Known(task[q].id)
          /\ task[q].id \in Events
      BY <1>1, <2>3, Holds DEF ClaimInv, Real, Copying, Pcs, Locked
    <3>2. task[p].pc # "create"
      BY <2>3, <3>1, OneInside DEF IInv, Locked
    <3>3. task[p].id # task[q].id
      BY <3>1, <3>2 DEF ClaimInv, Real
    <3>4. stored'[task[q].id] = stored[task[q].id]
      BY <3>1, <3>3 DEF Writes, IInv, TypeOK
    <3> QED
      BY <2>3, <3>1, <3>4 DEF Known
  <2> QED
    BY <2>1, <2>2, <2>3
<1>4. \A r \in reminders' : stored'[r.id] # None
  <2> SUFFICES ASSUME NEW r \in reminders' PROVE stored'[r.id] # None
    OBVIOUS
  <2>1. CASE r \in reminders
    BY <1>2, <2>1 DEF ClaimInv, Real, IInv, TypeOK, Reminder
  <2> QED
    BY <2>1 DEF Names
<1>5. \A e \in shown' : stored'[e] # None
  BY <1>2 DEF Names, ClaimInv, Real, IInv, TypeOK
<1>6. \A e \in Events : snap'[e] # None => stored'[e] # None
  BY <1>2 DEF Names, ClaimInv, Real
<1> QED
  BY <1>3, <1>4, <1>5, <1>6 DEF Real, Known

(* No second task is armed for an event. *)
LEMMA AloneKept ==
  ASSUME IInv, ClaimInv, NEW p \in Tasks, NEW t, Become(p, t), Arms(p, t)
  PROVE  Alone'
<1>1. task'[p] = t /\ \A s \in Tasks \ {p} : task'[s] = task[s]
  BY OthersStay
<1>2. \A q \in Tasks \ {p} : Armed(t) /\ Armed(task[q]) => task[q].id # t.id
  BY DEF Arms, ClaimInv, Alone
<1>3. ASSUME NEW q \in Tasks, NEW r \in Tasks, q # r,
             Armed(task'[q]), Armed(task'[r])
      PROVE  task'[q].id # task'[r].id
  <2>1. CASE q = p
    BY <1>1, <1>2, <1>3, <2>1
  <2>2. CASE r = p
    BY <1>1, <1>2, <1>3, <2>2
  <2>3. CASE q # p /\ r # p
    BY <1>1, <1>3, <2>3 DEF ClaimInv, Alone
  <2> QED
    BY <2>1, <2>2, <2>3
<1> QED
  BY <1>3 DEF Alone, Armed

(* What was closed stays closed while somebody relies on it. *)
LEMMA ClosedBeforeKept ==
  ASSUME IInv, ClaimInv, NEW p \in Tasks, NEW t, NEW x, Disciplined(p, t, x)
  PROVE  \A q \in Tasks : ClosedBefore(task[q])'
<1>1. task'[p] = t /\ \A s \in Tasks \ {p} : task'[s] = task[s]
  BY OthersStay DEF Disciplined
<1> SUFFICES ASSUME NEW q \in Tasks PROVE ClosedBefore(task[q])'
  OBVIOUS
<1>2. CASE q = p
  BY <1>1, <1>2 DEF Disciplined, ClosedBefore, Armed
<1>3. CASE q # p
  <2>1. ClosedBefore(task[q])
    BY DEF ClaimInv
  <2>2. Armed(task[q]) =>
           \/ stored'[task[q].id] = stored[task[q].id]
           \/ stored'[task[q].id] # None /\ ~Open(stored'[task[q].id])
    BY <1>3, WritesElsewhere DEF Disciplined
  <2>3. task[q].pc = "auto" => Armed(task[q])
    BY DEF Armed, Delivering
  <2> QED
    BY <1>1, <1>3, <2>1, <2>2, <2>3 DEF ClosedBefore, Armed
<1> QED
  BY <1>2, <1>3

(* What was executed is not asked about again. *)
LEMMA SpentKept ==
  ASSUME IInv, ClaimInv, NEW p \in Tasks, NEW t, NEW x, Become(p, t), Writes(p, x),
         UNCHANGED executed, \A e \in Events : SpentFor(e, t)
  PROVE  Spent'
<1>1. task'[p] = t /\ \A s \in Tasks \ {p} : task'[s] = task[s]
  BY OthersStay
<1>2. ASSUME NEW e \in Events, executed[e] = 1
      PROVE  /\ Known(e)'
             /\ Open(stored'[e]) => stored'[e].mode # "ask"
  <2>1. Known(e) /\ (Open(stored[e]) => stored[e].mode # "ask")
    BY <1>2 DEF ClaimInv, Spent
  <2>2. Known(e)'
    BY <2>1, EventsStay
  <2>3. stored'[e] = stored[e] \/ (Open(stored'[e]) => stored'[e].mode # "ask")
    BY <1>2 DEF Writes, IInv, TypeOK
  <2> QED
    BY <2>1, <2>2, <2>3
<1>3. \A e \in Events, q \in Tasks : SpentFor(e, task'[q])
  BY <1>1 DEF ClaimInv, Spent
<1> QED
  BY <1>2, <1>3 DEF ClaimInv, Spent, SpentFor, Armed

(* A disciplined step that executes nothing keeps the whole invariant. *)
LEMMA DisciplinedKeeps ==
  ASSUME IInv, ClaimInv, IInv', NEW p \in Tasks, NEW t, NEW x, Disciplined(p, t, x),
         UNCHANGED executed, \A e \in Events : SpentFor(e, t)
  PROVE  ClaimInv'
<1>1. /\ Become(p, t) /\ Writes(p, x) /\ Passes(p, t) /\ Arms(p, t) /\ Names(t)
  BY DEF Disciplined
<1> QED
  BY <1>1, GateKept, RealKept, AloneKept, ClosedBeforeKept, SpentKept DEF ClaimInv

(* The same for the step that executes the action. *)
LEMMA PerformKeeps ==
  ASSUME IInv, ClaimInv, IInv', NEW p \in Tasks, NEW t, Disciplined(p, t, None),
         task[p].pc \in {"auto", "execute"}, UNCHANGED stored,
         Perform(task[p].id),
         Armed(t) => t.pc = "deliver" /\ t.ev.mode # "ask"
  PROVE  ClaimInv'
<1> DEFINE e == task[p].id
<1>1. /\ Become(p, t) /\ Writes(p, None) /\ Passes(p, t) /\ Arms(p, t) /\ Names(t)
  BY DEF Disciplined
<1>2. e \in Events /\ Armed(task[p]) /\ ClosedBefore(task[p]) /\ Known(e)
  BY Holds DEF Copying, Pcs, Locked, Armed, Delivering, ClaimInv, Real
<1>3. executed \in [Events -> Nat] /\ executed[e] # 1 /\ executed[e] <= 1
  BY <1>2 DEF ClaimInv, Spent, SpentFor, IInv, TypeOK
<1>4. /\ executed'[e] = 1
      /\ \A f \in Events : f # e => executed'[f] = executed[f]
  BY <1>2, <1>3 DEF Perform
<1>5. task'[p] = t /\ \A s \in Tasks \ {p} : task'[s] = task[s]
  BY <1>1, OthersStay
<1>6. Open(stored[e]) => stored[e].mode # "ask"
  BY <1>2 DEF ClosedBefore
<1>7. ASSUME NEW f \in Events
      PROVE  /\ executed'[f] <= 1
             /\ executed'[f] = 1 => /\ Known(f)
                                    /\ Open(stored[f]) => stored[f].mode # "ask"
  <2>1. CASE f = e
    BY <1>2, <1>4, <1>6, <2>1
  <2>2. CASE f # e
    BY <1>4, <2>2 DEF ClaimInv, Spent
  <2> QED
    BY <2>1, <2>2
<1>8. ASSUME NEW f \in Events, NEW q \in Tasks,
             executed'[f] = 1, task'[q].id = f, Armed(task'[q])
      PROVE  /\ task'[q].pc \notin {"create", "auto", "claim", "execute"}
             /\ task'[q].ev.mode # "ask"
  <2>1. CASE q = p
    BY <1>5, <1>8, <2>1
  <2>2. CASE q # p /\ f = e
    BY <1>2, <1>5, <1>8, <2>2 DEF ClaimInv, Alone
  <2>3. CASE q # p /\ f # e
    <3>1. SpentFor(f, task[q])
      BY DEF ClaimInv, Spent
    <3> QED
      BY <1>4, <1>5, <1>8, <2>3, <3>1 DEF SpentFor
  <2> QED
    BY <2>1, <2>2, <2>3
<1>9. Spent'
  BY <1>7, <1>8 DEF Spent, SpentFor, Armed, Known
<1> QED
  BY <1>1, <1>9, GateKept, RealKept, AloneKept, ClosedBeforeKept DEF ClaimInv

(* Inside the lock and past the gate, an open event has no armed task. *)
LEMMA FreeToArm ==
  ASSUME IInv, ClaimInv, NEW p \in Tasks, task[p].pc \in Locked,
         NEW e \in Events, Open(stored[e]),
         \/ task[p].op \in Clicks \cup {"recheck"} /\ task[p].id = e
         \/ task[p].op \in Replies
  PROVE  \A q \in Tasks \ {p} : Armed(task[q]) => task[q].id # e
<1> SUFFICES ASSUME NEW q \in Tasks \ {p}, Armed(task[q]), task[q].id = e PROVE FALSE
  OBVIOUS
<1>1. task[q].pc \notin Locked
  BY OneInside DEF IInv
<1>2. task[q].pc \notin Delivering
  BY DEF ClaimInv, Gate
<1>3. task[q].pc \in {"execute", "trigger", "save"}
  BY <1>1, <1>2 DEF Armed, Locked
<1> QED
  BY <1>3 DEF ClaimInv, ClosedBefore

(* Facts about a task that is not armed hold trivially. *)
LEMMA Unarmed ==
  ASSUME NEW t, ~Armed(t)
  PROVE  /\ \A p : Arms(p, t)
         /\ \A e : SpentFor(e, t)
         /\ t.pc \notin Delivering \cup {"create", "claim", "auto"}
BY DEF Arms, SpentFor, Armed, Delivering

(* A task that does not touch the store, and arms itself for nothing. *)
LEMMA IdleKeeps ==
  ASSUME IInv, ClaimInv, IInv', NEW p \in Tasks, NEW x, Become(p, Idle), Writes(p, x),
         UNCHANGED <<executed, snap>>,
         \A r \in reminders' : r \in reminders,
         \A e \in shown' : e \in shown
  PROVE  ClaimInv'
<1>1. ~Armed(Idle) /\ Idle.pc \notin Locked /\ Idle.id \notin Events
      /\ Idle.pc = "idle"
  BY AgentNullAssumption DEF Idle, Armed, Delivering, Locked
<1>2. Disciplined(p, Idle, x) /\ \A e \in Events : SpentFor(e, Idle)
  BY <1>1, Unarmed DEF Disciplined, Passes, Names
<1> QED
  BY <1>2, DisciplinedKeeps

(* A handler that asks for the lock is not armed, but names a stored event. *)
LEMMA AskKeeps ==
  ASSUME IInv, ClaimInv, IInv', NEW p \in Tasks, NEW t \in Task, Become(p, t),
         t.pc = "lock", t.id \in Events => Known(t.id),
         UNCHANGED <<stored, executed, snap, shown>>,
         \A r \in reminders' : r \in reminders
  PROVE  ClaimInv'
<1>1. ~Armed(t) /\ t.pc \notin Locked
  BY DEF Armed, Delivering, Locked
<1>2. Disciplined(p, t, None) /\ \A e \in Events : SpentFor(e, t)
  BY <1>1, Unarmed DEF Disciplined, Passes, Names, Writes, Known
<1> QED
  BY <1>2, DisciplinedKeeps

-------------------------------------------------------------------------------
(* Every step keeps it, when nothing meets a delivery *)

(* Entering the lock passes the gate: no delivery is met. *)
LEMMA AcquireClaims ==
  ASSUME IInv, ClaimInv, IInv', ~DeliveryRaces, NEW p \in Tasks, Acquire(p)
  PROVE  ClaimInv'
<1> DEFINE t == [task[p] EXCEPT !.pc = "read"]
<1>1. task[p] \in Task /\ task[p].pc = "lock" /\ ~Overlaps(p) /\ Become(p, t)
  BY Holds DEF Acquire, At, Goto
<1>2. t \in Task /\ t.pc = "read" /\ t.id = task[p].id /\ t.op = task[p].op
  BY <1>1 DEF Task, Pcs, Locked
<1> HIDE DEF t
<1>3. ~Armed(t)
  BY <1>2 DEF Armed, Delivering
<1>4. Passes(p, t)
  <2>1. \A q \in Tasks : task[q].pc \in Delivering => task[q].id \in BeingDelivered
    BY DEF BeingDelivered
  <2> QED
    BY <1>1, <1>2, <2>1 DEF Overlaps, Passes, Delivering
<1>5. Names(t)
  BY <1>1, <1>2 DEF Names, Acquire, boot, ClaimInv, Real, Known
<1>6. Disciplined(p, t, None)
  BY <1>1, <1>2, <1>3, <1>4, <1>5, Unarmed DEF Disciplined, Writes, Acquire
<1> QED
  BY <1>3, <1>6, Unarmed, DisciplinedKeeps DEF Acquire

(* Only an armed task saves an open copy, and never of an executed question. *)
LEMMA SaveClaims ==
  ASSUME IInv, ClaimInv, IInv', NEW p \in Tasks, Save(p)
  PROVE  ClaimInv'
<1>1. /\ task[p].pc \in {"save", "saveLocked"}
      /\ task[p].id \in Events /\ task[p].ev \in Event
  BY Holds DEF Save, At, Copying, Pcs, Locked
<1>2. Writes(p, task[p].ev)
  BY <1>1 DEF Save, SaveCopy, Writes, Armed, Open, ClaimInv, Spent, SpentFor
<1> QED
  BY <1>2, IdleKeeps DEF Save, boot

(* Asking for the lock arms nobody. *)
LEMMA StartClaims ==
  ASSUME IInv, ClaimInv, IInv', NEW p \in Tasks,
         StartSignal(p) \/ StartClick(p) \/ StartVoice(p)
  PROVE  ClaimInv'
<1>1. CASE StartSignal(p)
  <2>1. PICK s \in Signals :
          Begin(p, [Idle EXCEPT !.pc = "lock", !.op = "signal",
                     !.ev = [key |-> s[1], mode |-> s[2], state |-> "active",
                             expires |-> now + Life, upd |-> now, until |-> 0,
                             tts |-> FALSE]])
    BY <1>1 DEF StartSignal
  <2> DEFINE t == [Idle EXCEPT !.pc = "lock", !.op = "signal",
                     !.ev = [key |-> s[1], mode |-> s[2], state |-> "active",
                             expires |-> now + Life, upd |-> now, until |-> 0,
                             tts |-> FALSE]]
  <2>2. t.pc = "lock" /\ t.id \notin Events
    BY AgentNullAssumption DEF Idle
  <2>3. Become(p, t) /\ t \in Task
    <3>1. Become(p, t)
      BY <2>1 DEF Begin
    <3>2. task'[p] = t /\ task'[p] \in Task
      BY <3>1, OthersStay DEF IInv, TypeOK
    <3> QED
      BY <3>1, <3>2
  <2> HIDE DEF t
  <2> QED
    BY <1>1, <2>2, <2>3, AskKeeps DEF StartSignal, boot
<1>2. CASE StartClick(p)
  <2>1. PICK e \in shown, c \in Clicks :
          StartAnswer(p, [Idle EXCEPT !.pc = "lock", !.op = c, !.id = e])
    BY <1>2 DEF StartClick
  <2> DEFINE t == [Idle EXCEPT !.pc = "lock", !.op = c, !.id = e]
  <2>2. t.pc = "lock" /\ t.id = e /\ Known(e)
    BY DEF Idle, ClaimInv, Real
  <2>3. Become(p, t) /\ t \in Task
    <3>1. Become(p, t)
      BY <2>1 DEF StartAnswer, Begin
    <3>2. task'[p] = t /\ task'[p] \in Task
      BY <3>1, OthersStay DEF IInv, TypeOK
    <3> QED
      BY <3>1, <3>2
  <2>4. UNCHANGED <<stored, executed, snap, shown, reminders>>
    BY <2>1 DEF StartAnswer, boot
  <2> HIDE DEF t
  <2> QED
    BY <2>2, <2>3, <2>4, AskKeeps
<1>3. CASE StartVoice(p)
  <2>1. PICK r \in Replies :
          StartAnswer(p, [Idle EXCEPT !.pc = "lock", !.op = r, !.at = now,
                                      !.heard = Questions])
    BY <1>3 DEF StartVoice
  <2> DEFINE t == [Idle EXCEPT !.pc = "lock", !.op = r, !.at = now,
                               !.heard = Questions]
  <2>2. t.pc = "lock" /\ t.id \notin Events
    BY AgentNullAssumption DEF Idle
  <2>3. Become(p, t) /\ t \in Task
    <3>1. Become(p, t)
      BY <2>1 DEF StartAnswer, Begin
    <3>2. task'[p] = t /\ task'[p] \in Task
      BY <3>1, OthersStay DEF IInv, TypeOK
    <3> QED
      BY <3>1, <3>2
  <2>4. UNCHANGED <<stored, executed, snap, shown, reminders>>
    BY <2>1 DEF StartAnswer, boot
  <2> HIDE DEF t
  <2> QED
    BY <2>2, <2>3, <2>4, AskKeeps
<1> QED
  BY <1>1, <1>2, <1>3

(* A reminder arms nobody before its re-check has the lock. *)
LEMMA FireClaims ==
  ASSUME IInv, ClaimInv, IInv', NEW p \in Tasks, Fire(p)
  PROVE  ClaimInv'
<1>1. PICK r \in reminders : reminders' = reminders \ {r} /\ Begin(p, Recheck(r.id))
  BY DEF Fire
<1>2. r.id \in Events /\ Known(r.id) /\ Recheck(r.id).id = r.id
  BY DEF ClaimInv, Real, IInv, TypeOK, Reminder, Recheck, Idle
<1> QED
  BY <1>1, <1>2, RecheckShape, AskKeeps DEF Fire, Begin, boot

(* A new id has no other armed task, for every named event is stored. *)
LEMMA ReadSignalClaims ==
  ASSUME IInv, ClaimInv, IInv', NEW p \in Tasks, ReadSignal(p)
  PROVE  ClaimInv'
<1>1. task[p] \in Task /\ task[p].pc = "read" /\ task[p].pc \in Locked
      /\ task[p].op = "signal"
  BY Holds DEF ReadSignal, Reading, At, Locked
<1>2. UNCHANGED <<stored, executed, snap, shown, reminders>>
  BY DEF ReadSignal, boot
<1>3. CASE Quit(p)
  BY <1>2, <1>3, IdleKeeps DEF Quit, Writes
<1>4. CASE \E e \in Fresh :
             Become(p, [task[p] EXCEPT !.pc = "create", !.id = e])
  <2>1. PICK e \in Fresh : Become(p, [task[p] EXCEPT !.pc = "create", !.id = e])
    BY <1>4
  <2> DEFINE t == [task[p] EXCEPT !.pc = "create", !.id = e]
  <2>2. t.pc = "create" /\ t.id = e /\ t.op = "signal"
    BY <1>1 DEF Task
  <2>3. e \in Events /\ stored[e] = None /\ ~Known(e)
    BY DEF Fresh, Known
  <2>4. \A q \in Tasks \ {p} : Armed(task[q]) => task[q].id # e
    <3> SUFFICES ASSUME NEW q \in Tasks \ {p}, Armed(task[q]), task[q].id = e
                 PROVE  FALSE
      OBVIOUS
    <3>1. task[q].pc # "create"
      BY <1>1, OneInside DEF IInv, Locked
    <3> QED
      BY <2>3, <3>1 DEF ClaimInv, Real
  <2>5. Passes(p, t)
    BY <2>2 DEF Passes, Delivering, Replies, Clicks
  <2>6. Names(t)
    BY <1>2, <2>2, <2>3 DEF Names
  <2>7. \A f \in Events : SpentFor(f, t)
    BY <2>2, <2>3 DEF SpentFor, ClaimInv, Spent
  <2>8. Disciplined(p, t, None)
    BY <1>2, <2>1, <2>2, <2>4, <2>5, <2>6 DEF Disciplined, Writes, Arms
  <2> HIDE DEF t
  <2> QED
    BY <1>2, <2>7, <2>8, DisciplinedKeeps
<1> QED
  BY <1>3, <1>4 DEF ReadSignal

(* Preparing a snooze keeps the one armed task armed. *)
LEMMA RemindClaims ==
  ASSUME IInv, ClaimInv, IInv', NEW p \in Tasks, Remind(p)
  PROVE  ClaimInv'
<1> DEFINE due == now + Snooze
           x == [In(task[p].ev, "snoozed") EXCEPT !.until = due]
           t == [task[p] EXCEPT !.pc = "saveLocked", !.ev = x]
<1>1. /\ task[p] \in Task /\ task[p].pc = "remind" /\ task[p].pc \in Locked
      /\ task[p].id \in Events /\ task[p].ev \in Event
  BY Holds DEF Remind, At, Locked, Copying, Pcs
<1>2. UNCHANGED <<stored, executed, snap, shown>>
  BY DEF Remind, boot
<1>3. CASE UNCHANGED reminders /\ Quit(p)
  BY <1>2, <1>3, IdleKeeps DEF Quit, Writes
<1>4. CASE /\ reminders' = reminders \cup {[id |-> task[p].id, due |-> due]}
           /\ With(p, "saveLocked", x)
  <2>1. x.mode = task[p].ev.mode
    BY <1>1 DEF In, Event
  <2>2. /\ t.pc = "saveLocked" /\ t.id = task[p].id /\ t.op = task[p].op
        /\ t.ev = x /\ Become(p, t)
    BY <1>1, <1>4 DEF With, Task
  <2>3. Armed(task[p]) /\ Known(task[p].id)
    BY <1>1 DEF Armed, ClaimInv, Real
  <2> HIDE DEF t, x
  <2>4. Passes(p, t)
    BY <1>1, <2>2 DEF Passes, Delivering, ClaimInv, Gate
  <2>5. Names(t)
    BY <1>2, <1>4, <2>2, <2>3 DEF Names, Known
  <2>6. \A f \in Events : SpentFor(f, t)
    BY <1>1, <2>1, <2>2, <2>3 DEF SpentFor, ClaimInv, Spent
  <2>7. Disciplined(p, t, None)
    BY <1>2, <2>2, <2>3, <2>4, <2>5 DEF Disciplined, Writes, Arms
  <2> QED
    BY <1>2, <2>6, <2>7, DisciplinedKeeps
<1> QED
  BY <1>3, <1>4 DEF Remind

(* A task that moves on keeps its event and its operation. *)
LEMMA Moved ==
  ASSUME IInv, NEW p \in Tasks, NEW to, NEW x,
         With(p, to, x) \/ (x = task[p].ev /\ Goto(p, to))
  PROVE  \E t : /\ Become(p, t) /\ t.pc = to /\ t.ev = x
                /\ t.id = task[p].id /\ t.op = task[p].op /\ t.at = task[p].at
<1>1. task[p] \in Task
  BY Holds
<1>2. CASE With(p, to, x)
  <2> DEFINE t == [task[p] EXCEPT !.pc = to, !.ev = x]
  <2>1. /\ Become(p, t) /\ t.pc = to /\ t.ev = x
        /\ t.id = task[p].id /\ t.op = task[p].op /\ t.at = task[p].at
    BY <1>1, <1>2 DEF With, Task
  <2> QED
    BY <2>1
<1>3. CASE x = task[p].ev /\ Goto(p, to)
  <2> DEFINE t == [task[p] EXCEPT !.pc = to]
  <2>1. /\ Become(p, t) /\ t.pc = to /\ t.ev = x
        /\ t.id = task[p].id /\ t.op = task[p].op /\ t.at = task[p].at
    BY <1>1, <1>3 DEF Goto, Task
  <2> QED
    BY <2>1
<1> QED
  BY <1>2, <1>3

(* A step of an armed task on its own event, which it may save as y. *)
LEMMA ArmedMoveKeeps ==
  ASSUME IInv, ClaimInv, IInv', NEW p \in Tasks, NEW to, NEW x \in Event, NEW y,
         With(p, to, x) \/ (x = task[p].ev /\ Goto(p, to)),
         Armed(task[p]), task[p].id \in Events,
         to \in Delivering => task[p].pc \in Delivering \cup Locked,
         to \notin Locked \cup {"claim", "create"},
         Writes(p, y), stored'[task[p].id] # None,
         UNCHANGED <<executed, snap, reminders>>,
         shown' \subseteq shown \cup {task[p].id},
         to \in {"execute", "trigger", "save"} =>
           ~Open(stored'[task[p].id]) \/ (to = "save" /\ ~Open(x)),
         to = "auto" => /\ x.mode = "auto"
                        /\ Open(stored'[task[p].id]) =>
                             stored'[task[p].id].mode # "ask",
         executed[task[p].id] = 1 => /\ to \notin {"auto", "execute"}
                                     /\ x.mode # "ask" \/ (to = "save" /\ ~Open(x))
  PROVE  ClaimInv'
<1>1. PICK t : /\ Become(p, t) /\ t.pc = to /\ t.ev = x
               /\ t.id = task[p].id /\ t.op = task[p].op
  BY Moved
<1>2. Passes(p, t)
  BY <1>1 DEF Passes
<1>3. Arms(p, t)
  BY <1>1 DEF Arms
<1>4. Names(t)
  BY <1>1 DEF Names
<1>5. to = "save" /\ ~Open(x) => ~Armed(t)
  BY <1>1, AgentNullAssumption DEF Armed, Open, Delivering
<1>6. \A e \in Events : SpentFor(e, t)
  BY <1>1, <1>5 DEF SpentFor
<1>7. Disciplined(p, t, y)
  BY <1>1, <1>2, <1>3, <1>4, <1>5 DEF Disciplined
<1> QED
  BY <1>6, <1>7, DisciplinedKeeps

(* A new event was never executed; its only armed task moves on. *)
LEMMA CreateClaims ==
  ASSUME IInv, ClaimInv, IInv', NEW p \in Tasks, Create(p)
  PROVE  ClaimInv'
<1> DEFINE x == task[p].ev
           e == task[p].id
<1>1. /\ task[p].pc = "create" /\ task[p].pc \in Locked /\ Armed(task[p])
      /\ e \in Events /\ x \in Event
  BY Holds DEF Create, At, Locked, Copying, Pcs, Armed
<1>2. executed[e] # 1
  BY <1>1 DEF ClaimInv, Spent, SpentFor
<1>3. /\ stored' = [stored EXCEPT ![e] = x] /\ stored'[e] = x /\ x # None
      /\ UNCHANGED <<executed, snap, reminders, shown>>
  BY <1>1, AgentNullAssumption DEF Create, SaveCopy, boot, IInv, TypeOK
<1>4. Writes(p, x)
  BY <1>1, <1>2, <1>3 DEF Writes
<1>5. CASE With(p, "save", In(x, "resolved"))
  <2>1. In(x, "resolved") \in Event /\ ~Open(In(x, "resolved"))
    BY <1>1, InType DEF States, Open, OpenStates, IInv
  <2> QED
    BY <1>1, <1>2, <1>3, <1>4, <1>5, <2>1, ArmedMoveKeeps DEF Delivering, Locked
<1>6. CASE Goto(p, "deliver")
  BY <1>1, <1>2, <1>3, <1>4, <1>6, ArmedMoveKeeps DEF Delivering, Locked
<1>7. CASE x.mode = "auto" /\ Goto(p, "auto")
  BY <1>1, <1>2, <1>3, <1>4, <1>7, ArmedMoveKeeps DEF Delivering, Locked
<1>8. CASE With(p, "deliver", [x EXCEPT !.mode = "ask"])
  <2>1. [x EXCEPT !.mode = "ask"] \in Event
    BY <1>1 DEF Event, Modes
  <2> QED
    BY <1>1, <1>2, <1>3, <1>4, <1>8, <2>1, ArmedMoveKeeps DEF Delivering, Locked
<1> QED
  BY <1>5, <1>6, <1>7, <1>8 DEF Create

(* The automatic action runs for the first time, on an event not asked about. *)
LEMMA AutoExecuteClaims ==
  ASSUME IInv, ClaimInv, IInv', NEW p \in Tasks, AutoExecute(p)
  PROVE  ClaimInv'
<1> DEFINE x == task[p].ev
           e == task[p].id
<1>1. /\ task[p].pc = "auto" /\ Armed(task[p]) /\ e \in Events /\ x \in Event
      /\ stored[e] # None /\ x.mode = "auto"
  BY Holds DEF AutoExecute, At, Locked, Copying, Pcs, Armed, Delivering, ClaimInv,
               Real, Known, ClosedBefore
<1>2. executed[e] # 1
  BY <1>1 DEF ClaimInv, Spent, SpentFor
<1>3. UNCHANGED <<stored, snap, reminders, shown>>
  BY DEF AutoExecute, boot
<1>4. Writes(p, None)
  BY <1>3 DEF Writes
<1>5. CASE Perform(e) /\ With(p, "deliver", [x EXCEPT !.state = "resolved"])
  <2>1. [x EXCEPT !.state = "resolved"].mode = "auto"
    BY <1>1 DEF Event
  <2>2. PICK t : /\ Become(p, t) /\ t.pc = "deliver" /\ t.id = e
                 /\ t.ev = [x EXCEPT !.state = "resolved"]
    BY <1>5, Moved
  <2>3. Passes(p, t) /\ Arms(p, t) /\ Names(t)
    BY <1>1, <1>3, <2>2 DEF Passes, Arms, Names, Delivering, Locked
  <2>4. Disciplined(p, t, None)
    BY <1>4, <2>2, <2>3 DEF Disciplined
  <2> QED
    BY <1>1, <1>3, <1>5, <2>1, <2>2, <2>4, PerformKeeps
<1>6. CASE UNCHANGED executed /\ With(p, "deliver", [x EXCEPT !.mode = "ask"])
  <2>1. [x EXCEPT !.mode = "ask"] \in Event
    BY <1>1 DEF Event, Modes
  <2> QED
    BY <1>1, <1>2, <1>3, <1>4, <1>6, <2>1, ArmedMoveKeeps DEF Delivering, Locked
<1> QED
  BY <1>5, <1>6 DEF AutoExecute

(* A delivery does not turn an executed event into a question. *)
LEMMA DeliverClaims ==
  ASSUME IInv, ClaimInv, IInv', NEW p \in Tasks, Deliver(p)
  PROVE  ClaimInv'
<1> DEFINE x == task[p].ev
           e == task[p].id
<1>1. /\ task[p].pc = "deliver" /\ Armed(task[p]) /\ e \in Events /\ x \in Event
      /\ stored[e] # None
  BY Holds DEF Deliver, At, Locked, Copying, Pcs, Armed, Delivering, ClaimInv,
               Real, Known
<1>2. executed[e] = 1 => x.mode # "ask"
  BY <1>1 DEF ClaimInv, Spent, SpentFor
<1>3. PICK b \in BOOLEAN : With(p, "store", [x EXCEPT !.tts = b])
  BY DEF Deliver
<1> DEFINE y == [x EXCEPT !.tts = b]
<1>4. y \in Event /\ y.mode = x.mode /\ With(p, "store", y)
  BY <1>1, <1>3 DEF Event
<1>5. /\ UNCHANGED <<stored, executed, snap, reminders>>
      /\ shown' \subseteq shown \cup {e} /\ stored'[e] # None
      /\ Writes(p, None)
  BY <1>1 DEF Deliver, boot, Writes
<1> HIDE DEF y
<1> QED
  BY <1>1, <1>2, <1>4, <1>5, ArmedMoveKeeps DEF Delivering, Locked

(* What a delivery leaves open was not executed as a question. *)
LEMMA StoreDeliveredClaims ==
  ASSUME IInv, ClaimInv, IInv', NEW p \in Tasks, StoreDelivered(p)
  PROVE  ClaimInv'
<1> DEFINE x == task[p].ev
           e == task[p].id
<1>1. /\ task[p].pc = "store" /\ Armed(task[p]) /\ e \in Events /\ x \in Event
  BY Holds DEF StoreDelivered, At, Locked, Copying, Pcs, Armed, Delivering
<1>2. executed[e] = 1 => x.mode # "ask"
  BY <1>1 DEF ClaimInv, Spent, SpentFor
<1>3. PICK s \in States : SaveCopy(p, In(x, s))
  BY <1>1 DEF StoreDelivered, States, OpenStates, Event
<1>4. In(x, s) \in Event /\ In(x, s).mode = x.mode
  BY <1>1, InType DEF IInv
<1>5. Writes(p, In(x, s))
  BY <1>1, <1>2, <1>3, <1>4 DEF Writes, SaveCopy
<1> QED
  BY <1>5, IdleKeeps DEF StoreDelivered, boot

(* A claim closes its event before the action may run. *)
LEMMA ClaimClaims ==
  ASSUME IInv, ClaimInv, IInv', NEW p \in Tasks, Claim(p)
  PROVE  ClaimInv'
<1> DEFINE x == task[p].ev
           e == task[p].id
<1>1. /\ task[p].pc = "claim" /\ Armed(task[p]) /\ e \in Events /\ x \in Event
      /\ ~Open(x)
  BY Holds DEF Claim, At, Locked, Copying, Pcs, Armed, ClaimInv, ClosedBefore
<1>2. executed[e] # 1
  BY <1>1 DEF ClaimInv, Spent, SpentFor
<1>3. /\ stored' = [stored EXCEPT ![e] = x] /\ stored'[e] = x /\ x # None
      /\ UNCHANGED <<executed, snap, reminders, shown>>
  BY <1>1, AgentNullAssumption DEF Claim, SaveCopy, boot, IInv, TypeOK
<1>4. Writes(p, x)
  BY <1>1, <1>3 DEF Writes
<1>5. CASE Become(p, Idle)
  BY <1>3, <1>4, <1>5, IdleKeeps
<1>6. CASE Goto(p, "execute")
  BY <1>1, <1>2, <1>3, <1>4, <1>6, ArmedMoveKeeps DEF Delivering, Locked
<1> QED
  BY <1>5, <1>6 DEF Claim

(* The claimed action runs for the first time, and its event is closed. *)
LEMMA ExecuteClaims ==
  ASSUME IInv, ClaimInv, IInv', NEW p \in Tasks, Execute(p)
  PROVE  ClaimInv'
<1> DEFINE x == task[p].ev
           e == task[p].id
<1>1. /\ task[p].pc = "execute" /\ Armed(task[p]) /\ e \in Events /\ x \in Event
      /\ stored[e] # None
  BY Holds DEF Execute, At, Locked, Copying, Pcs, Armed, Delivering, ClaimInv,
               Real, Known
<1>2. executed[e] # 1
  BY <1>1 DEF ClaimInv, Spent, SpentFor
<1>3. \A s \in {"resolved", "denied", "failed"} : In(x, s) \in Event /\ ~Open(In(x, s))
  BY <1>1, InType DEF States, Open, OpenStates, IInv
<1>4. UNCHANGED <<stored, snap, reminders, shown>> /\ Writes(p, None)
  BY DEF Execute, boot, Writes
<1>5. CASE Perform(e) /\ With(p, "save", In(x, "resolved"))
  <2>1. PICK t : /\ Become(p, t) /\ t.pc = "save" /\ t.id = e
                 /\ t.ev = In(x, "resolved")
    BY <1>5, Moved
  <2>2. ~Armed(t)
    BY <1>3, <2>1, AgentNullAssumption DEF Armed, Open, Delivering
  <2>3. Passes(p, t) /\ Names(t)
    BY <1>1, <1>4, <2>1 DEF Passes, Names, Delivering, Locked
  <2>4. Disciplined(p, t, None)
    BY <1>4, <2>1, <2>2, <2>3, Unarmed DEF Disciplined
  <2> QED
    BY <1>1, <1>4, <1>5, <2>2, <2>4, PerformKeeps
<1>6. CASE /\ \E s \in {"resolved", "denied", "failed"} : With(p, "save", In(x, s))
           /\ UNCHANGED executed
  <2>1. PICK s \in {"resolved", "denied", "failed"} : With(p, "save", In(x, s))
    BY <1>6
  <2> QED
    BY <1>1, <1>2, <1>3, <1>4, <1>6, <2>1, ArmedMoveKeeps DEF Delivering, Locked
<1> QED
  BY <1>5, <1>6 DEF Execute

(* A task that has read an open event arms itself for it. *)
LEMMA ReadMoveKeeps ==
  ASSUME IInv, ClaimInv, IInv', NEW p \in Tasks, NEW t, Become(p, t),
         NEW e \in Events, Open(stored[e]), t.id = e, t.op = task[p].op,
         task[p].pc \in Locked,
         \/ task[p].op \in Clicks \cup {"recheck"} /\ task[p].id = e
         \/ task[p].op \in Replies,
         t.pc \in {"remind", "expire", "deliver"} \/ (t.pc = "claim" /\ ~Open(t.ev)),
         UNCHANGED <<stored, executed, snap, reminders, shown>>,
         executed[e] = 1 => t.pc # "claim" /\ t.ev.mode # "ask"
  PROVE  ClaimInv'
<1>1. Passes(p, t)
  BY DEF Passes, ClaimInv, Gate
<1>2. Arms(p, t)
  BY FreeToArm DEF Arms
<1>3. Names(t)
  BY DEF Names, Open
<1>4. \A f \in Events : SpentFor(f, t)
  BY DEF SpentFor
<1>5. Disciplined(p, t, None)
  BY <1>1, <1>2, <1>3 DEF Disciplined, Writes
<1> QED
  BY <1>4, <1>5, DisciplinedKeeps

(* A task that has read its event and will save it closed. *)
LEMMA CloseMoveKeeps ==
  ASSUME IInv, ClaimInv, IInv', NEW p \in Tasks, NEW x \in Event,
         task[p].pc = "read", task[p].id \in Events, stored[task[p].id] # None,
         With(p, "saveLocked", x), ~Open(x),
         UNCHANGED <<stored, executed, snap, reminders, shown>>
  PROVE  ClaimInv'
<1>1. PICK t : /\ Become(p, t) /\ t.pc = "saveLocked" /\ t.ev = x
               /\ t.id = task[p].id /\ t.op = task[p].op
  BY Moved
<1>2. ~Armed(t)
  BY <1>1, AgentNullAssumption DEF Armed, Open, Delivering
<1>3. Passes(p, t)
  BY <1>1 DEF Passes, Delivering, Locked, ClaimInv, Gate
<1>4. Names(t)
  BY <1>1 DEF Names
<1>5. Disciplined(p, t, None)
  BY <1>1, <1>2, <1>3, <1>4, Unarmed DEF Disciplined, Writes
<1> QED
  BY <1>2, <1>5, Unarmed, DisciplinedKeeps

(* A click finds an open event without another armed task. *)
LEMMA ReadClickClaims ==
  ASSUME IInv, ClaimInv, IInv', NEW p \in Tasks, ReadClick(p)
  PROVE  ClaimInv'
<1> DEFINE e == task[p].id
           x == stored[e]
<1>1. /\ task[p].pc = "read" /\ task[p].pc \in Locked /\ task[p].op \in Clicks
      /\ e \in Events /\ x \in Event \cup {None}
  BY Holds DEF ReadClick, Reading, At, Locked
<1>2. UNCHANGED <<stored, executed, snap, reminders, shown>>
  BY DEF ReadClick, boot
<1>3. executed[e] = 1 /\ Open(x) => x.mode # "ask"
  BY <1>1 DEF ClaimInv, Spent
<1>4. Open(x) => /\ x \in Event
                 /\ \A s \in {"expired", "acknowledged"} :
                      In(x, s) \in Event /\ ~Open(In(x, s))
  BY <1>1, InType DEF Open, States, OpenStates, IInv
<1>5. CASE Quit(p)
  BY <1>2, <1>5, IdleKeeps DEF Quit, Writes
<1>6. CASE Open(x) /\ \E s \in {"expired", "acknowledged"} : With(p, "saveLocked", In(x, s))
  BY <1>1, <1>2, <1>4, <1>6, AgentNullAssumption, CloseMoveKeeps
<1>7. CASE Open(x) /\ With(p, "remind", x)
  <2>1. PICK t : /\ Become(p, t) /\ t.pc = "remind" /\ t.ev = x
                 /\ t.id = e /\ t.op = task[p].op
    BY <1>7, Moved
  <2> QED
    BY <1>1, <1>2, <1>3, <1>7, <2>1, ReadMoveKeeps
<1>8. CASE Open(x) /\ x.mode = "ask" /\ With(p, "claim", In(x, "acknowledged"))
  <2>1. PICK t : /\ Become(p, t) /\ t.pc = "claim" /\ t.ev = In(x, "acknowledged")
                 /\ t.id = e /\ t.op = task[p].op
    BY <1>8, Moved
  <2> QED
    BY <1>1, <1>2, <1>3, <1>4, <1>8, <2>1, ReadMoveKeeps
<1> QED
  BY <1>5, <1>6, <1>7, <1>8 DEF ReadClick

(* A reply finds its question without another armed task. *)
LEMMA ReadVoiceClaims ==
  ASSUME IInv, ClaimInv, IInv', NEW p \in Tasks, ReadVoice(p)
  PROVE  ClaimInv'
<1> DEFINE S == {e \in Events : Question(stored[e], task[p].at)}
           y(e) == [stored[e] EXCEPT !.state = "acknowledged", !.upd = task[p].at]
           t(e) == [task[p] EXCEPT !.pc = "claim", !.id = e, !.at = 0, !.ev = y(e)]
<1>1. /\ task[p] \in Task /\ task[p].pc = "read" /\ task[p].pc \in Locked
      /\ task[p].op \in Replies
  BY Holds DEF ReadVoice, Reading, At, Locked
<1>2. UNCHANGED <<stored, executed, snap, reminders, shown>>
  BY DEF ReadVoice, boot
<1>3. CASE Quit(p)
  BY <1>2, <1>3, IdleKeeps DEF Quit, Writes
<1>4. CASE \E e \in Addressed(S) : Become(p, t(e))
  <2>1. PICK e \in S : Become(p, t(e))
    BY <1>4, AddressedIs
  <2>2. stored[e] \in Event /\ Open(stored[e]) /\ stored[e].mode = "ask"
    BY DEF Question, Open, OpenStates, IInv, TypeOK
  <2>3. ~Open(y(e))
    BY <2>2 DEF Open, OpenStates, Event
  <2>4. executed[e] # 1
    BY <2>2 DEF ClaimInv, Spent
  <2>5. /\ t(e).pc = "claim" /\ t(e).id = e /\ t(e).op = task[p].op
        /\ t(e).ev = y(e)
    BY <1>1 DEF Task
  <2> HIDE DEF t, y
  <2> QED
    BY <1>1, <1>2, <2>1, <2>2, <2>3, <2>4, <2>5, ReadMoveKeeps
<1> QED
  BY <1>3, <1>4 DEF ReadVoice

(* A re-check finds a snoozed event without another armed task. *)
LEMMA ReadRecheckClaims ==
  ASSUME IInv, ClaimInv, IInv', NEW p \in Tasks, ReadRecheck(p)
  PROVE  ClaimInv'
<1> DEFINE e == task[p].id
           x == stored[e]
           y == [In(x, "active") EXCEPT !.until = 0]
<1>1. /\ task[p].pc = "read" /\ task[p].pc \in Locked /\ task[p].op = "recheck"
      /\ e \in Events /\ x \in Event \cup {None}
  BY Holds DEF ReadRecheck, Reading, At, Locked
<1>2. UNCHANGED <<stored, executed, snap, reminders, shown>>
  BY DEF ReadRecheck, boot
<1>3. Snoozed(x) => Open(x) /\ x \in Event
  BY <1>1 DEF Snoozed, Open, OpenStates
<1>4. executed[e] = 1 /\ Open(x) => x.mode # "ask"
  BY <1>1 DEF ClaimInv, Spent
<1>5. CASE Quit(p)
  BY <1>2, <1>5, IdleKeeps DEF Quit, Writes
<1>6. CASE Snoozed(x) /\ With(p, "saveLocked", In(x, "resolved"))
  <2>1. In(x, "resolved") \in Event /\ ~Open(In(x, "resolved"))
    BY <1>3, <1>6, InType DEF Open, States, OpenStates, IInv
  <2> QED
    BY <1>1, <1>2, <1>3, <1>6, <2>1, AgentNullAssumption, CloseMoveKeeps
<1>7. CASE Snoozed(x) /\ With(p, "expire", x)
  <2>1. PICK t : /\ Become(p, t) /\ t.pc = "expire" /\ t.ev = x
                 /\ t.id = e /\ t.op = task[p].op
    BY <1>7, Moved
  <2> QED
    BY <1>1, <1>2, <1>3, <1>4, <1>7, <2>1, ReadMoveKeeps
<1>8. CASE Snoozed(x) /\ With(p, "deliver", y)
  <2>1. In(x, "active") \in Event /\ In(x, "active").mode = x.mode
    BY <1>3, <1>8, InType DEF States, OpenStates, IInv
  <2>2. y.mode = x.mode
    BY <2>1 DEF Event
  <2>3. PICK t : /\ Become(p, t) /\ t.pc = "deliver" /\ t.ev = y
                 /\ t.id = e /\ t.op = task[p].op
    BY <1>8, Moved
  <2> HIDE DEF y
  <2> QED
    BY <1>1, <1>2, <1>3, <1>4, <1>8, <2>2, <2>3, ReadMoveKeeps
<1> QED
  BY <1>5, <1>6, <1>7, <1>8 DEF ReadRecheck

(* The event is closed before its automation is triggered. *)
LEMMA ExpireClaims ==
  ASSUME IInv, ClaimInv, IInv', NEW p \in Tasks, Expire(p)
  PROVE  ClaimInv'
<1> DEFINE x == task[p].ev
           e == task[p].id
           y == [In(x, "expired") EXCEPT !.until = 0]
<1>1. /\ task[p].pc = "expire" /\ Armed(task[p]) /\ e \in Events /\ x \in Event
  BY Holds DEF Expire, At, Locked, Copying, Pcs, Armed
<1>2. In(x, "expired") \in Event /\ In(x, "expired").state = "expired"
  BY <1>1, InType DEF States, IInv
<1>3. y \in Event /\ y.state = "expired"
  BY <1>2, Moments DEF Event
<1>4. executed[e] = 1 => x.mode # "ask"
  BY <1>1 DEF ClaimInv, Spent, SpentFor
<1>5. /\ stored' = [stored EXCEPT ![e] = y] /\ Goto(p, "trigger")
      /\ UNCHANGED <<executed, snap, reminders, shown>>
  BY DEF Expire, SaveCopy, boot
<1> HIDE DEF y
<1>6. stored'[e] = y /\ y # None /\ ~Open(y)
  BY <1>1, <1>3, <1>5, AgentNullAssumption DEF Open, OpenStates, IInv, TypeOK
<1>7. Writes(p, y)
  BY <1>1, <1>3, <1>5, <1>6 DEF Writes
<1> QED
  BY <1>1, <1>4, <1>5, <1>6, <1>7, ArmedMoveKeeps DEF Delivering, Locked

(* The event a failed trigger puts back is still closed until then. *)
LEMMA TriggerClaims ==
  ASSUME IInv, ClaimInv, IInv', NEW p \in Tasks, Trigger(p)
  PROVE  ClaimInv'
<1> DEFINE x == task[p].ev
           e == task[p].id
<1>1. /\ task[p].pc = "trigger" /\ Armed(task[p]) /\ e \in Events /\ x \in Event
      /\ stored[e] # None
  BY Holds DEF Trigger, At, Locked, Copying, Pcs, Armed, ClaimInv, Real, Known
<1>2. ~Open(stored[e])
  BY <1>1 DEF ClaimInv, ClosedBefore
<1>3. executed[e] = 1 => x.mode # "ask"
  BY <1>1 DEF ClaimInv, Spent, SpentFor
<1>4. In(x, "snoozed") \in Event /\ In(x, "snoozed").mode = x.mode
  BY <1>1, InType DEF States, OpenStates, IInv
<1>5. UNCHANGED <<stored, executed, snap, reminders, shown>> /\ Writes(p, None)
  BY DEF Trigger, boot, Writes
<1>6. CASE Become(p, Idle)
  BY <1>5, <1>6, IdleKeeps
<1>7. CASE With(p, "save", In(x, "snoozed"))
  BY <1>1, <1>2, <1>3, <1>4, <1>5, <1>7, ArmedMoveKeeps DEF Delivering, Locked
<1> QED
  BY <1>6, <1>7 DEF Trigger

(* A restart disarms everybody and changes no stored event. *)
LEMMA RestartClaims ==
  ASSUME IInv, ClaimInv, Restart
  PROVE  ClaimInv'
<1>1. /\ ~Armed(Idle) /\ Idle.pc \notin Locked /\ Idle.id \notin Events
      /\ Idle.pc \notin {"create", "auto", "claim"}
      /\ \A p \in Tasks : task'[p] = Idle
  BY AgentNullAssumption DEF Restart, Idle, Armed, Delivering, Locked
<1>2. /\ UNCHANGED <<stored, shown, executed>> /\ reminders' \subseteq reminders
      /\ \A e \in Events : snap'[e] = None
  BY DEF Restart, NoEvents
<1>3. Gate' /\ Alone'
  BY <1>1 DEF Gate, Alone, Armed
<1>4. Real'
  BY <1>1, <1>2 DEF Real, Known, ClaimInv
<1>5. Spent' /\ \A p \in Tasks : ClosedBefore(task[p])'
  BY <1>1, <1>2 DEF Spent, SpentFor, ClosedBefore, Armed, Known, ClaimInv
<1> QED
  BY <1>3, <1>4, <1>5 DEF ClaimInv

(* Steps that touch neither the store nor a task. *)
LEMMA BystanderClaims ==
  ASSUME IInv, ClaimInv, UNCHANGED <<stored, task, executed, reminders, shown>>,
         \A e \in Events : snap'[e] # None => Known(e)
  PROVE  ClaimInv'
BY DEF ClaimInv, Gate, Real, Alone, Spent, SpentFor, ClosedBefore, Armed, Known

(* The start-up loop either re-checks an event or closes it, never both. *)
LEMMA RecoverOneClaims ==
  ASSUME IInv, ClaimInv, IInv', NEW e \in Events, RecoverOne(e)
  PROVE  ClaimInv'
<1> DEFINE x == [snap[e] EXCEPT !.state = "expired", !.upd = bootAt]
<1>1. snap[e] \in Event /\ Known(e) /\ bootAt \in Moment /\ Boot \in Tasks
  BY Moments DEF RecoverOne, IInv, TypeOK, ClaimInv, Real, Tasks
<1>2. UNCHANGED <<executed, snap, reminders, shown>>
  BY DEF RecoverOne
<1>3. CASE Outdated(snap[e])
  <2>1. ~Resumes(snap[e])
    BY <1>1, <1>3 DEF Outdated, Resumes, Event, Moment
  <2>2. task' = task /\ stored' = [stored EXCEPT ![e] = x]
    BY <1>3, <2>1 DEF RecoverOne
  <2>3. x \in Event /\ x.state = "expired" /\ x # None
    BY <1>1, AgentNullAssumption DEF Event, States
  <2> HIDE DEF x
  <2>4. ~Open(x)
    BY <2>3 DEF Open, OpenStates
  <2>5. /\ stored'[e] = x /\ \A f \in Events : f # e => stored'[f] = stored[f]
    BY <2>2 DEF IInv, TypeOK
  <2>6. Gate' /\ Alone'
    BY <2>2 DEF ClaimInv, Gate, Alone, Armed
  <2>7. Real'
    <3>1. \A f \in Events : Known(f) <=> stored'[f] # None
      BY <1>1, <2>3, <2>5 DEF Known
    <3>2. /\ \A p \in Tasks : task[p].pc = "create" => task[p].id \in Events
          /\ \A r \in reminders : r.id \in Events
          /\ shown \subseteq Events
      BY Holds DEF IInv, TypeOK, Reminder, Copying, Pcs, Locked
    <3> QED
      BY <1>2, <2>2, <3>1, <3>2 DEF ClaimInv, Real, Known
  <2>8. Spent'
    BY <1>1, <1>2, <2>2, <2>3, <2>4, <2>5 DEF ClaimInv, Spent, SpentFor, Armed, Known
  <2>9. ASSUME NEW p \in Tasks PROVE ClosedBefore(task[p])'
    <3>1. ClosedBefore(task[p])
      BY DEF ClaimInv
    <3>2. CASE task[p].id = e
      BY <2>2, <2>4, <2>5, <3>1, <3>2 DEF ClosedBefore, Armed, Open
    <3>3. CASE task[p].id # e
      <4>1. task[p].pc \in Copying => stored'[task[p].id] = stored[task[p].id]
        BY <2>5, <3>3, Holds
      <4> QED
        BY <2>2, <3>1, <4>1 DEF ClosedBefore, Armed, Open, Copying, Pcs, Locked
    <3> QED
      BY <3>2, <3>3
  <2> QED
    BY <2>6, <2>7, <2>8, <2>9 DEF ClaimInv
<1>4. CASE ~Outdated(snap[e])
  <2>1. stored' = stored
    BY <1>4 DEF RecoverOne
  <2>2. CASE Become(Boot, Recheck(e))
    <3>1. Recheck(e).id = e
      BY DEF Recheck, Idle
    <3> QED
      BY <1>1, <1>2, <2>1, <2>2, <3>1, RecheckShape, AskKeeps
  <2>3. CASE UNCHANGED task
    BY <1>2, <2>1, <2>3, BystanderClaims DEF ClaimInv, Real
  <2> QED
    BY <2>2, <2>3 DEF RecoverOne
<1> QED
  BY <1>3, <1>4

(* At first nothing is stored, armed or executed. *)
LEMMA InitClaims == Init => ClaimInv
<1> SUFFICES ASSUME Init PROVE ClaimInv
  OBVIOUS
<1>1. /\ ~Armed(Idle) /\ Idle.pc \notin Locked /\ Idle.id \notin Events
      /\ Idle.pc \notin {"create", "auto", "claim"}
      /\ \A p \in Tasks : task[p] = Idle
  BY AgentNullAssumption DEF Init, Idle, Armed, Delivering, Locked
<1>2. Gate /\ Alone
  BY <1>1 DEF Gate, Alone
<1>3. Real
  BY <1>1 DEF Init, Real, NoEvents
<1>4. Spent /\ \A p \in Tasks : ClosedBefore(task[p])
  BY <1>1 DEF Init, Spent, SpentFor, ClosedBefore, NoEvents
<1> QED
  BY <1>2, <1>3, <1>4 DEF ClaimInv

(* The invariant is inductive when nothing meets a delivery. *)
LEMMA NextClaims == ~DeliveryRaces /\ IInv /\ ClaimInv /\ [Next]_vars => ClaimInv'
<1> SUFFICES ASSUME ~DeliveryRaces, IInv, ClaimInv, [Next]_vars PROVE ClaimInv'
  OBVIOUS
<1>1. IInv'
  BY NextKeeps
<1>2. ASSUME NEW p \in Tasks, Acquire(p) \/ Step(p) PROVE ClaimInv'
  BY <1>1, <1>2, AcquireClaims, SaveClaims, ReadSignalClaims, CreateClaims,
     AutoExecuteClaims, DeliverClaims, StoreDeliveredClaims, ReadClickClaims,
     RemindClaims, ReadVoiceClaims, ClaimClaims, ExecuteClaims, ReadRecheckClaims,
     ExpireClaims, TriggerClaims DEF Step
<1>3. ASSUME NEW p \in Workers,
             StartSignal(p) \/ StartClick(p) \/ StartVoice(p) \/ Fire(p)
      PROVE  ClaimInv'
  <2>1. p \in Tasks
    BY DEF Tasks
  <2> QED
    BY <1>1, <1>3, <2>1, StartClaims, FireClaims
<1>4. CASE Recover
  <2>1. CASE RecoverLoad
    BY <2>1, BystanderClaims DEF RecoverLoad, Known, loop, counters
  <2>2. CASE EndRecover
    BY <2>2, BystanderClaims DEF EndRecover, NoEvents, loop, counters
  <2> QED
    BY <1>1, <1>4, <2>1, <2>2, RecoverOneClaims DEF Recover
<1>5. CASE Restart
  BY <1>5, RestartClaims
<1>6. CASE Tick \/ AtRest \/ UNCHANGED vars
  BY <1>6, BystanderClaims
  DEF Tick, AtRest, vars, loop, boot, counters, ClaimInv, Real
<1> QED
  BY <1>2, <1>3, <1>4, <1>5, <1>6 DEF Next

(* The claim in async_handle_notification_action and                       *)
(* async_handle_voice_reply, for any number of events, handlers, answers   *)
(* and restarts: as long as nothing meets a delivery that is not stored,   *)
(* no action is executed twice.                                            *)
THEOREM AtMostOnce == ~DeliveryRaces => (Spec => []ExecutedOnce)
<1> SUFFICES ASSUME ~DeliveryRaces PROVE Spec => []ExecutedOnce
  OBVIOUS
<1>1. Init => ClaimInv
  BY InitClaims
<1>2. IInv /\ ClaimInv /\ [Next]_vars => ClaimInv'
  BY NextClaims
<1>3. ClaimInv => ExecutedOnce
  BY DEF ClaimInv, Spent, ExecutedOnce
<1> QED
  BY <1>1, <1>2, <1>3, InvariantHolds, PTL DEF Spec

-------------------------------------------------------------------------------
(* Answers stand, replies are unambiguous, and a key has one open event *)

(* No two tasks hold a copy of the same event. *)
OneWriter ==
  \A p, q \in Tasks :
    p # q /\ task[p].pc \in Copying /\ task[q].pc \in Copying =>
      task[p].id # task[q].id

(* An event nobody has been shown is known to the handler of its signal     *)
(* only, and has not been asked about yet.                                  *)
Silent(t) ==
  /\ t.op = "signal" /\ t.pc \in {"create", "auto", "deliver", "save"}
  /\ t.pc = "save" => t.ev.state = "resolved"
Quiet(x) == x = None \/ x.state \in {"active", "resolved", "expired"}

Hidden ==
  /\ \A p \in Tasks : task[p].id \in Events \ shown => Silent(task[p])
  /\ \A r \in reminders : r.id \in shown
  /\ \A e \in Events \ shown : Quiet(stored[e]) /\ Quiet(snap[e])

(* What the store st says of its event while task t works on a copy of it;  *)
(* sh are the events that were shown.  A copy that is still open is only    *)
(* written over an event that was not answered.                             *)
Answered == {"acknowledged", "resolved", "denied", "failed"}
Stands(t, st, sh) ==
  /\ t.op = "signal" /\ t.pc \in {"lock", "read", "create"} => t.ev.state = "active"
  /\ t.pc \in {"execute", "save"} /\ t.id \in sh => ~Open(st[t.id])
  /\ t.pc = "trigger" \/ (t.pc = "save" /\ Open(t.ev)) => st[t.id].state = "expired"
  /\ t.pc \in {"remind", "expire"} \/ (t.pc = "saveLocked" /\ Open(t.ev)) =>
       st[t.id].state \notin Answered
  /\ t.pc \in Delivering => Open(st[t.id])

(* A reply that has found its question found no other, and none comes       *)
(* before its claim: m is the time now.                                     *)
Voiced(t, st, m) ==
  /\ t.at <= m
  /\ t.pc \in {"save", "saveLocked"} => t.ev.state # "notified"
  /\ t.pc = "claim" /\ t.op \in Replies =>
       \A f \in Events \ {t.id} : ~Question(st[f], m)

(* A copy has the key of its event. *)
Keyed(t, st) == t.pc \in Copying \ {"create"} => t.ev.key = st[t.id].key

(* Who is about to open an event, or to leave it open, is inside the lock   *)
(* and has seen no other open event of its key.                             *)
Closed(e, k, st) == \A f \in Events \ {e} : Open(st[f]) => st[f].key # k
Sole(t, st) ==
  /\ t.pc \in {"create", "remind"} \/ (t.pc = "saveLocked" /\ Open(t.ev)) =>
       Closed(t.id, t.ev.key, st)
  /\ t.pc = "save" => ~Open(t.ev)

HandInv ==
  /\ OneWriter /\ Hidden
  /\ \A p \in Tasks : /\ Stands(task[p], stored, shown)
                      /\ Voiced(task[p], stored, now)
                      /\ Keyed(task[p], stored)
  /\ \A e \in Events : snap[e] # None => snap[e].key = stored[e].key
  /\ ~TriggerFails => OneOpenPerKey /\ \A p \in Tasks : Sole(task[p], stored)

(* What a step of task p does to the store: nothing, or it writes the one   *)
(* event it holds a copy of.                                                *)
Wrote(p, e) ==
  /\ task[p].pc \in Copying /\ e \in Events
  /\ stored'[e] \in Event
  /\ \A f \in Events \ {e} : stored'[f] = stored[f]
  /\ e \notin shown => Quiet(stored'[e])
  /\ stored'[e].state = "notified" => task[p].pc \in Delivering
  /\ Known(e) => stored'[e].key = stored[e].key
  /\ Known(e) /\ stored[e].state \in Answered => ~Open(stored'[e])
  /\ ~TriggerFails /\ Open(stored'[e]) =>
       \/ Open(stored[e])
       \/ task[p].pc \in Locked /\ Closed(e, stored'[e].key, stored)
Touches(p) == stored' = stored \/ Wrote(p, task[p].id)

(* It takes up only an event no other task holds a copy of. *)
Takes(p, t) ==
  t.pc \in Copying => \/ task[p].pc \in Copying /\ t.id = task[p].id
                      \/ \A q \in Tasks \ {p} : task[q].pc \in Copying =>
                           task[q].id # t.id

(* What becomes of the task is as the invariant wants it. *)
Fits(t) ==
  /\ t.id \in Events \ shown' => Silent(t)
  /\ Stands(t, stored', shown') /\ Voiced(t, stored', now) /\ Keyed(t, stored')
  /\ ~TriggerFails => Sole(t, stored')

(* The rest of the state. *)
Around(p) ==
  /\ \/ shown' = shown
     \/ /\ shown' = shown \cup {task[p].id} /\ task[p].pc \in Copying
        /\ stored' = stored
  /\ \A r \in reminders' : r.id \in shown'
  /\ UNCHANGED <<snap, now>>

Lawful(p, t) ==
  Become(p, t) /\ Touches(p) /\ Takes(p, t) /\ Fits(t) /\ Around(p)

(* A lawful step leaves the events of other tasks alone. *)
LEMMA OthersUntouched ==
  ASSUME IInv, HandInv, NEW p \in Tasks, NEW t, Lawful(p, t), NEW q \in Tasks \ {p}
  PROVE  /\ task'[q] = task[q]
         /\ task[q].pc \in Copying =>
              /\ stored'[task[q].id] = stored[task[q].id]
              /\ task[q].id \in shown' <=> task[q].id \in shown
<1>1. task'[q] = task[q]
  BY OthersStay DEF Lawful
<1>2. ASSUME task[q].pc \in Copying
      PROVE  /\ stored'[task[q].id] = stored[task[q].id]
             /\ task[q].id \in shown' <=> task[q].id \in shown
  <2>1. task[q].id \in Events
    BY <1>2, Holds
  <2>2. task[p].pc \in Copying => task[q].id # task[p].id
    BY <1>2 DEF HandInv, OneWriter
  <2> QED
    BY <2>1, <2>2 DEF Lawful, Touches, Wrote, Around
<1> QED
  BY <1>1, <1>2

(* What an event may become in a lawful step. *)
LEMMA EventsBecome ==
  ASSUME IInv, NEW p \in Tasks, NEW t, Lawful(p, t), NEW e \in Events
  PROVE  \/ stored'[e] = stored[e]
         \/ e = task[p].id /\ Wrote(p, e)
BY DEF Lawful, Touches, Wrote

(* Still no two tasks hold a copy of one event. *)
LEMMA OneWriterKept ==
  ASSUME IInv, HandInv, NEW p \in Tasks, NEW t, Lawful(p, t)
  PROVE  OneWriter'
<1>1. task'[p] = t /\ \A s \in Tasks \ {p} : task'[s] = task[s]
  BY OthersStay DEF Lawful
<1>2. \A q \in Tasks \ {p} : t.pc \in Copying /\ task[q].pc \in Copying =>
        task[q].id # t.id
  BY DEF Lawful, Takes, HandInv, OneWriter
<1>3. ASSUME NEW q \in Tasks, NEW r \in Tasks, q # r,
             task'[q].pc \in Copying, task'[r].pc \in Copying
      PROVE  task'[q].id # task'[r].id
  <2>1. CASE q = p
    BY <1>1, <1>2, <1>3, <2>1
  <2>2. CASE r = p
    BY <1>1, <1>2, <1>3, <2>2
  <2>3. CASE q # p /\ r # p
    BY <1>1, <1>3, <2>3 DEF HandInv, OneWriter
  <2> QED
    BY <2>1, <2>2, <2>3
<1> QED
  BY <1>3 DEF OneWriter

(* What nobody has been shown stays with its own handler. *)
LEMMA HiddenKept ==
  ASSUME IInv, HandInv, NEW p \in Tasks, NEW t, Lawful(p, t)
  PROVE  Hidden'
<1>1. task'[p] = t /\ \A s \in Tasks \ {p} : task'[s] = task[s]
  BY OthersStay DEF Lawful
<1>2. shown \subseteq shown' /\ snap' = snap /\ \A r \in reminders' : r.id \in shown'
  BY DEF Lawful, Around
<1>3. ASSUME NEW q \in Tasks, task'[q].id \in Events \ shown'
      PROVE  Silent(task'[q])
  <2>1. CASE q = p
    BY <1>1, <1>3, <2>1 DEF Lawful, Fits
  <2>2. CASE q # p
    BY <1>1, <1>2, <1>3, <2>2 DEF HandInv, Hidden
  <2> QED
    BY <2>1, <2>2
<1>4. ASSUME NEW e \in Events \ shown' PROVE Quiet(stored'[e]) /\ Quiet(snap'[e])
  BY <1>2, EventsBecome DEF Wrote, HandInv, Hidden
<1> QED
  BY <1>2, <1>3, <1>4 DEF Hidden, Silent, Quiet

(* What the store says of the events of all tasks. *)
LEMMA FactsKept ==
  ASSUME IInv, ClaimInv, HandInv, NEW p \in Tasks, NEW t, Lawful(p, t),
         NEW q \in Tasks
  PROVE  /\ Stands(task'[q], stored', shown') /\ Voiced(task'[q], stored', now')
         /\ Keyed(task'[q], stored')
<1>1. task'[p] = t /\ now' = now
  BY OthersStay DEF Lawful, Around
<1>2. CASE q = p
  BY <1>1, <1>2 DEF Lawful, Fits
<1>3. CASE q # p
  <2>1. task'[q] = task[q] /\ (task[q].pc \in Copying =>
                                 /\ stored'[task[q].id] = stored[task[q].id]
                                 /\ task[q].id \in shown' <=> task[q].id \in shown)
    BY <1>3, OthersUntouched
  <2>2. /\ Stands(task[q], stored, shown) /\ Voiced(task[q], stored, now)
        /\ Keyed(task[q], stored)
    BY DEF HandInv
  <2>3. Stands(task[q], stored', shown')
    BY <2>1, <2>2 DEF Stands, Copying, Pcs, Locked, Delivering
  <2>4. ASSUME task[q].pc = "claim", task[q].op \in Replies,
               NEW f \in Events \ {task[q].id}
        PROVE  ~Question(stored'[f], now)
    <3>1. task[p].pc \notin Delivering
      BY <2>4 DEF ClaimInv, Gate, Locked
    <3>2. stored'[f] = stored[f] \/ stored'[f].state # "notified"
      BY <3>1, EventsBecome DEF Wrote
    <3> QED
      BY <2>2, <2>4, <3>2 DEF Voiced, Question
  <2>5. Voiced(task[q], stored', now)
    BY <2>2, <2>4 DEF Voiced
  <2>6. Keyed(task[q], stored')
    BY <2>1, <2>2 DEF Keyed
  <2> QED
    BY <1>1, <2>1, <2>3, <2>5, <2>6
<1> QED
  BY <1>2, <1>3

(* An event that is open after a step was open before, or was opened by a   *)
(* task inside the lock that saw no other open event of its key.            *)
LEMMA Opened ==
  ASSUME IInv, HandInv, ~TriggerFails, NEW p \in Tasks, NEW t, Lawful(p, t),
         NEW e \in Events, Open(stored'[e])
  PROVE  \/ Open(stored[e]) /\ stored'[e].key = stored[e].key
         \/ /\ task[p].pc \in Locked /\ e = task[p].id
            /\ Closed(e, stored'[e].key, stored)
            /\ \A f \in Events \ {e} : stored'[f] = stored[f]
BY EventsBecome DEF Wrote, Open, Known

(* A key has one open event. *)
LEMMA OneOpenKept ==
  ASSUME IInv, HandInv, ~TriggerFails, NEW p \in Tasks, NEW t, Lawful(p, t)
  PROVE  OneOpenPerKey'
<1> SUFFICES ASSUME NEW e \in Events, NEW f \in Events,
                    Open(stored'[e]), Open(stored'[f]),
                    stored'[e].key = stored'[f].key, e # f
             PROVE  FALSE
  BY DEF OneOpenPerKey, Open
<1>1. CASE /\ Open(stored[e]) /\ stored'[e].key = stored[e].key
           /\ Open(stored[f]) /\ stored'[f].key = stored[f].key
  BY <1>1 DEF HandInv, OneOpenPerKey
<1>2. CASE /\ Closed(e, stored'[e].key, stored)
           /\ \A g \in Events \ {e} : stored'[g] = stored[g]
  BY <1>2 DEF Closed
<1>3. CASE /\ Closed(f, stored'[f].key, stored)
           /\ \A g \in Events \ {f} : stored'[g] = stored[g]
  BY <1>3 DEF Closed
<1> QED
  BY <1>1, <1>2, <1>3, Opened

(* Who stands inside the lock sees no other open event of its key appear. *)
LEMMA SoleKept ==
  ASSUME IInv, HandInv, ~TriggerFails, NEW p \in Tasks, NEW t, Lawful(p, t),
         NEW q \in Tasks
  PROVE  Sole(task'[q], stored')
<1>1. task'[p] = t
  BY OthersStay DEF Lawful
<1>2. CASE q = p
  BY <1>1, <1>2 DEF Lawful, Fits
<1>3. CASE q # p
  <2>1. task'[q] = task[q] /\ Sole(task[q], stored)
    BY <1>3, OthersUntouched DEF HandInv
  <2>2. ASSUME task[q].pc \in Locked, NEW k, Closed(task[q].id, k, stored)
        PROVE  Closed(task[q].id, k, stored')
    <3>1. task[p].pc \notin Locked
      BY <1>3, <2>2, OneInside DEF IInv
    <3>2. \A f \in Events : Open(stored'[f]) =>
             Open(stored[f]) /\ stored'[f].key = stored[f].key
      BY <3>1, Opened
    <3> QED
      BY <2>2, <3>2 DEF Closed
  <2> QED
    BY <2>1, <2>2 DEF Sole, Locked
<1> QED
  BY <1>2, <1>3

(* A lawful step keeps the invariant. *)
LEMMA LawfulKeeps ==
  ASSUME IInv, ClaimInv, HandInv, NEW p \in Tasks, NEW t, Lawful(p, t)
  PROVE  HandInv'
<1>1. ASSUME NEW e \in Events, snap'[e] # None
      PROVE  snap'[e].key = stored'[e].key
  <2>1. snap'[e] = snap[e] /\ Known(e) /\ snap[e].key = stored[e].key
    BY <1>1 DEF Lawful, Around, ClaimInv, Real, HandInv
  <2> QED
    BY <2>1, EventsBecome DEF Wrote
<1>2. OneWriter' /\ Hidden'
  BY OneWriterKept, HiddenKept
<1>3. \A q \in Tasks : /\ Stands(task'[q], stored', shown')
                       /\ Voiced(task'[q], stored', now') /\ Keyed(task'[q], stored')
  BY FactsKept
<1>4. ~TriggerFails => OneOpenPerKey' /\ \A q \in Tasks : Sole(task'[q], stored')
  BY OneOpenKept, SoleKept
<1> QED
  BY <1>1, <1>2, <1>3, <1>4 DEF HandInv

(* No lawful step opens an event that was answered. *)
LEMMA LawfulStands ==
  ASSUME IInv, NEW p \in Tasks, NEW t, Lawful(p, t), NEW e \in Events,
         Known(e), stored[e].state \in Answered
  PROVE  ~Open(stored'[e])
BY EventsBecome DEF Wrote, Open, Answered, OpenStates

-------------------------------------------------------------------------------
(* Every step of a task is lawful *)

(* Inside the lock and past the gate, no task holds a copy of an open event *)
(* that was shown.                                                          *)
LEMMA FreeToTake ==
  ASSUME IInv, ClaimInv, HandInv, NEW p \in Tasks, task[p].pc \in Locked,
         NEW e \in shown, Open(stored[e]),
         \/ task[p].op \in Clicks \cup {"recheck"} /\ task[p].id = e
         \/ task[p].op \in Replies
  PROVE  \A q \in Tasks \ {p} : task[q].pc \in Copying => task[q].id # e
<1> SUFFICES ASSUME NEW q \in Tasks \ {p}, task[q].pc \in Copying, task[q].id = e
             PROVE  FALSE
  OBVIOUS
<1>1. task[q].pc \notin Locked
  BY OneInside DEF IInv
<1>2. task[q].pc \notin Delivering
  BY DEF ClaimInv, Gate
<1>3. task[q].pc \in {"execute", "trigger", "save"}
  BY <1>1, <1>2 DEF Copying, Pcs, Locked, Delivering
<1> QED
  BY <1>3 DEF HandInv, Stands, Open, OpenStates

(* Nothing is to be said of a task that holds no copy and names only an     *)
(* event that was shown.                                                    *)
LEMMA PlainFits ==
  ASSUME NEW t, t.pc \notin Copying, t.id \in Events => t.id \in shown',
         t.at <= now,
         t.op = "signal" /\ t.pc \in {"lock", "read"} => t.ev.state = "active"
  PROVE  Fits(t) /\ \A p : Takes(p, t)
BY DEF Fits, Takes, Stands, Voiced, Keyed, Sole, Copying, Pcs, Locked, Delivering

(* A task that ends, whatever it has written. *)
LEMMA EndIsLawful ==
  ASSUME IInv, NEW p \in Tasks, Become(p, Idle), Touches(p), Around(p)
  PROVE  Lawful(p, Idle)
<1>1. Idle.pc \notin Copying /\ Idle.id \notin Events /\ Idle.at = 0 /\ Idle.op = "-"
  BY AgentNullAssumption DEF Idle, Copying
<1>2. 0 <= now
  BY AgentAssumption DEF IInv, TypeOK
<1> QED
  BY <1>1, <1>2, PlainFits DEF Lawful

(* A task that asks for the lock. *)
LEMMA AskIsLawful ==
  ASSUME IInv, HandInv, NEW p \in Tasks, NEW t, Become(p, t), t.pc \in {"lock", "read"},
         t.id \in Events => t.id \in shown, t.at <= now,
         t.op = "signal" => t.ev.state = "active",
         UNCHANGED <<stored, shown, snap, now>>, \A r \in reminders' : r \in reminders
  PROVE  Lawful(p, t)
<1>1. Touches(p) /\ Around(p)
  BY DEF Touches, Around, HandInv, Hidden
<1>2. t.pc \notin Copying
  BY DEF Copying
<1> QED
  BY <1>1, <1>2, PlainFits DEF Lawful

(* A task takes the lock. *)
LEMMA AcquireIsLawful ==
  ASSUME IInv, HandInv, NEW p \in Tasks, Acquire(p)
  PROVE  \E t : Lawful(p, t)
<1> DEFINE t == [task[p] EXCEPT !.pc = "read"]
<1>1. task[p] \in Task /\ task[p].pc = "lock" /\ Become(p, t)
  BY Holds DEF Acquire, At, Goto
<1>2. /\ t.pc = "read" /\ t.id = task[p].id /\ t.op = task[p].op
      /\ t.at = task[p].at /\ t.ev = task[p].ev
  BY <1>1 DEF Task
<1> HIDE DEF t
<1>3. /\ task[p].id \in Events => task[p].id \in shown
      /\ task[p].at <= now /\ (task[p].op = "signal" => task[p].ev.state = "active")
  BY <1>1 DEF HandInv, Hidden, Silent, Stands, Voiced
<1>4. Lawful(p, t)
  BY <1>1, <1>2, <1>3, AskIsLawful DEF Acquire, boot, counters
<1> QED
  BY <1>4

(* A signal, an answer or a reminder begins. *)
LEMMA BeginIsLawful ==
  ASSUME IInv, HandInv, NEW p \in Tasks,
         StartSignal(p) \/ StartClick(p) \/ StartVoice(p) \/ Fire(p)
  PROVE  \E t : Lawful(p, t)
<1>1. now \in Nat /\ None \notin Events
  BY AgentAssumption, AgentNullAssumption DEF IInv, TypeOK
<1>2. CASE StartSignal(p)
  <2>1. PICK s \in Signals :
          Begin(p, [Idle EXCEPT !.pc = "lock", !.op = "signal",
                     !.ev = [key |-> s[1], mode |-> s[2], state |-> "active",
                             expires |-> now + Life, upd |-> now, until |-> 0,
                             tts |-> FALSE]])
    BY <1>2 DEF StartSignal
  <2> DEFINE t == [Idle EXCEPT !.pc = "lock", !.op = "signal",
                     !.ev = [key |-> s[1], mode |-> s[2], state |-> "active",
                             expires |-> now + Life, upd |-> now, until |-> 0,
                             tts |-> FALSE]]
  <2>2. t.pc = "lock" /\ t.id = None /\ t.at = 0 /\ t.ev.state = "active"
    BY DEF Idle
  <2>3. Become(p, t) /\ UNCHANGED <<stored, shown, snap, now, reminders>>
    BY <1>2, <2>1 DEF StartSignal, Begin, boot, counters
  <2> HIDE DEF t
  <2>4. Lawful(p, t)
    BY <1>1, <2>2, <2>3, AskIsLawful
  <2> QED
    BY <2>4
<1>3. CASE StartClick(p)
  <2>1. PICK e \in shown, c \in Clicks :
          StartAnswer(p, [Idle EXCEPT !.pc = "lock", !.op = c, !.id = e])
    BY <1>3 DEF StartClick
  <2> DEFINE t == [Idle EXCEPT !.pc = "lock", !.op = c, !.id = e]
  <2>2. t.pc = "lock" /\ t.id = e /\ t.at = 0 /\ t.op # "signal"
    BY DEF Idle, Clicks
  <2>3. Become(p, t) /\ UNCHANGED <<stored, shown, snap, now, reminders>>
    BY <2>1 DEF StartAnswer, Begin, boot
  <2> HIDE DEF t
  <2>4. Lawful(p, t)
    BY <1>1, <2>2, <2>3, AskIsLawful
  <2> QED
    BY <2>4
<1>4. CASE StartVoice(p)
  <2>1. PICK r \in Replies :
          StartAnswer(p, [Idle EXCEPT !.pc = "lock", !.op = r, !.at = now,
                                      !.heard = Questions])
    BY <1>4 DEF StartVoice
  <2> DEFINE t == [Idle EXCEPT !.pc = "lock", !.op = r, !.at = now,
                               !.heard = Questions]
  <2>2. t.pc = "lock" /\ t.id = None /\ t.at = now /\ t.op # "signal"
    BY DEF Idle, Replies
  <2>3. Become(p, t) /\ UNCHANGED <<stored, shown, snap, now, reminders>>
    BY <2>1 DEF StartAnswer, Begin, boot
  <2> HIDE DEF t
  <2>4. Lawful(p, t)
    BY <1>1, <2>2, <2>3, AskIsLawful
  <2> QED
    BY <2>4
<1>5. CASE Fire(p)
  <2>1. PICK r \in reminders : reminders' = reminders \ {r} /\ Begin(p, Recheck(r.id))
    BY <1>5 DEF Fire
  <2> DEFINE t == Recheck(r.id)
  <2>2. t.pc = "lock" /\ t.id = r.id /\ t.at = 0 /\ t.op # "signal"
    BY DEF Idle, Recheck
  <2>3. Become(p, t) /\ r.id \in shown
    BY <2>1 DEF Begin, HandInv, Hidden
  <2> HIDE DEF t
  <2>4. Lawful(p, t)
    BY <1>1, <1>5, <2>1, <2>2, <2>3, AskIsLawful DEF Fire, boot, counters
  <2> QED
    BY <2>4
<1> QED
  BY <1>2, <1>3, <1>4, <1>5

(* What is known of a task that holds a copy. *)
LEMMA CopyFacts ==
  ASSUME IInv, HandInv, NEW p \in Tasks, task[p].pc \in Copying
  PROVE  /\ task[p] \in Task /\ task[p].id \in Events /\ task[p].ev \in Event
         /\ task[p].id \notin shown => Silent(task[p])
         /\ Stands(task[p], stored, shown) /\ Voiced(task[p], stored, now)
         /\ Keyed(task[p], stored) /\ (~TriggerFails => Sole(task[p], stored))
BY Holds DEF HandInv, Hidden

(* A copy is saved: open only where the invariant allows it. *)
LEMMA SaveIsLawful ==
  ASSUME IInv, HandInv, NEW p \in Tasks, Save(p)
  PROVE  \E t : Lawful(p, t)
<1> DEFINE e == task[p].id
<1>1. task[p].pc \in {"save", "saveLocked"} /\ task[p].pc \in Copying
  BY DEF Save, At, Copying, Pcs, Locked
<1>2. /\ e \in Events /\ task[p].ev \in Event
      /\ e \notin shown => Silent(task[p])
      /\ Stands(task[p], stored, shown) /\ Voiced(task[p], stored, now)
      /\ Keyed(task[p], stored) /\ (~TriggerFails => Sole(task[p], stored))
  BY <1>1, CopyFacts
<1>3. stored'[e] = task[p].ev /\ \A f \in Events \ {e} : stored'[f] = stored[f]
  BY <1>2, SaveType DEF Save
<1>4. e \notin shown => Quiet(task[p].ev)
  BY <1>1, <1>2 DEF Silent, Quiet
<1>5. task[p].ev.state # "notified"
  BY <1>1, <1>2 DEF Voiced
<1>6. task[p].ev.key = stored[e].key
  BY <1>1, <1>2 DEF Keyed, Copying
<1>7. stored[e].state \in Answered => ~Open(task[p].ev)
  BY <1>1, <1>2 DEF Stands, Answered
<1>8. ~TriggerFails /\ Open(task[p].ev) =>
        task[p].pc \in Locked /\ Closed(e, task[p].ev.key, stored)
  BY <1>1, <1>2 DEF Sole, Locked
<1>9. Wrote(p, e)
  BY <1>1, <1>2, <1>3, <1>4, <1>5, <1>6, <1>7, <1>8 DEF Wrote
<1>10. Around(p) /\ Become(p, Idle)
  BY DEF Save, Around, boot, counters, HandInv, Hidden
<1> QED
  BY <1>9, <1>10, EndIsLawful DEF Touches

(* A step that only ends its task. *)
LEMMA QuitIsLawful ==
  ASSUME IInv, HandInv, NEW p \in Tasks, Become(p, Idle),
         UNCHANGED <<stored, shown, snap, now, reminders>>
  PROVE  \E t : Lawful(p, t)
BY EndIsLawful DEF Touches, Around, HandInv, Hidden

(* A signal finds no open event of its key, and an id nobody has. *)
LEMMA ReadSignalIsLawful ==
  ASSUME IInv, ClaimInv, HandInv, NEW p \in Tasks, ReadSignal(p)
  PROVE  \E t : Lawful(p, t)
<1> DEFINE k == task[p].ev.key
<1>1. /\ task[p] \in Task /\ task[p].pc = "read" /\ task[p].pc \in Locked
      /\ task[p].op = "signal"
  BY Holds DEF ReadSignal, Reading, At, Locked
<1>2. UNCHANGED <<stored, shown, snap, now, reminders>>
  BY DEF ReadSignal, boot, counters
<1>3. CASE Quit(p)
  BY <1>2, <1>3, QuitIsLawful DEF Quit
<1>4. CASE /\ ~\E e \in Events : Duplicate(stored[e], k, task[p].ev.upd)
           /\ \E e \in Fresh : Become(p, [task[p] EXCEPT !.pc = "create", !.id = e])
  <2>1. PICK e \in Fresh : Become(p, [task[p] EXCEPT !.pc = "create", !.id = e])
    BY <1>4
  <2> DEFINE t == [task[p] EXCEPT !.pc = "create", !.id = e]
  <2>2. /\ t.pc = "create" /\ t.id = e /\ t.op = "signal" /\ t.ev = task[p].ev
        /\ t.at = task[p].at
    BY <1>1 DEF Task
  <2>3. e \in Events /\ ~Known(e)
    BY DEF Fresh
  <2>4. task[p].ev.state = "active" /\ task[p].at <= now
    BY <1>1 DEF HandInv, Stands, Voiced
  <2> HIDE DEF t
  <2>5. Closed(e, k, stored)
    BY <1>4 DEF Closed, Duplicate, Open, OpenStates
  <2>6. Takes(p, t)
    <3>1. ASSUME NEW q \in Tasks \ {p}, task[q].pc \in Copying PROVE task[q].id # e
      <4>1. task[q].pc # "create"
        BY <1>1, OneInside DEF IInv, Locked
      <4>2. task[q].id \in Events
        BY <3>1, Holds
      <4> QED
        BY <2>3, <4>1, <4>2 DEF ClaimInv, Real
    <3> QED
      BY <2>2, <3>1 DEF Takes
  <2>7. Fits(t)
    BY <1>2, <2>2, <2>4, <2>5
    DEF Fits, Silent, Stands, Voiced, Keyed, Sole, Delivering
  <2>8. Touches(p) /\ Around(p)
    BY <1>2 DEF Touches, Around, HandInv, Hidden
  <2>9. Lawful(p, t)
    BY <2>1, <2>6, <2>7, <2>8 DEF Lawful, t
  <2> QED
    BY <2>9
<1> QED
  BY <1>3, <1>4 DEF ReadSignal

(* A new event is saved: nobody else knows it yet. *)
LEMMA CreateIsLawful ==
  ASSUME IInv, ClaimInv, HandInv, NEW p \in Tasks, Create(p)
  PROVE  \E t : Lawful(p, t)
<1> DEFINE e == task[p].id
           x == task[p].ev
           y == In(x, "resolved")
           z == [x EXCEPT !.mode = "ask"]
<1>1. task[p].pc = "create" /\ task[p].pc \in Copying /\ task[p].pc \in Locked
  BY DEF Create, At, Copying, Pcs, Locked
<1>2. /\ e \in Events /\ x \in Event /\ e \notin shown /\ ~Known(e)
      /\ Silent(task[p]) /\ Stands(task[p], stored, shown)
      /\ Voiced(task[p], stored, now) /\ (~TriggerFails => Sole(task[p], stored))
  BY <1>1, CopyFacts DEF ClaimInv, Real
<1>3. x.state = "active" /\ task[p].op = "signal" /\ task[p].at <= now
  BY <1>1, <1>2 DEF Silent, Stands, Voiced
<1>4. SaveCopy(p, x) /\ UNCHANGED <<shown, snap, now, reminders>>
  BY DEF Create, boot, counters
<1>5. stored'[e] = x /\ \A f \in Events \ {e} : stored'[f] = stored[f]
  BY <1>2, <1>4, SaveType
<1>6. Wrote(p, e)
  BY <1>1, <1>2, <1>3, <1>5 DEF Wrote, Quiet, Sole
<1>7. Around(p)
  BY <1>4 DEF Around, HandInv, Hidden
<1>8. /\ y.state = "resolved" /\ y.key = x.key
      /\ z.state = "active" /\ z.key = x.key
  BY <1>2, <1>3, InType DEF In, Event, States, IInv
<1> HIDE DEF y, z
<1>9. \E to, v : /\ With(p, to, v) \/ (v = x /\ Goto(p, to))
                 /\ \/ to = "save" /\ v = y
                    \/ to \in {"deliver", "auto"} /\ v \in {x, z}
  BY DEF Create, y, z
<1>10. PICK to, v : /\ With(p, to, v) \/ (v = x /\ Goto(p, to))
                    /\ \/ to = "save" /\ v = y
                       \/ to \in {"deliver", "auto"} /\ v \in {x, z}
  BY <1>9
<1>11. PICK t : /\ Become(p, t) /\ t.pc = to /\ t.ev = v
                /\ t.id = e /\ t.op = task[p].op /\ t.at = task[p].at
  BY <1>10, Moved
<1>12. t.ev.key = x.key /\ (to = "save" => t.ev.state = "resolved")
  BY <1>8, <1>10, <1>11
<1>13. t.pc \in {"save", "deliver", "auto"} /\ t.op = "signal" /\ t.at <= now
  BY <1>3, <1>10, <1>11
<1>14. Open(x)
  BY <1>2, <1>3, AgentNullAssumption DEF Open, OpenStates
<1>15. Fits(t)
  <2>1. Silent(t)
    BY <1>11, <1>12, <1>13 DEF Silent
  <2>2. Stands(t, stored', shown')
    BY <1>2, <1>4, <1>5, <1>11, <1>12, <1>13, <1>14 DEF Stands, Open, OpenStates
  <2>3. Voiced(t, stored', now) /\ Keyed(t, stored') /\ Sole(t, stored')
    BY <1>5, <1>11, <1>12, <1>13 DEF Voiced, Keyed, Sole, Open, OpenStates
  <2> QED
    BY <2>1, <2>2, <2>3 DEF Fits
<1>16. Takes(p, t)
  BY <1>1, <1>11 DEF Takes
<1> QED
  BY <1>6, <1>7, <1>11, <1>15, <1>16 DEF Lawful, Touches

(* A task that goes on with its copy and writes nothing. *)
LEMMA GoOnIsLawful ==
  ASSUME IInv, HandInv, NEW p \in Tasks, NEW to \in Copying, NEW x,
         With(p, to, x) \/ (x = task[p].ev /\ Goto(p, to)),
         task[p].pc \in Copying \ {"create"}, to \notin {"create", "claim"},
         UNCHANGED stored, Around(p),
         x.key = task[p].ev.key,
         to \in {"save", "saveLocked"} => x.state # "notified",
         \A t : (/\ t.pc = to /\ t.ev = x /\ t.id = task[p].id /\ t.op = task[p].op)
                  => /\ t.id \notin shown' => Silent(t)
                     /\ Stands(t, stored, shown')
                     /\ ~TriggerFails => Sole(t, stored)
  PROVE  \E t : Lawful(p, t)
<1>1. PICK t : /\ Become(p, t) /\ t.pc = to /\ t.ev = x
               /\ t.id = task[p].id /\ t.op = task[p].op /\ t.at = task[p].at
  BY Moved
<1>2. Keyed(task[p], stored) /\ Voiced(task[p], stored, now)
  BY DEF HandInv
<1>3. Keyed(t, stored') /\ Voiced(t, stored', now)
  BY <1>1, <1>2 DEF Keyed, Voiced
<1>4. Fits(t)
  BY <1>1, <1>3 DEF Fits
<1>5. Takes(p, t)
  BY <1>1 DEF Takes
<1>6. Lawful(p, t)
  BY <1>1, <1>4, <1>5 DEF Lawful, Touches
<1> QED
  BY <1>6

(* An automatic execution goes on to its message. *)
LEMMA AutoExecuteIsLawful ==
  ASSUME IInv, HandInv, NEW p \in Tasks, AutoExecute(p)
  PROVE  \E t : Lawful(p, t)
<1>1. task[p].pc = "auto" /\ task[p].pc \in Copying
  BY DEF AutoExecute, At, Copying, Pcs
<1>2. /\ task[p].ev \in Event /\ (task[p].id \notin shown => Silent(task[p]))
      /\ Stands(task[p], stored, shown)
  BY <1>1, CopyFacts
<1>3. Open(stored[task[p].id])
  BY <1>1, <1>2 DEF Stands, Delivering
<1>4. PICK x : With(p, "deliver", x) /\ x.key = task[p].ev.key
  BY <1>2 DEF AutoExecute, Event
<1>5. "deliver" \in Copying /\ UNCHANGED <<stored, shown>> /\ Around(p)
  BY DEF AutoExecute, Copying, Pcs, boot, counters, Around, HandInv, Hidden
<1>6. ASSUME NEW t, t.pc = "deliver", t.id = task[p].id, t.op = task[p].op
      PROVE  /\ t.id \notin shown' => Silent(t)
             /\ Stands(t, stored, shown') /\ Sole(t, stored)
  BY <1>2, <1>3, <1>5, <1>6 DEF Silent, Stands, Sole
<1> QED
  BY <1>1, <1>4, <1>5, <1>6, GoOnIsLawful

(* A delivery shows the event. *)
LEMMA DeliverIsLawful ==
  ASSUME IInv, HandInv, NEW p \in Tasks, Deliver(p)
  PROVE  \E t : Lawful(p, t)
<1>1. task[p].pc = "deliver" /\ task[p].pc \in Copying
  BY DEF Deliver, At, Copying, Pcs
<1>2. task[p].ev \in Event /\ Stands(task[p], stored, shown)
  BY <1>1, CopyFacts
<1>3. Open(stored[task[p].id])
  BY <1>1, <1>2 DEF Stands, Delivering
<1>4. PICK x : With(p, "store", x) /\ x.key = task[p].ev.key
  BY <1>2 DEF Deliver, Event
<1>5. /\ "store" \in Copying /\ UNCHANGED stored /\ Around(p)
      /\ task[p].id \in shown'
  BY <1>1 DEF Deliver, Copying, Pcs, boot, counters, Around, HandInv, Hidden
<1>6. ASSUME NEW t, t.pc = "store", t.id = task[p].id, t.op = task[p].op
      PROVE  /\ t.id \notin shown' => Silent(t)
             /\ Stands(t, stored, shown') /\ Sole(t, stored)
  BY <1>3, <1>5, <1>6 DEF Stands, Sole
<1> QED
  BY <1>1, <1>4, <1>5, <1>6, GoOnIsLawful

(* What is stored after a delivery was shown, and is still open in the store. *)
LEMMA StoreDeliveredIsLawful ==
  ASSUME IInv, HandInv, NEW p \in Tasks, StoreDelivered(p)
  PROVE  \E t : Lawful(p, t)
<1> DEFINE e == task[p].id
           x == task[p].ev
<1>1. task[p].pc = "store" /\ task[p].pc \in Copying /\ task[p].pc \in Delivering
  BY DEF StoreDelivered, At, Copying, Pcs, Delivering
<1>2. /\ e \in Events /\ x \in Event /\ (e \notin shown => Silent(task[p]))
      /\ Stands(task[p], stored, shown) /\ Keyed(task[p], stored)
  BY <1>1, CopyFacts
<1>3. e \in shown /\ Open(stored[e]) /\ x.key = stored[e].key
  BY <1>1, <1>2 DEF Silent, Stands, Keyed
<1>4. PICK s \in States : SaveCopy(p, In(x, s))
  BY <1>2 DEF StoreDelivered, States, OpenStates
<1>5. In(x, s) \in Event /\ In(x, s).key = x.key
  BY <1>2, InType DEF In, Event, IInv
<1>6. stored'[e] = In(x, s) /\ \A f \in Events \ {e} : stored'[f] = stored[f]
  BY <1>2, <1>4, <1>5, SaveType
<1>7. stored[e].state \notin Answered
  BY <1>3 DEF Open, OpenStates, Answered
<1>8. Wrote(p, e)
  BY <1>1, <1>2, <1>3, <1>5, <1>6, <1>7 DEF Wrote
<1>9. Around(p) /\ Become(p, Idle)
  BY DEF StoreDelivered, Around, boot, counters, HandInv, Hidden
<1> QED
  BY <1>8, <1>9, EndIsLawful DEF Touches

(* A task inside the lock takes a copy of an open event that was shown. *)
LEMMA TakeIsLawful ==
  ASSUME IInv, ClaimInv, HandInv, NEW p \in Tasks, NEW t, Become(p, t),
         task[p].pc = "read", NEW e \in shown, Open(stored[e]),
         \/ task[p].op \in Clicks \cup {"recheck"} /\ task[p].id = e
         \/ task[p].op \in Replies,
         t.id = e, t.op = task[p].op, t.at <= now, t.ev.key = stored[e].key,
         \/ t.pc \in {"remind", "expire", "deliver"}
         \/ t.pc = "saveLocked" /\ ~Open(t.ev) /\ t.ev.state # "notified"
         \/ t.pc = "claim",
         t.pc = "claim" /\ t.op \in Replies =>
           \A f \in Events \ {e} : ~Question(stored[f], now),
         UNCHANGED <<stored, shown, snap, now, reminders>>
  PROVE  Lawful(p, t)
<1>1. task[p].pc \in Locked /\ e \in Events
  BY DEF Locked, IInv, TypeOK
<1>2. Takes(p, t)
  BY <1>1, FreeToTake DEF Takes
<1>3. stored[e].state \notin Answered /\ t.op # "signal"
  BY DEF Open, OpenStates, Answered, Clicks, Replies
<1>4. Stands(t, stored, shown)
  BY <1>3 DEF Stands, Delivering
<1>5. Voiced(t, stored, now) /\ Keyed(t, stored)
  BY DEF Voiced, Keyed
<1>6. ~TriggerFails => Closed(e, t.ev.key, stored)
  BY <1>1 DEF HandInv, OneOpenPerKey, Closed
<1>7. Fits(t)
  BY <1>4, <1>5, <1>6 DEF Fits, Sole
<1>8. Touches(p) /\ Around(p)
  BY DEF Touches, Around, HandInv, Hidden
<1> QED
  BY <1>2, <1>7, <1>8 DEF Lawful

(* A click closes the event, or takes it up to snooze or claim it. *)
LEMMA ReadClickIsLawful ==
  ASSUME IInv, ClaimInv, HandInv, NEW p \in Tasks, ReadClick(p)
  PROVE  \E t : Lawful(p, t)
<1> DEFINE e == task[p].id
           x == stored[e]
<1>1. /\ task[p] \in Task /\ task[p].pc = "read" /\ task[p].op \in Clicks
      /\ e \in Events /\ x \in Event \cup {None}
  BY Holds DEF ReadClick, Reading, At
<1>2. UNCHANGED <<stored, shown, snap, now, reminders>>
  BY DEF ReadClick, boot, counters
<1>3. e \in shown /\ task[p].at <= now
  BY <1>1 DEF HandInv, Hidden, Silent, Voiced
<1>4. CASE Quit(p)
  BY <1>2, <1>4, QuitIsLawful DEF Quit
<1>5. CASE Open(x) /\ \E to, y : /\ With(p, to, y)
                                 /\ \/ to = "remind" /\ y = x
                                    \/ to \in {"saveLocked", "claim"} /\
                                       y \in {In(x, "expired"), In(x, "acknowledged")}
  <2>1. PICK to, y : /\ With(p, to, y)
                     /\ \/ to = "remind" /\ y = x
                        \/ to \in {"saveLocked", "claim"} /\
                           y \in {In(x, "expired"), In(x, "acknowledged")}
    BY <1>5
  <2>2. x \in Event
    BY <1>1, <1>5 DEF Open
  <2>3. \A s \in {"expired", "acknowledged"} :
          In(x, s).state = s /\ In(x, s).key = x.key
    BY <2>2 DEF In, Event
  <2>4. y.key = x.key /\ (to # "remind" => ~Open(y) /\ y.state # "notified")
    BY <2>1, <2>3 DEF Open, OpenStates
  <2>5. PICK t : /\ Become(p, t) /\ t.pc = to /\ t.ev = y
                 /\ t.id = e /\ t.op = task[p].op /\ t.at = task[p].at
    BY <2>1, Moved
  <2>6. t.op \notin Replies
    BY <1>1, <2>5 DEF Clicks, Replies
  <2> QED
    BY <1>1, <1>2, <1>3, <1>5, <2>1, <2>4, <2>5, <2>6, TakeIsLawful
<1> QED
  BY <1>4, <1>5 DEF ReadClick

(* A snooze is written over an event that nobody answered meanwhile. *)
LEMMA RemindIsLawful ==
  ASSUME IInv, HandInv, NEW p \in Tasks, Remind(p)
  PROVE  \E t : Lawful(p, t)
<1> DEFINE e == task[p].id
           x == task[p].ev
           y == [In(x, "snoozed") EXCEPT !.until = now + Snooze]
<1>1. task[p].pc = "remind" /\ task[p].pc \in Copying
  BY DEF Remind, At, Copying, Pcs, Locked
<1>2. /\ task[p].ev \in Event /\ (e \notin shown => Silent(task[p]))
      /\ Stands(task[p], stored, shown) /\ (~TriggerFails => Sole(task[p], stored))
  BY <1>1, CopyFacts
<1>3. e \in shown /\ stored[e].state \notin Answered
  BY <1>1, <1>2 DEF Silent, Stands
<1>4. UNCHANGED <<stored, shown, snap, now>>
  BY DEF Remind, boot, counters
<1>5. CASE UNCHANGED reminders /\ Quit(p)
  BY <1>4, <1>5, QuitIsLawful DEF Quit
<1>6. CASE /\ reminders' = reminders \cup {[id |-> e, due |-> now + Snooze]}
           /\ With(p, "saveLocked", y)
  <2>1. y.key = x.key /\ y.state = "snoozed"
    BY <1>2 DEF In, Event
  <2> HIDE DEF y
  <2>2. Around(p) /\ "saveLocked" \in Copying
    BY <1>3, <1>4, <1>6 DEF Around, HandInv, Hidden, Copying, Pcs, Locked
  <2>3. ASSUME NEW t, t.pc = "saveLocked", t.ev = y, t.id = e, t.op = task[p].op
        PROVE  /\ t.id \notin shown' => Silent(t)
               /\ Stands(t, stored, shown') /\ (~TriggerFails => Sole(t, stored))
    BY <1>1, <1>2, <1>3, <1>4, <2>1, <2>3 DEF Stands, Sole, Delivering
  <2> QED
    BY <1>1, <1>4, <1>6, <2>1, <2>2, <2>3, GoOnIsLawful
<1> QED
  BY <1>5, <1>6 DEF Remind

(* A single candidate is the only one. *)
LEMMA AddressedAlone ==
  ASSUME NEW S, NEW e \in Addressed(S), IsFiniteSet(S)
  PROVE  S = {e}
<1>1. Cardinality(S) = 1 /\ e \in S
  BY DEF Addressed
<1>2. PICK c : S = {c}
  BY <1>1, FS_Singleton
<1> QED
  BY <1>1, <1>2

(* A reply takes up the only question that was open when it was spoken; no  *)
(* delivery is under way, so that none is added before its claim.           *)
LEMMA ReadVoiceIsLawful ==
  ASSUME IInv, ClaimInv, HandInv, NEW p \in Tasks, ReadVoice(p)
  PROVE  \E t : Lawful(p, t)
<1> DEFINE at == task[p].at
           S == {e \in Events : Question(stored[e], at)}
           y(e) == [stored[e] EXCEPT !.state = "acknowledged", !.upd = at]
           t(e) == [task[p] EXCEPT !.pc = "claim", !.id = e, !.at = 0, !.ev = y(e)]
<1>1. task[p] \in Task /\ task[p].pc = "read" /\ task[p].op \in Replies
  BY Holds DEF ReadVoice, Reading, At
<1>2. UNCHANGED <<stored, shown, snap, now, reminders>>
  BY DEF ReadVoice, boot, counters
<1>3. CASE Quit(p)
  BY <1>2, <1>3, QuitIsLawful DEF Quit
<1>4. CASE \E e \in Addressed(S) : Become(p, t(e))
  <2>1. PICK e \in Addressed(S) : Become(p, t(e))
    BY <1>4
  <2>2. e \in Events /\ Question(stored[e], at)
    BY AddressedIs
  <2>3. \A f \in Events \ {e} : ~Question(stored[f], at)
    <3>1. IsFiniteSet(S)
      BY AgentAssumption, FS_Subset
    <3>2. S = {e}
      BY <3>1, AddressedAlone
    <3> QED
      BY <3>2
  <2>4. stored[e] \in Event /\ Open(stored[e])
    BY <2>2 DEF Question, Open, OpenStates, IInv, TypeOK
  <2>5. e \in shown
    BY <2>2 DEF Question, HandInv, Hidden, Quiet
  <2>6. at \in Nat /\ now \in Nat /\ at <= now
    BY <1>1, AgentAssumption DEF Task, HandInv, Voiced, IInv, TypeOK
  <2>7. \A f \in Events \ {e} : ~Question(stored[f], now)
    <3> SUFFICES ASSUME NEW f \in Events \ {e}, Question(stored[f], now) PROVE FALSE
      OBVIOUS
    <3>1. stored[f] \in Event
      BY DEF Question, IInv, TypeOK
    <3>2. stored[f].expires \in Nat
      BY <3>1, AgentAssumption DEF Event, Moment
    <3> QED
      BY <2>3, <2>6, <3>2 DEF Question
  <2>8. y(e).key = stored[e].key
    BY <2>4 DEF Event
  <2>9. /\ t(e).pc = "claim" /\ t(e).id = e /\ t(e).op = task[p].op
        /\ t(e).at = 0 /\ t(e).ev = y(e)
    BY <1>1 DEF Task
  <2> HIDE DEF t, y
  <2>10. Lawful(p, t(e))
    BY <1>1, <1>2, <2>1, <2>4, <2>5, <2>6, <2>7, <2>8, <2>9, TakeIsLawful
  <2> QED
    BY <2>10
<1> QED
  BY <1>3, <1>4 DEF ReadVoice

(* The claim is written over the event. *)
LEMMA ClaimIsLawful ==
  ASSUME IInv, ClaimInv, HandInv, NEW p \in Tasks, Claim(p)
  PROVE  \E t : Lawful(p, t)
<1> DEFINE e == task[p].id
           x == task[p].ev
<1>1. task[p].pc = "claim" /\ task[p].pc \in Copying
  BY DEF Claim, At, Copying, Pcs, Locked
<1>2. /\ e \in Events /\ x \in Event /\ (e \notin shown => Silent(task[p]))
      /\ Keyed(task[p], stored) /\ Voiced(task[p], stored, now)
  BY <1>1, CopyFacts
<1>3. e \in shown /\ x.key = stored[e].key /\ ~Open(x)
  BY <1>1, <1>2 DEF Silent, Keyed, Copying, ClaimInv, ClosedBefore
<1>4. x # None /\ x.state # "notified"
  BY <1>2, <1>3, AgentNullAssumption DEF Open, OpenStates
<1>5. stored'[e] = x /\ \A f \in Events \ {e} : stored'[f] = stored[f]
  BY <1>2, SaveType DEF Claim
<1>6. Wrote(p, e)
  BY <1>1, <1>2, <1>3, <1>4, <1>5 DEF Wrote
<1>7. Around(p) /\ UNCHANGED <<shown, now>>
  BY DEF Claim, Around, boot, counters, HandInv, Hidden
<1>8. CASE Become(p, Idle)
  BY <1>6, <1>7, <1>8, EndIsLawful DEF Touches
<1>9. CASE Goto(p, "execute")
  <2>1. PICK t : /\ Become(p, t) /\ t.pc = "execute" /\ t.ev = x
                 /\ t.id = e /\ t.op = task[p].op /\ t.at = task[p].at
    BY <1>9, Moved
  <2>2. Fits(t)
    BY <1>2, <1>3, <1>5, <1>7, <2>1
    DEF Fits, Stands, Voiced, Keyed, Sole, Delivering
  <2>3. Takes(p, t)
    BY <1>1, <2>1 DEF Takes
  <2> QED
    BY <1>6, <1>7, <2>1, <2>2, <2>3 DEF Lawful, Touches
<1> QED
  BY <1>8, <1>9 DEF Claim

(* What became of an action is about to be saved. *)
LEMMA ExecuteIsLawful ==
  ASSUME IInv, HandInv, NEW p \in Tasks, Execute(p)
  PROVE  \E t : Lawful(p, t)
<1> DEFINE e == task[p].id
           x == task[p].ev
<1>1. task[p].pc = "execute" /\ task[p].pc \in Copying
  BY DEF Execute, At, Copying, Pcs
<1>2. /\ x \in Event /\ (e \notin shown => Silent(task[p]))
      /\ Stands(task[p], stored, shown)
  BY <1>1, CopyFacts
<1>3. e \in shown /\ ~Open(stored[e])
  BY <1>1, <1>2 DEF Silent, Stands
<1>4. PICK s \in {"resolved", "denied", "failed"} : With(p, "save", In(x, s))
  BY DEF Execute
<1>5. In(x, s).key = x.key /\ In(x, s).state = s
  BY <1>2 DEF In, Event
<1>6. "save" \in Copying /\ UNCHANGED <<stored, shown>> /\ Around(p)
  BY DEF Execute, Copying, Pcs, boot, counters, Around, HandInv, Hidden
<1>7. ASSUME NEW t, t.pc = "save", t.ev = In(x, s), t.id = e, t.op = task[p].op
      PROVE  /\ t.id \notin shown' => Silent(t)
             /\ Stands(t, stored, shown') /\ Sole(t, stored)
  BY <1>3, <1>5, <1>6, <1>7 DEF Stands, Sole, Open, OpenStates, Delivering
<1> QED
  BY <1>1, <1>4, <1>5, <1>6, <1>7, GoOnIsLawful

(* A re-check takes up the event, or closes it. *)
LEMMA ReadRecheckIsLawful ==
  ASSUME IInv, ClaimInv, HandInv, NEW p \in Tasks, ReadRecheck(p)
  PROVE  \E t : Lawful(p, t)
<1> DEFINE e == task[p].id
           x == stored[e]
           r == In(x, "resolved")
           a == [In(x, "active") EXCEPT !.until = 0]
<1>1. /\ task[p] \in Task /\ task[p].pc = "read" /\ task[p].op = "recheck"
      /\ e \in Events /\ x \in Event \cup {None}
  BY Holds DEF ReadRecheck, Reading, At
<1>2. UNCHANGED <<stored, shown, snap, now, reminders>>
  BY DEF ReadRecheck, boot, counters
<1>3. e \in shown /\ task[p].at <= now
  BY <1>1 DEF HandInv, Hidden, Silent, Voiced
<1>4. CASE Quit(p)
  BY <1>2, <1>4, QuitIsLawful DEF Quit
<1>5. CASE Snoozed(x) /\ \E to, y : /\ With(p, to, y)
                                    /\ \/ to = "saveLocked" /\ y = r
                                       \/ to = "expire" /\ y = x
                                       \/ to = "deliver" /\ y = a
  <2>1. PICK to, y : /\ With(p, to, y)
                     /\ \/ to = "saveLocked" /\ y = r
                        \/ to = "expire" /\ y = x
                        \/ to = "deliver" /\ y = a
    BY <1>5
  <2>2. x \in Event /\ Open(x)
    BY <1>1, <1>5 DEF Snoozed, Open, OpenStates
  <2>3. r.state = "resolved" /\ r.key = x.key /\ a.key = x.key
    BY <2>2 DEF In, Event
  <2> HIDE DEF r, a
  <2>4. y.key = x.key /\ (to = "saveLocked" => ~Open(y) /\ y.state # "notified")
    BY <2>1, <2>3 DEF Open, OpenStates
  <2>5. PICK t : /\ Become(p, t) /\ t.pc = to /\ t.ev = y
                 /\ t.id = e /\ t.op = task[p].op /\ t.at = task[p].at
    BY <2>1, Moved
  <2> QED
    BY <1>1, <1>2, <1>3, <2>1, <2>2, <2>4, <2>5, TakeIsLawful
<1> QED
  BY <1>4, <1>5 DEF ReadRecheck

(* The old event is closed before its automation is triggered. *)
LEMMA ExpireIsLawful ==
  ASSUME IInv, HandInv, NEW p \in Tasks, Expire(p)
  PROVE  \E t : Lawful(p, t)
<1> DEFINE e == task[p].id
           x == task[p].ev
           y == [In(x, "expired") EXCEPT !.until = 0]
<1>1. task[p].pc = "expire" /\ task[p].pc \in Copying
  BY DEF Expire, At, Copying, Pcs, Locked
<1>2. /\ e \in Events /\ x \in Event /\ (e \notin shown => Silent(task[p]))
      /\ Keyed(task[p], stored) /\ Voiced(task[p], stored, now)
  BY <1>1, CopyFacts
<1>3. e \in shown /\ x.key = stored[e].key
  BY <1>1, <1>2 DEF Silent, Keyed
<1>4. In(x, "expired") \in Event /\ In(x, "expired").key = x.key
  BY <1>2, InType DEF States, In, Event, IInv
<1>5. y \in Event /\ y.state = "expired" /\ y.key = x.key
  BY <1>2, <1>4, Moments DEF In, Event
<1>6. SaveCopy(p, y) /\ Goto(p, "trigger")
  BY DEF Expire
<1> HIDE DEF y
<1>7. stored'[e] = y /\ \A f \in Events \ {e} : stored'[f] = stored[f]
  BY <1>2, <1>5, <1>6, SaveType
<1>8. ~Open(y)
  BY <1>5 DEF Open, OpenStates
<1>9. Wrote(p, e)
  BY <1>1, <1>2, <1>3, <1>5, <1>7, <1>8 DEF Wrote
<1>10. Around(p) /\ UNCHANGED <<shown, now>>
  BY DEF Expire, Around, boot, counters, HandInv, Hidden
<1>11. PICK t : /\ Become(p, t) /\ t.pc = "trigger" /\ t.ev = x
                /\ t.id = e /\ t.op = task[p].op /\ t.at = task[p].at
  BY <1>6, Moved
<1>12. Fits(t)
  BY <1>2, <1>3, <1>5, <1>7, <1>10, <1>11
  DEF Fits, Stands, Voiced, Keyed, Sole, Delivering
<1>13. Takes(p, t)
  BY <1>1, <1>11 DEF Takes
<1> QED
  BY <1>9, <1>10, <1>11, <1>12, <1>13 DEF Lawful, Touches

(* A trigger that fails puts back an event that is still expired. *)
LEMMA TriggerIsLawful ==
  ASSUME IInv, HandInv, NEW p \in Tasks, Trigger(p)
  PROVE  \E t : Lawful(p, t)
<1> DEFINE e == task[p].id
           x == task[p].ev
<1>1. task[p].pc = "trigger" /\ task[p].pc \in Copying
  BY DEF Trigger, At, Copying, Pcs
<1>2. /\ x \in Event /\ (e \notin shown => Silent(task[p]))
      /\ Stands(task[p], stored, shown)
  BY <1>1, CopyFacts
<1>3. e \in shown /\ stored[e].state = "expired" /\ ~Open(stored[e])
  BY <1>1, <1>2 DEF Silent, Stands, Open, OpenStates
<1>4. UNCHANGED <<stored, shown, snap, now, reminders>> /\ Around(p)
  BY DEF Trigger, boot, counters, Around, HandInv, Hidden
<1>5. CASE Become(p, Idle)
  BY <1>4, <1>5, QuitIsLawful
<1>6. CASE TriggerFails /\ With(p, "save", In(x, "snoozed"))
  <2>1. In(x, "snoozed").key = x.key /\ In(x, "snoozed").state = "snoozed"
    BY <1>2 DEF In, Event
  <2>2. "save" \in Copying
    BY DEF Copying, Pcs
  <2>3. ASSUME NEW t, t.pc = "save", t.ev = In(x, "snoozed"), t.id = e,
               t.op = task[p].op
        PROVE  /\ t.id \notin shown' => Silent(t)
               /\ Stands(t, stored, shown') /\ (~TriggerFails => Sole(t, stored))
    BY <1>3, <1>4, <1>6, <2>3 DEF Stands, Delivering
  <2> QED
    BY <1>1, <1>4, <1>6, <2>1, <2>2, <2>3, GoOnIsLawful
<1> QED
  BY <1>5, <1>6 DEF Trigger

-------------------------------------------------------------------------------
(* The invariant is inductive, and what follows from it *)

(* Every step of a task, and every task that begins, is lawful. *)
LEMMA TasksAreLawful ==
  ASSUME IInv, ClaimInv, HandInv,
         \/ \E p \in Tasks : Acquire(p) \/ Step(p)
         \/ \E p \in Workers : StartSignal(p) \/ StartClick(p) \/ StartVoice(p) \/ Fire(p)
  PROVE  \E p \in Tasks : \E t : Lawful(p, t)
<1>1. ASSUME NEW p \in Tasks, Acquire(p) PROVE \E t : Lawful(p, t)
  BY <1>1, AcquireIsLawful
<1>2. ASSUME NEW p \in Tasks, Step(p) PROVE \E t : Lawful(p, t)
  BY <1>2, SaveIsLawful, ReadSignalIsLawful, CreateIsLawful, AutoExecuteIsLawful,
     DeliverIsLawful, StoreDeliveredIsLawful, ReadClickIsLawful, RemindIsLawful,
     ReadVoiceIsLawful, ClaimIsLawful, ExecuteIsLawful, ReadRecheckIsLawful,
     ExpireIsLawful, TriggerIsLawful DEF Step
<1>3. ASSUME NEW p \in Workers,
             StartSignal(p) \/ StartClick(p) \/ StartVoice(p) \/ Fire(p)
      PROVE  p \in Tasks /\ \E t : Lawful(p, t)
  BY <1>3, BeginIsLawful DEF Tasks
<1> QED
  BY <1>1, <1>2, <1>3

(* Nobody holds a copy after a restart. *)
LEMMA RestartHands ==
  ASSUME IInv, HandInv, Restart
  PROVE  HandInv'
<1>1. /\ Idle.pc = "idle" /\ Idle.id \notin Events /\ Idle.at = 0 /\ Idle.op = "-"
      /\ \A p \in Tasks : task'[p] = Idle
  BY AgentNullAssumption DEF Restart, Idle
<1>2. /\ UNCHANGED <<stored, shown, now>> /\ reminders' \subseteq reminders
      /\ \A e \in Events : snap'[e] = None
  BY DEF Restart, NoEvents
<1>3. 0 <= now /\ Idle.pc \notin Copying
  BY <1>1, AgentAssumption DEF IInv, TypeOK, Copying
<1>4. OneWriter'
  BY <1>1, <1>3 DEF OneWriter
<1>5. Hidden'
  BY <1>1, <1>2 DEF HandInv, Hidden, Quiet
<1>6. \A p \in Tasks : /\ Stands(task'[p], stored', shown')
                       /\ Voiced(task'[p], stored', now')
                       /\ Keyed(task'[p], stored') /\ Sole(task'[p], stored')
  BY <1>1, <1>2, <1>3 DEF Stands, Voiced, Keyed, Sole, Delivering
<1>7. OneOpenPerKey <=> OneOpenPerKey'
  BY <1>2 DEF OneOpenPerKey
<1> QED
  BY <1>2, <1>4, <1>5, <1>6, <1>7 DEF HandInv

(* The start-up loads what is stored. *)
LEMMA LoadHands ==
  ASSUME IInv, HandInv, UNCHANGED <<stored, shown, task, now, reminders>>,
         \A e \in Events : snap'[e] \in {None, stored[e], snap[e]}
  PROVE  HandInv'
<1>1. OneWriter'
  BY DEF HandInv, OneWriter
<1>2. Hidden'
  BY DEF HandInv, Hidden, Quiet
<1>3. OneOpenPerKey <=> OneOpenPerKey'
  BY DEF OneOpenPerKey
<1> QED
  BY <1>1, <1>2, <1>3 DEF HandInv

(* A later moment leaves fewer questions open. *)
LEMMA TickHands ==
  ASSUME IInv, HandInv, Tick
  PROVE  HandInv'
<1>1. now \in Nat /\ now' = now + 1
  BY AgentAssumption DEF Tick, IInv, TypeOK
<1>2. UNCHANGED <<stored, shown, task, snap, reminders>>
  BY DEF Tick, loop, boot
<1>3. \A p \in Tasks : task[p].at \in Nat
  BY Holds, AgentAssumption DEF Task
<1>4. ASSUME NEW f \in Events, Question(stored[f], now + 1)
      PROVE  Question(stored[f], now)
  <2>1. stored[f] \in Event
    BY <1>4 DEF Question, IInv, TypeOK
  <2>2. stored[f].expires \in Nat
    BY <2>1, AgentAssumption DEF Event, Moment
  <2> QED
    BY <1>1, <1>4, <2>2 DEF Question
<1>5. ASSUME NEW p \in Tasks PROVE Voiced(task'[p], stored', now')
  <2>1. Voiced(task[p], stored, now)
    BY DEF HandInv
  <2> QED
    BY <1>1, <1>2, <1>3, <1>4, <2>1 DEF Voiced
<1>6. OneWriter' /\ Hidden'
  BY <1>2 DEF HandInv, OneWriter, Hidden, Silent, Quiet
<1>7. OneOpenPerKey <=> OneOpenPerKey'
  BY <1>2 DEF OneOpenPerKey
<1> QED
  BY <1>2, <1>5, <1>6, <1>7 DEF HandInv

(* The start-up only closes an event, or re-checks one that was shown. *)
LEMMA RecoverOneHands ==
  ASSUME IInv, ClaimInv, HandInv, ~DeliveryRaces, NEW e \in Events, RecoverOne(e)
  PROVE  /\ HandInv'
         /\ \A f \in Events : Open(stored'[f]) => stored'[f] = stored[f]
<1> DEFINE x == [snap[e] EXCEPT !.state = "expired", !.upd = bootAt]
<1>1. /\ snap[e] \in Event /\ snap[e].key = stored[e].key
      /\ bootAt \in Moment /\ Boot \in Tasks /\ task[Boot] = Idle
  BY Moments, AgentNullAssumption
  DEF RecoverOne, IInv, TypeOK, Tasks, HandInv
<1>2. UNCHANGED <<snap, reminders, shown, now>>
  BY DEF RecoverOne, counters
<1>3. CASE Outdated(snap[e])
  <2>1. ~Resumes(snap[e]) /\ e \notin BeingDelivered
    BY <1>1, <1>3 DEF Outdated, Resumes, Event, Moment, RecoverOne
  <2>2. task' = task /\ stored' = [stored EXCEPT ![e] = x]
    BY <1>3, <2>1 DEF RecoverOne
  <2>3. x \in Event /\ x.state = "expired" /\ x.key = snap[e].key
    BY <1>1 DEF Event, States
  <2> HIDE DEF x
  <2>4. ~Open(x) /\ Quiet(x)
    BY <2>3 DEF Open, OpenStates, Quiet
  <2>5. stored'[e] = x /\ \A f \in Events : f # e => stored'[f] = stored[f]
    BY <2>2 DEF IInv, TypeOK
  <2>6. OneWriter' /\ Hidden'
    BY <1>2, <2>2, <2>4, <2>5 DEF HandInv, OneWriter, Hidden, Silent
  <2>7. \A f \in Events : /\ Open(stored'[f]) => stored'[f] = stored[f]
                          /\ stored'[f].key = stored[f].key
    BY <1>1, <2>3, <2>4, <2>5
  <2>8. OneOpenPerKey => OneOpenPerKey'
    BY <2>7 DEF OneOpenPerKey
  <2>9. ASSUME NEW q \in Tasks
        PROVE  /\ Stands(task[q], stored', shown) /\ Voiced(task[q], stored', now)
               /\ Keyed(task[q], stored')
               /\ Sole(task[q], stored) => Sole(task[q], stored')
    <3>1. /\ Stands(task[q], stored, shown) /\ Voiced(task[q], stored, now)
          /\ Keyed(task[q], stored)
      BY DEF HandInv
    <3>2. task[q].pc \in Copying => task[q].id \in Events
      BY Holds
    <3>3. Keyed(task[q], stored')
      BY <2>7, <3>1, <3>2 DEF Keyed
    <3>4. Voiced(task[q], stored', now)
      BY <2>3, <2>5, <3>1 DEF Voiced, Question
    <3>5. Sole(task[q], stored) => Sole(task[q], stored')
      BY <2>7 DEF Sole, Closed
    <3>6. CASE task[q].id = e
      <4>1. task[q].pc \notin Delivering
        BY <2>1, <3>6 DEF BeingDelivered
      <4>2. Stands(task[q], stored', shown)
        BY <2>3, <2>4, <2>5, <3>1, <3>6, <4>1 DEF Stands, Answered
      <4> QED
        BY <3>3, <3>4, <3>5, <4>2
    <3>7. CASE task[q].id # e
      <4>1. task[q].pc \in Copying => stored'[task[q].id] = stored[task[q].id]
        BY <2>5, <3>2, <3>7
      <4>2. Stands(task[q], stored', shown)
        BY <3>1, <4>1 DEF Stands, Copying, Pcs, Locked, Delivering
      <4> QED
        BY <3>3, <3>4, <3>5, <4>2
    <3> QED
      BY <3>6, <3>7
  <2> QED
    BY <1>2, <2>2, <2>6, <2>7, <2>8, <2>9 DEF HandInv
<1>4. CASE ~Outdated(snap[e])
  <2>1. stored' = stored
    BY <1>4 DEF RecoverOne
  <2>2. CASE Resumes(snap[e]) /\ Become(Boot, Recheck(e))
    <3> DEFINE t == Recheck(e)
    <3>1. t.id = e /\ t.pc = "lock" /\ t.at = 0 /\ t.op # "signal"
      BY DEF Recheck, Idle
    <3>2. e \in shown
      BY <1>1, <2>2, AgentNullAssumption
      DEF Resumes, Overdue, HandInv, Hidden, Quiet
    <3>3. now \in Nat
      BY AgentAssumption DEF IInv, TypeOK
    <3> HIDE DEF t
    <3>4. Lawful(Boot, t)
      BY <1>1, <1>2, <2>1, <2>2, <3>1, <3>2, <3>3, AskIsLawful DEF t
    <3> QED
      BY <1>1, <2>1, <3>4, LawfulKeeps
  <2>3. CASE UNCHANGED task
    <3>1. HandInv'
      BY <1>2, <2>1, <2>3, LoadHands
    <3> QED
      BY <2>1, <3>1
  <2> QED
    BY <2>2, <2>3 DEF RecoverOne
<1> QED
  BY <1>3, <1>4

(* At first nothing is stored and nobody does anything. *)
LEMMA InitHands == Init => HandInv
<1> SUFFICES ASSUME Init PROVE HandInv
  OBVIOUS
<1>1. /\ Idle.pc = "idle" /\ Idle.id \notin Events /\ Idle.at = 0 /\ Idle.op = "-"
      /\ \A p \in Tasks : task[p] = Idle
  BY AgentNullAssumption DEF Init, Idle
<1>2. Idle.pc \notin Copying
  BY <1>1 DEF Copying
<1>3. /\ \A e \in Events : stored[e] = None /\ snap[e] = None
      /\ reminders = {} /\ now = 0
  BY DEF Init, NoEvents
<1>4. OneWriter /\ Hidden /\ OneOpenPerKey
  BY <1>1, <1>2, <1>3 DEF OneWriter, Hidden, Quiet, OneOpenPerKey, Open
<1>5. \A p \in Tasks : /\ Stands(task[p], stored, shown) /\ Voiced(task[p], stored, now)
                       /\ Keyed(task[p], stored) /\ Sole(task[p], stored)
  BY <1>1, <1>2, <1>3 DEF Stands, Voiced, Keyed, Sole, Delivering
<1> QED
  BY <1>3, <1>4, <1>5 DEF HandInv

(* The invariant is inductive, and no step opens an answered event again. *)
LEMMA NextHands ==
  ASSUME ~DeliveryRaces, IInv, ClaimInv, HandInv, [Next]_vars
  PROVE  /\ HandInv'
         /\ \A e \in Events : Known(e) /\ stored[e].state \in Answered =>
              ~Open(stored'[e])
<1>1. CASE \/ \E p \in Tasks : Acquire(p) \/ Step(p)
           \/ \E p \in Workers : StartSignal(p) \/ StartClick(p) \/ StartVoice(p) \/ Fire(p)
  BY <1>1, TasksAreLawful, LawfulKeeps, LawfulStands
<1>2. \A e \in Events : Known(e) /\ stored[e].state \in Answered => ~Open(stored[e])
  BY DEF Open, OpenStates, Answered
<1>3. CASE Recover
  <2>1. CASE RecoverLoad \/ EndRecover
    <3>1. /\ UNCHANGED <<stored, shown, task, now, reminders>>
          /\ \A e \in Events : snap'[e] \in {None, stored[e], snap[e]}
      BY <2>1 DEF RecoverLoad, EndRecover, NoEvents, loop, counters
    <3> QED
      BY <1>2, <3>1, LoadHands
  <2>2. CASE \E e \in Events : RecoverOne(e)
    BY <1>2, <2>2, RecoverOneHands
  <2> QED
    BY <1>3, <2>1, <2>2 DEF Recover
<1>4. CASE Restart
  BY <1>2, <1>4, RestartHands DEF Restart
<1>5. CASE Tick
  BY <1>2, <1>5, TickHands DEF Tick
<1>6. CASE AtRest \/ UNCHANGED vars
  BY <1>2, <1>6, LoadHands DEF AtRest, vars, loop, boot, counters
<1> QED
  BY <1>1, <1>3, <1>4, <1>5, <1>6 DEF Next

(* The three invariants together, as long as nothing meets a delivery. *)
LEMMA HandsHold ==
  ASSUME ~DeliveryRaces
  PROVE  Spec => [](IInv /\ ClaimInv /\ HandInv)
<1>1. Init => ClaimInv /\ HandInv
  BY InitClaims, InitHands
<1>2. IInv /\ ClaimInv /\ HandInv /\ [Next]_vars => ClaimInv' /\ HandInv'
  BY NextClaims, NextHands
<1> QED
  BY <1>1, <1>2, InvariantHolds, PTL DEF Spec

(* The answers in async_handle_notification_action, the voice replies and  *)
(* the results saved after an action, for any number of events, handlers   *)
(* and restarts, with failing triggers too: as long as nothing meets a     *)
(* delivery that is not stored, no copy that another handler still holds   *)
(* opens the event again.                                                  *)
THEOREM AnswersAreKept == ~DeliveryRaces => (Spec => AnswerStands)
<1> SUFFICES ASSUME ~DeliveryRaces PROVE Spec => AnswerStands
  OBVIOUS
<1>1. IInv /\ ClaimInv /\ HandInv /\ [Next]_vars =>
        [\A e \in Events :
           Known(e) /\ stored[e].state \in {"acknowledged", "resolved", "denied", "failed"}
             => ~Open(stored'[e])]_vars
  BY NextHands DEF Answered
<1> QED
  BY <1>1, HandsHold, PTL DEF AnswerStands, Spec

(* async_signal and _find_duplicate, for any number of signals, handlers    *)
(* and restarts: as long as nothing meets a delivery that is not stored and *)
(* no trigger fails (a failed one puts the old event back beside the new    *)
(* one its automation may have signalled), no key has two open events.      *)
THEOREM KeysAreUnique ==
  ~DeliveryRaces /\ ~TriggerFails => (Spec => []OneOpenPerKey)
<1> SUFFICES ASSUME ~DeliveryRaces, ~TriggerFails PROVE Spec => []OneOpenPerKey
  OBVIOUS
<1>1. HandInv => OneOpenPerKey
  BY DEF HandInv
<1> QED
  BY <1>1, HandsHold, PTL

(* A reply that is about to be claimed has no other open question. *)
LEMMA NoOtherQuestion ==
  ASSUME IInv, ClaimInv, HandInv, NEW p \in Tasks, task[p].op = "yes", At(p, "claim")
  PROVE  Questions \subseteq {task[p].id}
<1>1. task[p].op \in Replies /\ task[p].pc = "claim" /\ task[p].pc \in Locked
  BY DEF Replies, At, Locked
<1>2. \A f \in Events \ {task[p].id} : ~Question(stored[f], now)
  BY <1>1 DEF HandInv, Voiced
<1>3. \A q \in Tasks : task[q].pc # "store"
  BY <1>1 DEF ClaimInv, Gate, Delivering
<1> QED
  BY <1>2, <1>3 DEF Questions, At

(* async_handle_voice_reply, for any number of questions, speakers and      *)
(* handlers: as long as nothing meets a delivery that is not stored, a      *)
(* spoken yes runs an action only if no other question the speaker had      *)
(* heard is still open.                                                     *)
THEOREM RepliesAreUnambiguous == ~DeliveryRaces => (Spec => VoiceUnambiguous)
<1> SUFFICES ASSUME ~DeliveryRaces PROVE Spec => VoiceUnambiguous
  OBVIOUS
<1>1. IInv /\ ClaimInv /\ HandInv /\ [Next]_vars =>
        [\A p \in Tasks :
           task[p].op = "yes" /\ At(p, "claim") /\ task'[p].pc = "execute" =>
             Questions \cap task[p].heard \subseteq {task[p].id}]_vars
  BY NoOtherQuestion
<1> QED
  BY <1>1, HandsHold, PTL DEF VoiceUnambiguous, Spec
===============================================================================
