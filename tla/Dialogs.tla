------------------------------ MODULE Dialogs ------------------------------
(* The open questions of one conversation.  HomeIntent keeps them in two    *)
(* places: the context of the conversation holds at most one (a lock to be  *)
(* opened, an automation to be created), and the queue of the dialog        *)
(* manager holds one of every kind that was moved there (a plan, a memory,  *)
(* a permission).  A mirror of the context's question is kept in the queue, *)
(* so that one order decides which question a short reply is about.         *)
(*                                                                          *)
(* A turn is a sentence on its way through                                  *)
(* _async_handle_message_inner.  It reads the context, waits for the        *)
(* confirmed preferences, and is then routed in one go to the question it   *)
(* answers or to what it asks for; it waits again while it looks things up  *)
(* and while it carries something out.  Nothing keeps two turns of one      *)
(* conversation apart: what a turn read may be over when it goes on.        *)
(*                                                                          *)
(* A question stands for its payload, so no two of them are equal, and the  *)
(* queue has one task per kind.                                             *)
EXTENDS Integers, FiniteSets

CONSTANTS
    Kinds,         \* the kinds of question that are asked
    Speakers,      \* Home Assistant users, possibly nobody
    nobody,        \* the owner of a question that belongs to none of them
    Turns,         \* turns that can be under way at once
    LongTTL,       \* life of a question, in steps of the clock
    ShortTTL,      \* life of a choice between devices in the context
    MaxQuestions   \* bound: questions asked, numbered in order

---------------------------------------------------------------------------
(* What the handlers of the questions differ in.                            *)
(*   home    where the question is kept                                     *)
(*   rank    DialogPriority                                                 *)
(*   stage   which handler of the chain looks for it, see Route             *)
(*   owned   only the user who was asked may answer                         *)
(*   early   a yes closes it before it is acted upon                        *)
(*   sweeps  whether closing it empties the queue or takes its own task     *)
(*   yields  a longer sentence that is no answer closes it and goes on      *)
(*   draft   a complete command is taken as a part of the answer            *)
InContext(rank, owned, early, draft) ==
    [home |-> "context", rank |-> rank, stage |-> 9, owned |-> owned,
     early |-> early, sweeps |-> FALSE, yields |-> FALSE, draft |-> draft]
InQueue(rank, stage, early, sweeps, yields) ==
    [home |-> "queue", rank |-> rank, stage |-> stage, owned |-> TRUE,
     early |-> early, sweeps |-> sweeps, yields |-> yields, draft |-> FALSE]

Service    == InContext(40, TRUE, TRUE, FALSE)
Automation == InContext(30, TRUE, TRUE, FALSE)
Deletion   == InContext(30, FALSE, TRUE, FALSE)
Management == InContext(30, FALSE, TRUE, FALSE)
Calendar   == InContext(30, FALSE, TRUE, FALSE)
Structure  == InContext(10, FALSE, FALSE, TRUE)
Action     == InContext(10, FALSE, FALSE, TRUE)
Clarify    == InContext(20, FALSE, TRUE, FALSE)
Alias      == InQueue(30, 0, FALSE, FALSE, FALSE)
Permission == InQueue(30, 1, TRUE, FALSE, TRUE)
Mute       == InQueue(30, 1, TRUE, FALSE, TRUE)
Pick       == InQueue(20, 1, FALSE, FALSE, TRUE)
Reset      == InQueue(40, 4, FALSE, TRUE, FALSE)
Plan       == InQueue(30, 5, FALSE, TRUE, TRUE)
Memory     == InQueue(30, 6, FALSE, TRUE, TRUE)

Kind ==
    [service |-> Service, automation |-> Automation, deletion |-> Deletion,
     management |-> Management, calendar |-> Calendar, structure |-> Structure,
     action |-> Action, clarify |-> Clarify, alias |-> Alias,
     permission |-> Permission, mute |-> Mute, pick |-> Pick,
     reset |-> Reset, plan |-> Plan, memory |-> Memory]

ASSUME KindAssumption == Kinds \subseteq DOMAIN Kind
ASSUME BoundAssumption ==
    /\ LongTTL \in Nat \ {0} /\ ShortTTL \in 1 .. LongTTL
    /\ MaxQuestions \in Nat

ContextKinds == {k \in Kinds : Kind[k].home = "context"}
QueueKinds   == {k \in Kinds : Kind[k].home = "queue"}

\* What can be said: an answer, something short or long that is none, a
\* complete command ("mach lieber ..." insists on it), a change to what is
\* proposed, the wish to have all switched off downstairs, or a wish that a
\* question of some kind follows.  To a choice, yes is the name of one.
Words == {"yes", "no", "stop", "mumble", "sentence", "command", "rather",
          "amend", "scenario"}
Texts == Words \cup (Kinds \ {"service", "pick"})

Complete(s) == s \in {"command", "rather"}
Short(s)    == s \in {"yes", "no", "stop", "mumble", "amend"}

---------------------------------------------------------------------------
VARIABLES
    asked,    \* questions asked so far
    context,  \* ConversationContextStore: its pending question, and since when
    queue,    \* DialogManager: its tasks, by task id
    turn,     \* the turns under way
    closed    \* questions that were answered, withdrawn or replaced

vars == <<asked, context, queue, turn, closed>>

Question   == [n : Nat \ {0}, kind : Kinds, owner : Speakers \cup {nobody}]
NoQuestion == [n |-> 0, kind |-> "none", owner |-> nobody]
Maybe      == Question \cup {NoQuestion}

Nothing == [q |-> NoQuestion, age |-> 0]

Mirror == "context-payload"
Ids    == QueueKinds \cup {Mirror}

\* above: the tasks that were there when this one was created.
Task  == [q : Maybe, age : 0 .. LongTTL, above : SUBSET Ids]
Empty == [q |-> NoQuestion, age |-> 0, above |-> {}]
EmptyQueue == [i \in Ids |-> Empty]

\* pending is what the turn read of the context and on the question it acts
\* on; heard says which question the context held when it began, and gone
\* which ones were closed by then.
Idle ==
    [pc |-> "idle", who |-> nobody, text |-> "mumble", stage |-> 0,
     pending |-> NoQuestion, on |-> NoQuestion, heard |-> 0, gone |-> {}]
Turn ==
    [pc : {"idle", "spoken", "running", "asking", "acting"},
     who : Speakers \cup {nobody}, text : Words \cup Kinds, stage : 0 .. 9,
     pending : Maybe, on : Maybe, heard : Nat, gone : SUBSET Nat]

Init ==
    /\ asked = 0
    /\ context = Nothing
    /\ queue = EmptyQueue
    /\ turn = [t \in Turns |-> Idle]
    /\ closed = {}

---------------------------------------------------------------------------
(* The queue and the context, as functions of what they were.               *)
Held(Q) == {i \in Ids : Q[i].q.n # 0}

Without(Q, S) ==
    IF S \cap Held(Q) = {} THEN Q
    ELSE [i \in Ids |-> IF i \in S THEN Empty
                        ELSE [Q[i] EXCEPT !.above = @ \ S]]

\* A slip: a new task does not know what was there before it.
WithUndated(Q, id, q) ==
    [i \in Ids |-> IF i = id THEN [q |-> q, age |-> 0, above |-> {}] ELSE Q[i]]

\* DialogManager.create: a task of the same id is replaced.
With(Q, id, q) ==
    [i \in Ids |-> IF i = id THEN [q |-> q, age |-> 0, above |-> Held(Q) \ {id}]
                   ELSE [Q[i] EXCEPT !.above = @ \ {id}]]

Purged(Q) == Without(Q, {i \in Held(Q) : Q[i].age = LongTTL})

Rank(Q, i) == Kind[Q[i].q.kind].rank
Active(Q, i) ==
    /\ i \in Held(Q)
    /\ \A j \in Held(Q) \ {i} :
          \/ Rank(Q, i) > Rank(Q, j)
          \/ Rank(Q, i) = Rank(Q, j) /\ j \in Q[i].above

\* A slip: any question of the kind counts as the one that is mirrored.
MirroredKind(Q, q) ==
    IF q.n = 0 THEN Without(Q, {Mirror})
    ELSE IF Q[Mirror].q.kind = q.kind THEN Q
    ELSE With(Without(Q, {Mirror}), Mirror, q)

\* The mirror of q; an equal one keeps its age.
Mirrored(Q, q) ==
    IF q.n = 0 THEN Without(Q, {Mirror})
    ELSE IF Q[Mirror].q = q THEN Q
    ELSE With(Without(Q, {Mirror}), Mirror, q)

Life(q) == IF q.kind = "clarify" THEN ShortTTL ELSE LongTTL
Lapsed == context.q.n # 0 /\ context.age > Life(context.q)

\* ConversationContextStore.set and clear, each with the mirror it moves.
Store(Q, q) == context' = [q |-> q, age |-> 0] /\ queue' = Mirrored(Q, q)
Clear(Q) == context' = Nothing /\ queue' = Mirrored(Q, NoQuestion)

\* A slip: only a question that sweeps is closed.
ClosedLate(Q, i) == IF Kind[i].sweeps THEN EmptyQueue ELSE Q

\* The closing of a question of the queue.
Closed(Q, i) == IF Kind[i].sweeps THEN EmptyQueue ELSE Without(Q, {i})

\* A slip: anyone may.
AnyoneMay(t, q) == TRUE
MayAnswer(t, q) == q.owner \in {nobody, turn[t].who}

---------------------------------------------------------------------------
(* What becomes of a turn.                                                  *)
Done(t) == turn' = [turn EXCEPT ![t] = Idle]
GoOn(t, pc, on) ==
    turn' = [turn EXCEPT ![t].pc = pc, ![t].on = on, ![t].pending = NoQuestion,
                         ![t].text = "mumble", ![t].stage = 0]
Look(t, k) ==
    turn' = [turn EXCEPT ![t].pc = "asking", ![t].text = k,
                         ![t].pending = NoQuestion, ![t].stage = 0]
\* The handlers behind those that have seen the turn see it next.
PassOn(t, s, i) ==
    turn' = [turn EXCEPT ![t].stage = Kind[i].stage + 1, ![t].text = s]

Close(questions) == closed' = closed \cup ({q.n : q \in questions} \ {0})

New(t, k) ==
    [n |-> asked + 1, kind |-> k,
     owner |-> IF Kind[k].owned THEN turn[t].who ELSE nobody]
MayAsk == asked < MaxQuestions /\ asked' = asked + 1

(* A sentence arrives, and the turn reads the context.                      *)
Speak(t, u) ==
    /\ turn[t].pc = "idle"
    /\ LET seen == IF Lapsed THEN Nothing ELSE context
       IN /\ context' = seen
          /\ queue' = IF Lapsed THEN Mirrored(queue, NoQuestion) ELSE queue
          /\ turn' = [turn EXCEPT ![t] =
                 [Idle EXCEPT !.pc = "spoken", !.who = u, !.pending = seen.q,
                              !.heard = seen.q.n, !.gone = closed]]
    /\ UNCHANGED <<asked, closed>>

\* The queue as the turn finds it: the mirror follows what the turn read of
\* the context, however long ago that was, and what has expired is dropped.
Found(t) ==
    Purged(IF turn[t].stage = 0 THEN Mirrored(queue, turn[t].pending)
           ELSE queue)
First(t, i) == Active(Found(t), i)

Spoken(t) == turn[t].pc = "spoken"
Open(t)   == Spoken(t) /\ turn[t].pending.n # 0
Free(t)   == Spoken(t) /\ turn[t].pending.n = 0

\* What the sentence says shows when it is routed, and then is known.
Says(t, s) == turn[t].stage > 0 => s = turn[t].text

(* A complete command replaces the question in the context, and with it all *)
(* others, unless it may be a part of the answer; or an open alias.         *)
Replaces(t, s) ==
    /\ turn[t].stage = 0 /\ Complete(s)
    /\ \/ /\ Open(t)
          /\ ~Kind[turn[t].pending.kind].draft \/ s = "rather"
       \/ Free(t) /\ First(t, "alias")
Replace(t, s) ==
    /\ Replaces(t, s)
    /\ context' = IF Open(t) THEN Nothing ELSE context
    /\ queue' = EmptyQueue
    /\ GoOn(t, "running", NoQuestion)
    /\ Close({queue[i].q : i \in Ids \ {Mirror}}
                \cup IF Open(t) THEN {context.q} ELSE {})
    /\ UNCHANGED <<asked>>

(* "Stopp" discards every question of the conversation, for the user whom   *)
(* the most urgent one belongs to.                                          *)
Stops(t, s) ==
    /\ turn[t].stage = 0 /\ s = "stop"
    /\ Open(t) \/ (Free(t) /\ Held(Found(t)) # {})
Foreign(t) == \E i \in Ids : First(t, i) /\ ~MayAnswer(t, Found(t)[i].q)
Stop(t, s) ==
    /\ Stops(t, s) /\ ~Foreign(t)
    /\ context' = Nothing /\ queue' = EmptyQueue
    /\ Close({queue[i].q : i \in Ids \ {Mirror}} \cup {context.q})
    /\ Done(t)
    /\ UNCHANGED <<asked>>
StopRefused(t, s) ==
    /\ Stops(t, s) /\ Foreign(t)
    /\ queue' = Found(t) /\ Done(t)
    /\ UNCHANGED <<asked, context, closed>>

---------------------------------------------------------------------------
(* With no question in the context, the handlers are offered the turn one   *)
(* after the other: aliases, proactive dialogs, comfort, learning, goals,   *)
(* memory.  Each takes it when the active task is of its kind, and an       *)
(* earlier one when the sentence asks for something of its own.             *)
Stage(s) == IF s \in QueueKinds THEN Kind[s].stage
            ELSE IF s = "scenario" THEN 2 ELSE 9
Comes(t, s, i) ==
    /\ Stage(s) \in 2 .. Kind[i].stage - 1
    /\ Stage(s) >= turn[t].stage
Taken(t, s, i) ==
    /\ Free(t) /\ Says(t, s) /\ ~Replaces(t, s) /\ ~Stops(t, s)
    /\ Kind[i].stage >= turn[t].stage /\ ~Comes(t, s, i)
    /\ queue[i].q.n # 0 /\ First(t, i)

Accept(t, s, i) ==
    /\ s = "yes" /\ Taken(t, s, i) /\ MayAnswer(t, Found(t)[i].q)
    /\ GoOn(t, "acting", Found(t)[i].q)
    /\ IF Kind[i].early
       THEN queue' = Closed(Found(t), i) /\ Close({Found(t)[i].q})
       ELSE queue' = Found(t) /\ UNCHANGED closed
    /\ UNCHANGED <<asked, context>>

\* What closing the question i of the queue takes with it.
Swept(Q, i) == IF Kind[i].sweeps THEN {Q[j].q : j \in QueueKinds} ELSE {Q[i].q}

Decline(t, s, i) ==
    /\ s = "no" /\ Taken(t, s, i) /\ MayAnswer(t, Found(t)[i].q)
    /\ queue' = Closed(Found(t), i) /\ Close(Swept(Found(t), i))
    /\ Done(t)
    /\ UNCHANGED <<asked, context>>

\* A plan may be changed before it is carried out, which asks anew.
Amends(s, i) == i = "plan" /\ s = "amend"
Amend(t, s, i) ==
    /\ Amends(s, i) /\ Taken(t, s, i) /\ MayAnswer(t, Found(t)[i].q)
    /\ MayAsk
    /\ queue' = With(Found(t), i, New(t, i)) /\ Close({Found(t)[i].q})
    /\ Done(t)
    /\ UNCHANGED <<context>>

\* Some other sentence gives the question up and is understood afresh.
GivesUp(s, i) == Kind[i].yields /\ ~Short(s)
GiveUp(t, s, i) ==
    /\ GivesUp(s, i) /\ Taken(t, s, i) /\ MayAnswer(t, Found(t)[i].q)
    /\ queue' = Closed(Found(t), i) /\ Close(Swept(Found(t), i))
    /\ PassOn(t, s, i)
    /\ UNCHANGED <<asked, context>>

\* Otherwise the question is repeated, or whom it belongs to is said.
Repeat(t, s, i) ==
    /\ Taken(t, s, i)
    /\ \/ ~MayAnswer(t, Found(t)[i].q)
       \/ /\ s \notin {"yes", "no"}
          /\ ~Amends(s, i) /\ ~GivesUp(s, i)
    /\ queue' = Found(t) /\ Done(t)
    /\ UNCHANGED <<asked, context, closed>>

---------------------------------------------------------------------------
(* The question the turn read in the context is answered when it is the     *)
(* most urgent one, as its mirror in the queue has it; a choice between     *)
(* devices is answered in any case, from the turn's own copy.               *)
Read(t) == turn[t].pending
Meant(t) == IF Read(t).kind = "clarify" THEN Read(t) ELSE Found(t)[Mirror].q
Escapes(s) == s \in ContextKinds \cup {"alias"}
Answers(t, s) ==
    /\ Open(t) /\ ~Replaces(t, s) /\ ~Stops(t, s)
    /\ IF Read(t).kind = "clarify" THEN ~Escapes(s) ELSE First(t, Mirror)

Revises(t, s) == Read(t).kind = "automation" /\ s = "amend"
Adds(t, s) == Kind[Read(t).kind].draft /\ s \in {"sentence", "command"}

\* A yes to what is closed before it is acted upon, and to what is not.
Confirm(t, s) ==
    /\ s = "yes" /\ Read(t).kind # "clarify"
    /\ Answers(t, s) /\ MayAnswer(t, Meant(t))
    /\ GoOn(t, "acting", Meant(t))
    /\ IF Kind[Read(t).kind].early
       THEN Clear(Found(t)) /\ Close({context.q, Read(t)})
       ELSE queue' = Found(t) /\ UNCHANGED <<context, closed>>
    /\ UNCHANGED <<asked>>

\* A choice is carried out like the command it completes.
Choose(t, s) ==
    /\ s = "yes" /\ Read(t).kind = "clarify" /\ Answers(t, s)
    /\ GoOn(t, "running", Read(t))
    /\ queue' = Found(t)
    /\ UNCHANGED <<asked, context, closed>>
Refuse(t, s) ==
    /\ s = "no" /\ Answers(t, s) /\ MayAnswer(t, Meant(t))
    /\ Clear(Found(t)) /\ Close({context.q, Read(t)})
    /\ Done(t)
    /\ UNCHANGED <<asked>>

\* Any user may change the automation that is proposed to one of them; an
\* edit may want to know more before it asks for consent; a choice that was
\* not understood is offered again, among what is left.
Again(t, s) ==
    /\ Answers(t, s)
    /\ \/ Revises(t, s) \/ Adds(t, s)
       \/ Read(t).kind = "clarify" /\ s \notin {"yes", "no"}
    /\ MayAsk
    /\ Store(Found(t), [Meant(t) EXCEPT !.n = asked + 1])
    /\ Close({context.q, Read(t)})
    /\ Done(t)

Unmoved(t, s) ==
    /\ Answers(t, s) /\ Read(t).kind # "clarify" /\ ~Revises(t, s)
    /\ s \in {"yes", "no"} => ~MayAnswer(t, Meant(t))
    /\ queue' = Found(t) /\ Done(t)
    /\ UNCHANGED <<asked, context, closed>>

---------------------------------------------------------------------------
(* What no question claims is a wish of its own.                            *)
Unclaimed(t, s) ==
    /\ Spoken(t) /\ Says(t, s)
    /\ ~Replaces(t, s) /\ ~Stops(t, s) /\ ~Answers(t, s)
    /\ \A i \in QueueKinds : ~Taken(t, s, i)

\* Asked in the same breath: an alias, which clears the context; a standing
\* permission or a mute, when nothing else is open; a scenario.
AskAlias(t, s) ==
    /\ s = "alias" /\ Unclaimed(t, s) /\ MayAsk
    /\ context' = Nothing
    /\ queue' = With(Without(Found(t), {Mirror}), "alias", New(t, "alias"))
    /\ Close({context.q, Found(t)["alias"].q})
    /\ Done(t)

AskProactive(t, s) ==
    /\ s \in {"permission", "mute"} /\ Free(t) /\ Unclaimed(t, s)
    /\ Held(Found(t)) = {} /\ MayAsk
    /\ queue' = With(Found(t), s, New(t, s))
    /\ Done(t)
    /\ UNCHANGED <<context, closed>>

AskScenario(t, s) ==
    /\ s = "scenario" /\ Free(t) /\ turn[t].stage <= 2 /\ Unclaimed(t, s)
    /\ "automation" \in Kinds /\ MayAsk
    /\ Store(Found(t), New(t, "automation")) /\ Close({context.q})
    /\ Done(t)

\* Asked after things were looked up: what the handlers of the queue ask, a
\* choice of proposals for a yes that nothing else waits for, and what is
\* kept in the context.
Wants(t, s, k) ==
    \/ /\ Free(t) /\ s = k
       /\ k \in QueueKinds \ {"alias", "permission", "mute", "pick"}
       /\ Kind[k].stage >= turn[t].stage
    \/ /\ Free(t) /\ s = "yes" /\ Held(Found(t)) \subseteq {Mirror}
       /\ k \in QueueKinds /\ k = "pick"
    \/ k \in ContextKinds \ {"service"} /\ s = k
Wish(t, s, k) ==
    /\ Wants(t, s, k) /\ Unclaimed(t, s)
    /\ queue' = Found(t) /\ Look(t, k)
    /\ UNCHANGED <<asked, context, closed>>

Ask(t, k) ==
    /\ turn[t].pc = "asking" /\ turn[t].text = k /\ MayAsk
    /\ IF Kind[k].home = "context"
       THEN Store(queue, New(t, k)) /\ Close({context.q})
       ELSE /\ queue' = With(queue, k, New(t, k)) /\ Close({queue[k].q})
            /\ UNCHANGED context
    /\ Done(t)

\* Or there is nothing to ask about.
Refrain(t) ==
    /\ turn[t].pc = "asking"
    /\ \/ Clear(queue) /\ Close({context.q})
       \/ UNCHANGED <<context, queue, closed>>
    /\ Done(t)
    /\ UNCHANGED <<asked>>

Begin(t, s) ==
    /\ Complete(s) /\ Unclaimed(t, s)
    /\ queue' = Found(t) /\ GoOn(t, "running", NoQuestion)
    /\ UNCHANGED <<asked, context, closed>>
NotUnderstood(t, s) ==
    /\ ~Complete(s) /\ Unclaimed(t, s)
    /\ queue' = Found(t) /\ Done(t)
    /\ UNCHANGED <<asked, context, closed>>

(* A command is carried out, and the context then is about it; the policy   *)
(* may want it confirmed, or refuse it.                                     *)
Run(t) ==
    /\ turn[t].pc = "running"
    /\ Clear(queue) /\ Close({context.q, turn[t].on})
    /\ GoOn(t, "acting", turn[t].on) \/ Done(t)
    /\ UNCHANGED <<asked>>

AskFirst(t) ==
    /\ turn[t].pc = "running" /\ "service" \in Kinds /\ MayAsk
    /\ Store(queue, New(t, "service")) /\ Close({context.q, turn[t].on})
    /\ Done(t)

(* What was accepted is done.  A question that outlived the answer is       *)
(* closed; a command clears the context again when it failed, and a         *)
(* confirmed one keeps what undoes it there.                                *)
Acting(t) == turn[t].pc = "acting"
Finish(t) ==
    /\ Acting(t)
    /\ LET k == turn[t].on.kind
       IN \/ /\ k \in QueueKinds /\ ~Kind[k].early
             /\ queue' = Closed(queue, k) /\ Close(Swept(queue, k))
             /\ UNCHANGED context
          \/ /\ \/ k \in ContextKinds /\ ~Kind[k].early
                \/ k \in {"none", "service", "clarify"}
             /\ Clear(queue) /\ Close({context.q})
          \/ /\ k # "none" => Kind[k].early
             /\ UNCHANGED <<context, queue, closed>>
    /\ Done(t)
    /\ UNCHANGED <<asked>>

\* Nothing depends on how long ago something expired.
Older(age, most) == IF age < most THEN age + 1 ELSE age
Tick ==
    /\ context' = IF context.q.n = 0 THEN context
                  ELSE [context EXCEPT !.age = Older(@, LongTTL + 1)]
    /\ queue' = [i \in Ids |->
           IF i \in Held(queue) THEN [queue[i] EXCEPT !.age = Older(@, LongTTL)]
           ELSE queue[i]]
    /\ UNCHANGED <<asked, turn, closed>>

Route(t, s) ==
    \/ Replace(t, s) \/ Stop(t, s) \/ StopRefused(t, s)
    \/ \E i \in QueueKinds :
          \/ Accept(t, s, i) \/ Decline(t, s, i) \/ Amend(t, s, i)
          \/ GiveUp(t, s, i) \/ Repeat(t, s, i)
    \/ Confirm(t, s) \/ Choose(t, s) \/ Refuse(t, s) \/ Again(t, s) \/ Unmoved(t, s)
    \/ AskAlias(t, s) \/ AskProactive(t, s) \/ AskScenario(t, s)
    \/ \E k \in Kinds : Wish(t, s, k)
    \/ Begin(t, s) \/ NotUnderstood(t, s)

Step(t) ==
    \/ \E u \in Speakers : Speak(t, u)
    \/ \E s \in Texts : Route(t, s)
    \/ \E k \in Kinds : Ask(t, k)
    \/ Refrain(t) \/ Run(t) \/ AskFirst(t) \/ Finish(t)

Next == Tick \/ \E t \in Turns : Step(t)

Spec == Init /\ [][Next]_vars

---------------------------------------------------------------------------
\* One of two tasks was there first.
InOrder(Q) ==
    \A i, j \in Held(Q) : i # j => (i \in Q[j].above) # (j \in Q[i].above)

(* The types; and of the tasks of the queue one is active if there is any:  *)
(* which of two was asked first stays known when one is replaced, mirrored  *)
(* anew or taken away (dialog_manager.py:126).                              *)
TypeOK ==
    /\ asked \in 0 .. MaxQuestions
    /\ context \in [q : Maybe, age : 0 .. LongTTL + 1]
    /\ queue \in [Ids -> Task] /\ InOrder(queue)
    /\ turn \in [Turns -> Turn]
    /\ closed \subseteq 1 .. asked

(* A yes that reaches a question in the context means that very question:   *)
(* it was the open one when the sentence began, also when two questions of  *)
(* one kind follow each other and the queue still mirrors the older one     *)
(* (conversation.py:757, dialog_manager.py:244).                            *)
AnswersWhatWasHeard ==
    \A t \in Turns :
        Acting(t) /\ turn[t].on.kind \in ContextKinds =>
            turn[t].on.n = turn[t].heard

(* What was answered, withdrawn or replaced before a sentence was spoken    *)
(* is not acted upon because of it, whether the question was in the context *)
(* or in the queue, mirrored or not.                                        *)
AnsweredStaysAnswered ==
    \A t \in Turns : Acting(t) => turn[t].on.n \notin turn[t].gone

(* Nobody's question is acted upon because of what somebody else said,      *)
(* whichever of several open questions the sentence reaches.                *)
OwnersAnswer ==
    \A t \in Turns : Acting(t) => turn[t].on.owner \in {nobody, turn[t].who}

=============================================================================
