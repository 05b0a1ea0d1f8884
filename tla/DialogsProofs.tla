---------------------------- MODULE DialogsProofs ----------------------------
(* Theorems about Dialogs, for any number of turns, users and questions and *)
(* any lives: the types and the order of the queue, that a question in the  *)
(* context is acted upon by the turn that began while it was there, that    *)
(* what was answered before stays so, and that owners answer.               *)
EXTENDS Dialogs, TLAPS

-----------------------------------------------------------------------------
(* The inductive invariant.  K says of which kind the question of a number  *)
(* is, so that numbers of different places differ, and C what is closed.    *)

Numbering(n) == [1 .. n -> Kinds]

Proper(q, K) ==
    /\ q \in Maybe
    /\ q.n # 0 => /\ q.n \in DOMAIN K /\ q.kind = K[q.n]
                  /\ ~Kind[q.kind].owned => q.owner = nobody

\* A question that may be kept in the context.
Contextual(q, K) == Proper(q, K) /\ (q.n # 0 => q.kind \in ContextKinds)

QueueOK(Q, K, C) ==
    /\ Q \in [Ids -> Task] /\ InOrder(Q) /\ 0 \notin C
    /\ Contextual(Q[Mirror].q, K)
    /\ \A i \in QueueKinds :
          /\ Proper(Q[i].q, K)
          /\ Q[i].q.n # 0 => Q[i].q.kind = i
          /\ Q[i].q.n \notin C

ContextOK(c, K, C) ==
    /\ c \in [q : Maybe, age : 0 .. LongTTL + 1]
    /\ Contextual(c.q, K) /\ c.q.n \notin C

TurnOK(r, K, C) ==
    /\ r \in Turn
    /\ Contextual(r.pending, K) /\ Proper(r.on, K)
    /\ r.gone \subseteq C
    /\ r.pending.n \notin r.gone /\ r.on.n \notin r.gone
    /\ r.pending.n # 0 => r.pending.n = r.heard /\ r.stage = 0
    /\ r.pc = "running" /\ r.on.n # 0 => r.on.kind = "clarify"
    /\ r.pc \in {"running", "acting"} => r.on.owner \in {nobody, r.who}
    /\ r.on.n # 0 /\ r.on.kind \in ContextKinds => r.on.n = r.heard

Holds(K) ==
    /\ asked \in 0 .. MaxQuestions
    /\ K \in Numbering(asked)
    /\ closed \subseteq 1 .. asked
    /\ ContextOK(context, K, closed)
    /\ QueueOK(queue, K, closed)
    /\ turn \in [Turns -> Turn]
    /\ \A t \in Turns : TurnOK(turn[t], K, closed)

IInv == \E K \in Numbering(asked) : Holds(K)

\* K2 goes on where K ends.
Extends(K, K2) == \A m \in DOMAIN K : m \in DOMAIN K2 /\ K2[m] = K[m]
Grown(K, k) == [m \in 1 .. asked + 1 |-> IF m = asked + 1 THEN k ELSE K[m]]

Numbers(S) == {q.n : q \in S} \ {0}

-----------------------------------------------------------------------------
(* The kinds.                                                               *)

LEMMA KindFacts ==
    /\ Mirror \notin Kinds /\ "none" \notin Kinds
    /\ Ids = QueueKinds \cup {Mirror}
    /\ QueueKinds \subseteq Kinds /\ ContextKinds \subseteq Kinds
    /\ \A k \in Kinds : k \in ContextKinds \/ k \in QueueKinds
    /\ \A k \in ContextKinds : k \notin QueueKinds
    /\ \A k \in QueueKinds : Kind[k].stage \in 0 .. 8
    /\ \A k \in Kinds : Kind[k].home = "context" <=> k \in ContextKinds
  <1>1. \A k \in Kinds : /\ k # "none" /\ k # Mirror
                         /\ Kind[k].home \in {"context", "queue"}
                         /\ Kind[k].home = "queue" => Kind[k].stage \in 0 .. 8
    BY KindAssumption, SMTT(60) DEF Kind, Mirror, InContext, InQueue, Service,
       Automation, Deletion, Management, Calendar, Structure, Action, Clarify,
       Alias, Permission, Mute, Pick, Reset, Plan, Memory
  <1>2. QED
    BY <1>1 DEF ContextKinds, QueueKinds, Ids

LEMMA NamedKinds ==
    /\ \A k \in Kinds : k \in {"clarify", "automation", "service"} =>
          k \in ContextKinds
    /\ \A k \in Kinds : k \in {"alias", "permission", "mute", "pick", "plan"} =>
          k \in QueueKinds
    /\ ~Kind["clarify"].owned
    BY SMTT(60) DEF ContextKinds, QueueKinds, Kind, InContext, InQueue, Service,
       Automation, Clarify, Alias, Permission, Mute, Pick, Plan

-----------------------------------------------------------------------------
(* Questions and their numbers.                                             *)

LEMMA NoneProper ==
    ASSUME NEW K
    PROVE  Proper(NoQuestion, K) /\ Contextual(NoQuestion, K)
    BY DEF Proper, Contextual, NoQuestion, Maybe

LEMMA NumberZero ==
    /\ NoQuestion \in Maybe /\ NoQuestion.n = 0
    /\ \A q \in Maybe : q.n = 0 <=> q = NoQuestion
    /\ \A q \in Maybe : q.n # 0 => q.n \in Nat /\ q.kind \in Kinds
    /\ \A q \in Maybe : q.n \in Nat
    BY DEF Maybe, Question, NoQuestion

LEMMA Extending ==
    ASSUME NEW K, NEW K2, Extends(K, K2)
    PROVE  /\ \A q : Proper(q, K) => Proper(q, K2)
           /\ \A q : Contextual(q, K) => Contextual(q, K2)
    BY DEF Extends, Proper, Contextual

LEMMA Apart ==
    ASSUME NEW K, NEW q, NEW r, Proper(q, K), Proper(r, K),
           q.n # 0, q.kind # r.kind
    PROVE  q.n # r.n
    BY DEF Proper

LEMMA GrownExtends ==
    ASSUME NEW K, K \in Numbering(asked), asked \in Nat, NEW k \in Kinds
    PROVE  /\ Grown(K, k) \in Numbering(asked + 1)
           /\ Extends(K, Grown(K, k))
           /\ Grown(K, k)[asked + 1] = k
           /\ DOMAIN Grown(K, k) = 1 .. asked + 1
    BY DEF Numbering, Grown, Extends

-----------------------------------------------------------------------------
(* The queue.                                                               *)

LEMMA EmptyOK ==
    ASSUME NEW K, NEW C, 0 \notin C
    PROVE  QueueOK(EmptyQueue, K, C)
  <1>1. \A i \in Ids : EmptyQueue[i] = Empty
    BY DEF EmptyQueue
  <1>2. Empty \in Task
    BY BoundAssumption DEF Empty, Task, Maybe
  <1>3. EmptyQueue \in [Ids -> Task]
    BY <1>2 DEF EmptyQueue
  <1>4. Empty.q = NoQuestion /\ NoQuestion.n = 0
    BY DEF Empty, NoQuestion
  <1>5. InOrder(EmptyQueue)
    BY <1>1, <1>4 DEF InOrder, Held
  <1>6. \A i \in Ids : EmptyQueue[i].q = NoQuestion
    BY <1>1, <1>4
  <1>7. QED
    BY <1>3, <1>4, <1>5, <1>6, NoneProper, KindFacts DEF QueueOK

LEMMA WithoutOK ==
    ASSUME NEW K, NEW C, NEW Q, QueueOK(Q, K, C), NEW S
    PROVE  /\ QueueOK(Without(Q, S), K, C)
           /\ \A i \in Ids : Without(Q, S)[i].q = IF i \in S THEN NoQuestion
                                                 ELSE Q[i].q
  <1> DEFINE R == Without(Q, S)
  <1>0. /\ Q \in [Ids -> Task] /\ InOrder(Q)
    BY DEF QueueOK
  <1>1. CASE S \cap Held(Q) = {}
    <2>1. R = Q
      BY <1>1 DEF Without
    <2>2. \A i \in Ids : i \in S => Q[i].q = NoQuestion
      <3> SUFFICES ASSUME NEW i \in Ids, i \in S PROVE Q[i].q = NoQuestion
        OBVIOUS
      <3>1. Q[i].q.n = 0 /\ Q[i].q \in Maybe
        BY <1>0, <1>1 DEF Held, Task
      <3>2. QED
        BY <3>1, NumberZero
    <2>3. QED
      BY <2>1, <2>2
  <1>2. CASE S \cap Held(Q) # {}
    <2>1. R = [i \in Ids |-> IF i \in S THEN Empty
                             ELSE [Q[i] EXCEPT !.above = @ \ S]]
      BY <1>2 DEF Without
    <2>2. \A i \in Ids : i \in S => R[i] = Empty
      BY <2>1
    <2>3. \A i \in Ids : i \notin S => /\ R[i].q = Q[i].q
                                       /\ R[i].above = Q[i].above \ S
                                       /\ R[i] \in Task
      <3> SUFFICES ASSUME NEW i \in Ids, i \notin S
                   PROVE  /\ R[i].q = Q[i].q
                          /\ R[i].above = Q[i].above \ S
                          /\ R[i] \in Task
        OBVIOUS
      <3>1. Q[i] \in Task /\ R[i] = [Q[i] EXCEPT !.above = @ \ S]
        BY <1>0, <2>1
      <3> HIDE DEF R
      <3>2. QED
        BY <3>1 DEF Task
    <2>4. Empty \in Task /\ Empty.q = NoQuestion
      BY BoundAssumption DEF Empty, Task, Maybe
    <2>5. R \in [Ids -> Task]
      <3>1. \A i \in Ids : R[i] \in Task
        BY <2>2, <2>3, <2>4
      <3>2. QED
        BY <2>1, <3>1
    <2>6. \A i \in Ids : R[i].q = IF i \in S THEN NoQuestion ELSE Q[i].q
      BY <2>2, <2>3, <2>4
    <2> HIDE DEF R
    <2>7. InOrder(R)
      <3> SUFFICES ASSUME NEW i \in Held(R), NEW j \in Held(R), i # j
                   PROVE  (i \in R[j].above) # (j \in R[i].above)
        BY DEF InOrder
      <3>1. /\ i \in Ids /\ j \in Ids /\ i \notin S /\ j \notin S
            /\ i \in Held(Q) /\ j \in Held(Q)
        BY <2>6, NumberZero DEF Held
      <3>2. (i \in Q[j].above) # (j \in Q[i].above)
        BY <1>0, <3>1 DEF InOrder
      <3>3. R[i].above = Q[i].above \ S /\ R[j].above = Q[j].above \ S
        BY <2>3, <3>1
      <3>4. QED
        BY <3>1, <3>2, <3>3
    <2>8. \A i \in Ids : R[i].q = NoQuestion \/ R[i].q = Q[i].q
      BY <2>6
    <2>9. QueueOK(R, K, C)
      BY <2>5, <2>7, <2>8, NoneProper, NumberZero, KindFacts DEF QueueOK
    <2>10. QED
      BY <2>6, <2>9 DEF R
  <1>3. QED
    BY <1>1, <1>2

LEMMA WithOK ==
    ASSUME NEW K, NEW C, NEW Q, QueueOK(Q, K, C), NEW id \in Ids, NEW q,
           Proper(q, K), q.n # 0,
           id = Mirror => q.kind \in ContextKinds,
           id # Mirror => q.kind = id /\ q.n \notin C
    PROVE  /\ QueueOK(With(Q, id, q), K, C)
           /\ \A i \in Ids : With(Q, id, q)[i].q = IF i = id THEN q ELSE Q[i].q
  <1> DEFINE R == With(Q, id, q)
  <1>0. Q \in [Ids -> Task] /\ InOrder(Q)
    BY DEF QueueOK
  <1>1. R = [i \in Ids |->
                IF i = id THEN [q |-> q, age |-> 0, above |-> Held(Q) \ {id}]
                ELSE [Q[i] EXCEPT !.above = @ \ {id}]]
    BY DEF With
  <1>2. /\ R[id].q = q /\ R[id].above = Held(Q) \ {id} /\ R[id] \in Task
    BY <1>1, BoundAssumption DEF Task, Held, Proper
  <1>3. \A i \in Ids : i # id => /\ R[i].q = Q[i].q
                                 /\ R[i].above = Q[i].above \ {id}
                                 /\ R[i] \in Task
    <2> SUFFICES ASSUME NEW i \in Ids, i # id
                 PROVE  /\ R[i].q = Q[i].q
                        /\ R[i].above = Q[i].above \ {id}
                        /\ R[i] \in Task
      OBVIOUS
    <2>1. Q[i] \in Task /\ R[i] = [Q[i] EXCEPT !.above = @ \ {id}]
      BY <1>0, <1>1
    <2> HIDE DEF R
    <2>2. QED
      BY <2>1 DEF Task
  <1>4. R \in [Ids -> Task]
    <2>1. \A i \in Ids : R[i] \in Task
      BY <1>2, <1>3
    <2>2. QED
      BY <1>1, <2>1
  <1> HIDE DEF R
  <1>5. InOrder(R)
    <2> SUFFICES ASSUME NEW i \in Held(R), NEW j \in Held(R), i # j
                 PROVE  (i \in R[j].above) # (j \in R[i].above)
      BY DEF InOrder
    <2>1. i \in Ids /\ j \in Ids
      BY DEF Held
    <2>2. \A k \in Ids : k # id /\ k \in Held(R) => k \in Held(Q)
      BY <1>3 DEF Held
    <2>3. CASE i = id
      BY <1>2, <1>3, <2>1, <2>2, <2>3
    <2>4. CASE j = id
      BY <1>2, <1>3, <2>1, <2>2, <2>4
    <2>5. CASE i # id /\ j # id
      BY <1>0, <1>3, <2>1, <2>2, <2>5 DEF InOrder
    <2>6. QED
      BY <2>3, <2>4, <2>5
  <1>6. \A i \in Ids : R[i].q = IF i = id THEN q ELSE Q[i].q
    BY <1>2, <1>3
  <1>7. QueueOK(R, K, C)
    BY <1>4, <1>5, <1>6, KindFacts DEF QueueOK, Contextual
  <1>8. QED
    BY <1>6, <1>7 DEF R

LEMMA MirroredOK ==
    ASSUME NEW K, NEW C, NEW Q, QueueOK(Q, K, C), NEW q, Contextual(q, K)
    PROVE  /\ QueueOK(Mirrored(Q, q), K, C)
           /\ Mirrored(Q, q)[Mirror].q = q
           /\ \A i \in QueueKinds : Mirrored(Q, q)[i].q = Q[i].q
  <1>1. q \in Maybe /\ Mirror \in Ids
    BY KindFacts DEF Contextual, Proper
  <1>2. CASE q.n = 0
    <2>1. q = NoQuestion
      BY <1>1, <1>2, NumberZero
    <2>2. Mirrored(Q, q) = Without(Q, {Mirror})
      BY <1>2 DEF Mirrored
    <2>3. QED
      BY <2>1, <2>2, WithoutOK, KindFacts
  <1>3. CASE q.n # 0 /\ Q[Mirror].q = q
    BY <1>3 DEF Mirrored
  <1>4. CASE q.n # 0 /\ Q[Mirror].q # q
    <2> DEFINE R == Without(Q, {Mirror})
    <2>1. Mirrored(Q, q) = With(R, Mirror, q)
      BY <1>4 DEF Mirrored
    <2>2. QueueOK(R, K, C) /\ \A i \in QueueKinds : R[i].q = Q[i].q
      BY WithoutOK, KindFacts
    <2> HIDE DEF R
    <2>3. Proper(q, K) /\ q.kind \in ContextKinds
      BY <1>4 DEF Contextual
    <2>4. /\ QueueOK(With(R, Mirror, q), K, C)
          /\ \A i \in Ids : With(R, Mirror, q)[i].q = IF i = Mirror THEN q
                                                      ELSE R[i].q
      BY <1>1, <1>4, <2>2, <2>3, WithOK
    <2>5. QED
      BY <1>1, <2>1, <2>2, <2>4, KindFacts
  <1>5. QED
    BY <1>2, <1>3, <1>4

LEMMA PurgedOK ==
    ASSUME NEW K, NEW C, NEW Q, QueueOK(Q, K, C)
    PROVE  /\ QueueOK(Purged(Q), K, C)
           /\ \A i \in Ids : Purged(Q)[i].q \in {NoQuestion, Q[i].q}
    BY WithoutOK DEF Purged

LEMMA QueueGrows ==
    ASSUME NEW K, NEW K2, NEW C, NEW Q, QueueOK(Q, K, C), Extends(K, K2)
    PROVE  QueueOK(Q, K2, C)
    BY Extending DEF QueueOK

\* Numbers that no task has may be closed.
LEMMA QueueCloses ==
    ASSUME NEW K, NEW C, NEW Q, QueueOK(Q, K, C), NEW D, 0 \notin D,
           \A i \in QueueKinds : Q[i].q.n \notin D
    PROVE  QueueOK(Q, K, C \cup D)
    BY DEF QueueOK

\* Closing the question i of the queue closes the ones it sweeps.
LEMMA ClosedOK ==
    ASSUME NEW K, NEW C, NEW Q, QueueOK(Q, K, C), NEW i \in QueueKinds,
           NEW D \in SUBSET Numbers(Swept(Q, i))
    PROVE  QueueOK(Closed(Q, i), K, C \cup D)
  <1>1. 0 \notin C \cup D
    BY DEF QueueOK, Numbers
  <1>2. CASE Kind[i].sweeps
    BY <1>1, <1>2, EmptyOK DEF Closed
  <1>3. CASE ~Kind[i].sweeps
    <2> DEFINE R == Without(Q, {i})
    <2>1. Closed(Q, i) = R
      BY <1>3 DEF Closed
    <2>2. QueueOK(R, K, C) /\ \A j \in Ids : R[j].q = IF j = i THEN NoQuestion
                                                      ELSE Q[j].q
      BY WithoutOK
    <2> HIDE DEF R
    <2>3. \A j \in QueueKinds : R[j].q.n \notin D
      <3> SUFFICES ASSUME NEW j \in QueueKinds, R[j].q.n \in D PROVE FALSE
        OBVIOUS
      <3>1. R[j].q.n # 0 /\ R[j].q.n = Q[i].q.n
        BY <1>3 DEF Numbers, Swept
      <3>2. j # i /\ R[j].q = Q[j].q
        BY <2>2, <3>1, KindFacts, NumberZero
      <3>3. Q[j].q.kind = j /\ Q[i].q.kind = i /\ Proper(Q[i].q, K) /\ Proper(Q[j].q, K)
        BY <3>1, <3>2 DEF QueueOK
      <3>4. QED
        BY <3>1, <3>2, <3>3, Apart
    <2>4. QED
      BY <1>1, <2>1, <2>2, <2>3, QueueCloses
  <1>4. QED
    BY <1>2, <1>3

-----------------------------------------------------------------------------
(* The context and the turns.                                               *)

LEMMA NothingOK ==
    ASSUME NEW K, NEW C, 0 \notin C
    PROVE  ContextOK(Nothing, K, C)
    BY BoundAssumption, NoneProper, NumberZero DEF ContextOK, Nothing

LEMMA ContextCloses ==
    ASSUME NEW K, NEW C, NEW c, ContextOK(c, K, C), NEW D, c.q.n \notin D
    PROVE  ContextOK(c, K, C \cup D)
    BY DEF ContextOK

LEMMA ContextGrows ==
    ASSUME NEW K, NEW K2, NEW C, NEW c, ContextOK(c, K, C), Extends(K, K2)
    PROVE  ContextOK(c, K2, C)
    BY Extending DEF ContextOK

LEMMA TurnLater ==
    ASSUME NEW K, NEW K2, NEW C, NEW C2, NEW r,
           TurnOK(r, K, C), Extends(K, K2), C \subseteq C2
    PROVE  TurnOK(r, K2, C2)
    BY Extending DEF TurnOK

LEMMA IdleOK ==
    ASSUME NEW K, NEW C
    PROVE  TurnOK(Idle, K, C)
  <1>1. Idle \in Turn
    BY NumberZero DEF Idle, Turn, Words
  <1>2. QED
    BY <1>1, NoneProper, NumberZero DEF TurnOK, Idle

LEMMA DoneOK ==
    ASSUME turn \in [Turns -> Turn], NEW t \in Turns, Done(t), NEW K, NEW C
    PROVE  /\ TurnOK(turn'[t], K, C)
           /\ turn' = [turn EXCEPT ![t] = turn'[t]]
    BY IdleOK DEF Done

LEMMA GoOnOK ==
    ASSUME turn \in [Turns -> Turn], NEW t \in Turns, NEW K, NEW C,
           TurnOK(turn[t], K, C), 0 \notin C, NEW pc \in {"running", "acting"}, NEW o,
           GoOn(t, pc, o), Proper(o, K), o.n \notin turn[t].gone,
           o.owner \in {nobody, turn[t].who},
           pc = "running" /\ o.n # 0 => o.kind = "clarify",
           o.n # 0 /\ o.kind \in ContextKinds => o.n = turn[t].heard
    PROVE  /\ TurnOK(turn'[t], K, C)
           /\ turn' = [turn EXCEPT ![t] = turn'[t]]
  <1> DEFINE r == [turn[t] EXCEPT !.pc = pc, !.on = o, !.pending = NoQuestion,
                                  !.text = "mumble", !.stage = 0]
  <1>1. turn' = [turn EXCEPT ![t] = r]
    BY DEF GoOn
  <1>2. turn'[t] = r
    BY <1>1
  <1>3. turn[t] \in Turn /\ turn[t].gone \subseteq C
    BY DEF TurnOK
  <1>4. /\ r.pc = pc /\ r.on = o /\ r.pending = NoQuestion /\ r.stage = 0
        /\ r.gone = turn[t].gone /\ r.heard = turn[t].heard
        /\ r.who = turn[t].who
        /\ r \in Turn
    <2>1. "mumble" \in Words /\ o \in Maybe /\ NoQuestion \in Maybe /\ 0 \in 0 .. 9
      BY NumberZero DEF Words, Proper
    <2>2. QED
      BY <1>3, <2>1 DEF Turn
  <1> HIDE DEF r
  <1>5. TurnOK(r, K, C)
    BY <1>3, <1>4, NoneProper, NumberZero DEF TurnOK
  <1>6. QED
    BY <1>1, <1>2, <1>5

LEMMA LookOK ==
    ASSUME turn \in [Turns -> Turn], NEW t \in Turns, NEW K, NEW C,
           TurnOK(turn[t], K, C), 0 \notin C, NEW k \in Kinds, Look(t, k)
    PROVE  /\ TurnOK(turn'[t], K, C)
           /\ turn' = [turn EXCEPT ![t] = turn'[t]]
  <1> DEFINE r == [turn[t] EXCEPT !.pc = "asking", !.text = k,
                                  !.pending = NoQuestion, !.stage = 0]
  <1>1. turn' = [turn EXCEPT ![t] = r]
    BY DEF Look
  <1>2. turn'[t] = r
    BY <1>1
  <1>3. turn[t] \in Turn
    BY DEF TurnOK
  <1>4. /\ r.pc = "asking" /\ r.on = turn[t].on /\ r.pending = NoQuestion
        /\ r.stage = 0
        /\ r.gone = turn[t].gone /\ r.heard = turn[t].heard
        /\ r.who = turn[t].who
        /\ r \in Turn
    <2>1. k \in Words \cup Kinds /\ NoQuestion \in Maybe /\ 0 \in 0 .. 9
      BY NumberZero
    <2>2. QED
      BY <1>3, <2>1 DEF Turn
  <1> HIDE DEF r
  <1>5. TurnOK(r, K, C)
    BY <1>4, NoneProper, NumberZero DEF TurnOK
  <1>6. QED
    BY <1>1, <1>2, <1>5

LEMMA PassOnOK ==
    ASSUME turn \in [Turns -> Turn], NEW t \in Turns, NEW K, NEW C,
           TurnOK(turn[t], K, C), Free(t), NEW s \in Texts, NEW i \in QueueKinds,
           PassOn(t, s, i)
    PROVE  /\ TurnOK(turn'[t], K, C)
           /\ turn' = [turn EXCEPT ![t] = turn'[t]]
  <1> DEFINE r == [turn[t] EXCEPT !.stage = Kind[i].stage + 1, !.text = s]
  <1>1. turn' = [turn EXCEPT ![t] = r]
    BY DEF PassOn
  <1>2. turn'[t] = r
    BY <1>1
  <1>3. turn[t] \in Turn
    BY DEF TurnOK
  <1>4. /\ r.pc = turn[t].pc /\ r.on = turn[t].on /\ r.pending = turn[t].pending
        /\ r.gone = turn[t].gone /\ r.heard = turn[t].heard
        /\ r.who = turn[t].who
        /\ r \in Turn
    <2>1. s \in Words \cup Kinds /\ Kind[i].stage + 1 \in 0 .. 9
      BY KindFacts DEF Texts
    <2>2. QED
      BY <1>3, <2>1 DEF Turn
  <1> HIDE DEF r
  <1>5. TurnOK(r, K, C)
    BY <1>4 DEF TurnOK, Free
  <1>6. QED
    BY <1>1, <1>2, <1>5

-----------------------------------------------------------------------------
(* What a state with a numbering says of the turns' questions.              *)

LEMMA Given ==
    ASSUME NEW K, NEW n, K \in Numbering(n), NEW q, Proper(q, K), q.n # 0
    PROVE  q.n \in 1 .. n
    BY DEF Numbering, Proper

LEMMA FoundOK ==
    ASSUME NEW K, Holds(K), NEW t \in Turns
    PROVE  QueueOK(Found(t), K, closed)
  <1>1. QueueOK(queue, K, closed) /\ Contextual(turn[t].pending, K)
    BY DEF Holds, TurnOK
  <1>2. QueueOK(IF turn[t].stage = 0 THEN Mirrored(queue, turn[t].pending)
                ELSE queue, K, closed)
    BY <1>1, MirroredOK
  <1>3. QED
    BY <1>2, PurgedOK DEF Found

\* The mirror that is answered is the question the turn read.
LEMMA MeantIsRead ==
    ASSUME NEW K, Holds(K), NEW t \in Turns, NEW s, Answers(t, s)
    PROVE  Meant(t) = Read(t) /\ Read(t).n # 0
  <1>1. /\ QueueOK(queue, K, closed) /\ Contextual(turn[t].pending, K)
        /\ turn[t].pending.n # 0 /\ turn[t].stage = 0
    BY DEF Holds, TurnOK, Answers, Open
  <1>2. CASE Read(t).kind = "clarify"
    BY <1>1, <1>2 DEF Meant, Read
  <1>3. CASE Read(t).kind # "clarify"
    <2> DEFINE Q == Mirrored(queue, turn[t].pending)
    <2>1. QueueOK(Q, K, closed) /\ Q[Mirror].q = turn[t].pending
      BY <1>1, MirroredOK
    <2>2. Found(t) = Purged(Q)
      BY <1>1 DEF Found
    <2> HIDE DEF Q
    <2>3. Found(t)[Mirror].q \in {NoQuestion, turn[t].pending}
      <3>1. \A i \in Ids : Purged(Q)[i].q \in {NoQuestion, Q[i].q}
        BY <2>1, PurgedOK
      <3>2. Mirror \in Ids
        BY KindFacts
      <3>3. QED
        BY <2>1, <2>2, <3>1, <3>2
    <2>4. Found(t)[Mirror].q.n # 0
      BY <1>3 DEF Answers, First, Active, Held
    <2>5. QED
      BY <1>1, <1>3, <2>3, <2>4, NumberZero DEF Meant, Read
  <1>4. QED
    BY <1>2, <1>3

LEMMA TakenTask ==
    ASSUME NEW K, Holds(K), NEW t \in Turns, NEW s, NEW i \in QueueKinds,
           Taken(t, s, i)
    PROVE  LET q == Found(t)[i].q
           IN  /\ Proper(q, K) /\ q.n # 0 /\ q.kind = i /\ q.n \notin closed
  <1>1. QueueOK(Found(t), K, closed)
    BY FoundOK
  <1>2. Found(t)[i].q.n # 0
    BY DEF Taken, First, Active, Held
  <1>3. QED
    BY <1>1, <1>2 DEF QueueOK

\* No question of the queue has the number of one of the context.
LEMMA QueueApart ==
    ASSUME NEW K, NEW C, NEW Q, QueueOK(Q, K, C), NEW q, Contextual(q, K),
           q.n # 0, NEW i \in QueueKinds
    PROVE  Q[i].q.n # q.n
  <1>1. CASE Q[i].q.n = 0
    BY <1>1
  <1>2. CASE Q[i].q.n # 0
    <2>1. /\ Proper(Q[i].q, K) /\ Q[i].q.kind = i
          /\ Proper(q, K) /\ q.kind \in ContextKinds
      BY <1>2 DEF QueueOK, Contextual
    <2>2. q.kind # i
      BY <2>1, KindFacts
    <2>3. QED
      BY <1>2, <2>1, <2>2, Apart
  <1>3. QED
    BY <1>1, <1>2

(* The state after a step in which turn t moved.                            *)
LEMMA Conclude ==
    ASSUME NEW K, Holds(K), NEW t \in Turns, NEW K2, Extends(K, K2),
           asked' \in 0 .. MaxQuestions, K2 \in Numbering(asked'),
           closed \subseteq closed', closed' \subseteq 1 .. asked',
           ContextOK(context', K2, closed'), QueueOK(queue', K2, closed'),
           TurnOK(turn'[t], K2, closed'), turn' = [turn EXCEPT ![t] = turn'[t]]
    PROVE  IInv'
  <1>1. turn \in [Turns -> Turn] /\ \A u \in Turns : TurnOK(turn[u], K, closed)
    BY DEF Holds
  <1>2. turn'[t] \in Turn
    BY DEF TurnOK
  <1>3. turn' \in [Turns -> Turn]
    BY <1>1, <1>2
  <1>4. \A u \in Turns : TurnOK(turn'[u], K2, closed')
    <2> SUFFICES ASSUME NEW u \in Turns, u # t PROVE TurnOK(turn'[u], K2, closed')
      OBVIOUS
    <2>1. turn'[u] = turn[u]
      BY <1>1
    <2>2. QED
      BY <1>1, <2>1, TurnLater
  <1>5. Holds(K2)'
    BY <1>3, <1>4 DEF Holds
  <1>6. QED
    BY <1>5 DEF IInv
-----------------------------------------------------------------------------
(* Numbers that are closed, and numbers that are new.                       *)

LEMMA Now ==
    ASSUME NEW K, Holds(K), NEW t \in Turns
    PROVE  /\ asked \in 0 .. MaxQuestions /\ K \in Numbering(asked)
           /\ closed \subseteq 1 .. asked /\ 0 \notin closed
           /\ ContextOK(context, K, closed) /\ Contextual(context.q, K)
           /\ QueueOK(queue, K, closed) /\ QueueOK(Found(t), K, closed)
           /\ TurnOK(turn[t], K, closed) /\ Contextual(turn[t].pending, K)
           /\ turn \in [Turns -> Turn] /\ turn[t] \in Turn
           /\ Extends(K, K)
  <1>1. Extends(K, K)
    BY DEF Extends
  <1>2. QED
    BY <1>1, FoundOK, BoundAssumption DEF Holds, ContextOK, TurnOK

LEMMA CloseNumbers ==
    ASSUME NEW K, K \in Numbering(asked), asked \in Nat,
           closed \subseteq 1 .. asked, NEW S, \A q \in S : Proper(q, K), Close(S)
    PROVE  /\ closed' = closed \cup Numbers(S)
           /\ closed \subseteq closed' /\ closed' \subseteq 1 .. asked
           /\ 0 \notin closed'
  <1>1. closed' = closed \cup Numbers(S)
    BY DEF Close, Numbers
  <1>2. Numbers(S) \subseteq 1 .. asked
    BY Given DEF Numbers
  <1>3. 0 \notin closed'
    BY <1>1, <1>2, 0 \notin 1 .. asked
  <1>4. QED
    BY <1>1, <1>2, <1>3

\* Questions of the context are closed without touching the queue's.
LEMMA QueueStays ==
    ASSUME NEW K, NEW C, NEW Q, QueueOK(Q, K, C), NEW S,
           \A q \in S : Contextual(q, K)
    PROVE  QueueOK(Q, K, C \cup Numbers(S))
  <1>1. \A i \in QueueKinds : Q[i].q.n \notin Numbers(S)
    BY QueueApart DEF Numbers
  <1>2. 0 \notin Numbers(S)
    BY DEF Numbers
  <1>3. QED
    BY <1>1, <1>2, QueueCloses

\* Questions of the queue are closed without touching the context's.
LEMMA ContextStays ==
    ASSUME NEW K, NEW C, NEW C2, NEW Q, QueueOK(Q, K, C2), NEW c,
           ContextOK(c, K, C),
           NEW S, S \subseteq {Q[i].q : i \in QueueKinds}
    PROVE  ContextOK(c, K, C \cup Numbers(S))
  <1>1. c.q.n \notin Numbers(S)
    BY QueueApart DEF Numbers, ContextOK
  <1>2. QED
    BY <1>1, ContextCloses

LEMMA SetOK ==
    ASSUME NEW K, NEW C, NEW q, Contextual(q, K), q.n \notin C
    PROVE  ContextOK([q |-> q, age |-> 0], K, C)
    BY BoundAssumption DEF ContextOK, Contextual, Proper

LEMMA StoreOK ==
    ASSUME NEW K, NEW C, NEW Q, QueueOK(Q, K, C), NEW q, Contextual(q, K),
           q.n \notin C, Store(Q, q)
    PROVE  ContextOK(context', K, C) /\ QueueOK(queue', K, C)
    BY SetOK, MirroredOK DEF Store

LEMMA ClearOK ==
    ASSUME NEW K, NEW C, NEW Q, QueueOK(Q, K, C), Clear(Q)
    PROVE  ContextOK(context', K, C) /\ QueueOK(queue', K, C)
  <1>1. 0 \notin C
    BY DEF QueueOK
  <1>2. QED
    BY <1>1, NothingOK, NoneProper, MirroredOK DEF Clear

LEMMA SweptOK ==
    ASSUME NEW K, NEW C, NEW Q, QueueOK(Q, K, C), NEW i \in QueueKinds
    PROVE  /\ Swept(Q, i) \subseteq {Q[j].q : j \in QueueKinds}
           /\ \A q \in Swept(Q, i) : Proper(q, K)
    BY DEF Swept, QueueOK

\* The next question.
LEMMA AskedNext ==
    ASSUME NEW K, Holds(K), NEW t \in Turns, NEW k \in Kinds, MayAsk
    PROVE  /\ asked' \in 0 .. MaxQuestions /\ asked' = asked + 1
           /\ Grown(K, k) \in Numbering(asked') /\ Extends(K, Grown(K, k))
           /\ asked + 1 \in DOMAIN Grown(K, k) /\ Grown(K, k)[asked + 1] = k
           /\ asked + 1 \notin 1 .. asked /\ asked + 1 \in Nat \ {0}
           /\ 1 .. asked \subseteq 1 .. asked'
  <1>1. asked \in 0 .. MaxQuestions /\ asked \in Nat /\ K \in Numbering(asked)
    BY BoundAssumption DEF Holds
  <1>2. QED
    BY <1>1, GrownExtends, BoundAssumption DEF MayAsk

LEMMA NewOK ==
    ASSUME NEW K, Holds(K), NEW t \in Turns, NEW k \in Kinds, MayAsk
    PROVE  LET q == New(t, k)
           IN  /\ Proper(q, Grown(K, k)) /\ q.n = asked + 1 /\ q.n # 0
               /\ q.kind = k
               /\ k \in ContextKinds => Contextual(q, Grown(K, k))
  <1>1. turn[t].who \in Speakers \cup {nobody}
    BY Now DEF Turn
  <1>2. QED
    BY <1>1, AskedNext DEF New, Proper, Contextual, Maybe, Question

\* A question takes the place of the one of its kind.
LEMMA ReplacedOK ==
    ASSUME NEW K, NEW C, NEW Q, QueueOK(Q, K, C), NEW i \in QueueKinds, NEW q,
           Proper(q, K), q.n # 0, q.kind = i, q.n \notin C, q.n # Q[i].q.n
    PROVE  QueueOK(With(Q, i, q), K, C \cup Numbers({Q[i].q}))
  <1> DEFINE R == With(Q, i, q)
  <1>1. /\ QueueOK(R, K, C)
        /\ \A j \in Ids : R[j].q = IF j = i THEN q ELSE Q[j].q
    BY WithOK, KindFacts
  <1> HIDE DEF R
  <1>2. \A j \in QueueKinds : R[j].q.n \notin Numbers({Q[i].q})
    <2> SUFFICES ASSUME NEW j \in QueueKinds, R[j].q.n \in Numbers({Q[i].q})
                 PROVE  FALSE
      OBVIOUS
    <2>1. R[j].q.n = Q[i].q.n /\ Q[i].q.n # 0
      BY DEF Numbers
    <2>2. j # i /\ R[j].q = Q[j].q
      BY <1>1, <2>1, KindFacts
    <2>3. /\ Proper(Q[j].q, K) /\ Q[j].q.kind = j
          /\ Proper(Q[i].q, K) /\ Q[i].q.kind = i
      BY <2>1, <2>2 DEF QueueOK
    <2>4. QED
      BY <2>1, <2>2, <2>3, Apart
  <1>3. 0 \notin Numbers({Q[i].q})
    BY DEF Numbers
  <1>4. QED
    BY <1>1, <1>2, <1>3, QueueCloses DEF R

\* Questions that are wished for are of a kind.
LEMMA Wished ==
    ASSUME NEW s \in Texts, s \in {"alias", "permission", "mute"}
    PROVE  s \in QueueKinds
    BY NamedKinds DEF Texts, Words

-----------------------------------------------------------------------------
(* One lemma for every action.                                              *)

LEMMA SpeakInv ==
    ASSUME NEW K, Holds(K), NEW t \in Turns, NEW u \in Speakers, Speak(t, u)
    PROVE  IInv'
  <1> DEFINE seen == IF Lapsed THEN Nothing ELSE context
             r == [Idle EXCEPT !.pc = "spoken", !.who = u, !.pending = seen.q,
                               !.heard = seen.q.n, !.gone = closed]
  <1>1. ContextOK(seen, K, closed)
    BY Now, NothingOK
  <1>2. ContextOK(context', K, closed)
    BY <1>1 DEF Speak
  <1>3. QueueOK(queue', K, closed)
    BY Now, NoneProper, MirroredOK DEF Speak
  <1>4. turn' = [turn EXCEPT ![t] = r] /\ turn'[t] = r
    BY Now DEF Speak
  <1>5. TurnOK(r, K, closed)
    <2>1. /\ seen.q \in Maybe /\ seen.q.n \in Nat /\ Contextual(seen.q, K)
          /\ seen.q.n \notin closed
      BY <1>1, NumberZero DEF ContextOK, Contextual, Proper
    <2>2. closed \in SUBSET Nat
      BY Now
    <2> HIDE DEF seen
    <2>3. Idle \in Turn /\ Idle.on = NoQuestion
      BY IdleOK DEF TurnOK, Idle
    <2>4. /\ r.pc = "spoken" /\ r.who = u /\ r.pending = seen.q
          /\ r.on = Idle.on /\ r.heard = seen.q.n /\ r.gone = closed
          /\ r \in Turn
      BY <2>1, <2>2, <2>3 DEF Turn
    <2>5. r.stage = 0
      BY DEF Idle
    <2> HIDE DEF r
    <2>6. QED
      BY <2>1, <2>3, <2>4, <2>5, Now, NoneProper, NumberZero DEF TurnOK
  <1> HIDE DEF r, seen
  <1>6. QED
    BY <1>2, <1>3, <1>4, <1>5, Now, Conclude DEF Speak

\* Turns that leave only the queue as they found it.
LEMMA QueueFound ==
    ASSUME NEW K, Holds(K), NEW t \in Turns, queue' = Found(t),
           UNCHANGED <<asked, context, closed>>,
           TurnOK(turn'[t], K, closed), turn' = [turn EXCEPT ![t] = turn'[t]]
    PROVE  IInv'
    BY Now, Conclude

\* Turns that are over, having looked at the queue.
LEMMA OnlyLooked ==
    ASSUME NEW K, Holds(K), NEW t \in Turns, queue' = Found(t), Done(t),
           UNCHANGED <<asked, context, closed>>
    PROVE  IInv'
  <1>1. TurnOK(turn'[t], K, closed) /\ turn' = [turn EXCEPT ![t] = turn'[t]]
    BY Now, DoneOK
  <1>2. QED
    BY <1>1, QueueFound

LEMMA ReplaceInv ==
    ASSUME NEW K, Holds(K), NEW t \in Turns, NEW s \in Texts, Replace(t, s)
    PROVE  IInv'
  <1> DEFINE S == {queue[i].q : i \in Ids \ {Mirror}}
             T == IF Open(t) THEN {context.q} ELSE {}
  <1>1. S = {queue[i].q : i \in QueueKinds}
    BY KindFacts
  <1>2. \A q \in S \cup T : Proper(q, K)
    <2>1. \A i \in QueueKinds : Proper(queue[i].q, K)
      BY Now DEF QueueOK
    <2>2. Proper(context.q, K)
      BY Now DEF Contextual
    <2> HIDE DEF S
    <2>3. QED
      BY <1>1, <2>1, <2>2
  <1>3. Close(S \cup T) /\ asked' = asked
    BY DEF Replace
  <1>4. asked \in Nat
    BY Now
  <1> HIDE DEF S, T
  <1>5. /\ closed' = closed \cup Numbers(S \cup T)
        /\ closed \subseteq closed' /\ closed' \subseteq 1 .. asked /\ 0 \notin closed'
    BY <1>2, <1>3, <1>4, Now, CloseNumbers
  <1>6. ContextOK(context', K, closed')
    <2>1. CASE Open(t)
      BY <1>5, <2>1, NothingOK DEF Replace
    <2>2. CASE ~Open(t)
      <3>1. S \cup T = S /\ context' = context
        BY <2>2 DEF T, Replace
      <3>2. QED
        BY <1>1, <1>5, <3>1, Now, ContextStays
    <2>3. QED
      BY <2>1, <2>2
  <1>7. QueueOK(queue', K, closed')
    BY <1>5, EmptyOK DEF Replace
  <1>8. TurnOK(turn'[t], K, closed') /\ turn' = [turn EXCEPT ![t] = turn'[t]]
    <2>1. TurnOK(turn[t], K, closed')
      BY <1>5, Now, TurnLater
    <2>2. /\ NoQuestion.n \notin turn[t].gone /\ NoQuestion.n = 0
          /\ NoQuestion.owner = nobody
      BY Now, NumberZero DEF TurnOK, NoQuestion
    <2>3. GoOn(t, "running", NoQuestion)
      BY DEF Replace
    <2>4. QED
      BY <1>5, <2>1, <2>2, <2>3, Now, NoneProper, GoOnOK
  <1>9. QED
    BY <1>3, <1>5, <1>6, <1>7, <1>8, Now, Conclude

LEMMA StopInv ==
    ASSUME NEW K, Holds(K), NEW t \in Turns, NEW s \in Texts, Stop(t, s)
    PROVE  IInv'
  <1> DEFINE S == {queue[i].q : i \in Ids \ {Mirror}} \cup {context.q}
  <1>1. \A q \in S : Proper(q, K)
    BY KindFacts, Now DEF QueueOK, Contextual
  <1>2. Close(S) /\ asked' = asked /\ asked \in Nat /\ Done(t)
    BY Now DEF Stop
  <1> HIDE DEF S
  <1>3. closed \subseteq closed' /\ closed' \subseteq 1 .. asked /\ 0 \notin closed'
    BY <1>1, <1>2, Now, CloseNumbers
  <1>4. ContextOK(context', K, closed') /\ QueueOK(queue', K, closed')
    BY <1>3, NothingOK, EmptyOK DEF Stop
  <1>5. TurnOK(turn'[t], K, closed') /\ turn' = [turn EXCEPT ![t] = turn'[t]]
    BY <1>2, Now, DoneOK
  <1>6. QED
    BY <1>2, <1>3, <1>4, <1>5, Now, Conclude

\* An answer to a question of the queue, which closes S of what it sweeps.
LEMMA QueueAnswered ==
    ASSUME NEW K, Holds(K), NEW t \in Turns, NEW Q, QueueOK(Q, K, closed),
           NEW i \in QueueKinds, queue' = Closed(Q, i),
           NEW S, S \subseteq Swept(Q, i), Close(S), UNCHANGED <<asked, context>>,
           \A C : closed \subseteq C /\ 0 \notin C =>
               TurnOK(turn'[t], K, C) /\ turn' = [turn EXCEPT ![t] = turn'[t]]
    PROVE  IInv'
  <1>1. /\ S \subseteq {Q[j].q : j \in QueueKinds}
        /\ \A q \in S : Proper(q, K)
    BY SweptOK
  <1>2. asked \in Nat
    BY Now
  <1>3. /\ closed' = closed \cup Numbers(S) /\ closed \subseteq closed'
        /\ closed' \subseteq 1 .. asked /\ 0 \notin closed'
    BY <1>1, <1>2, Now, CloseNumbers
  <1>4. ContextOK(context', K, closed')
    <2>1. ContextOK(context, K, closed)
      BY Now
    <2>2. ContextOK(context, K, closed \cup Numbers(S))
      BY <1>1, <2>1, ContextStays
    <2>3. QED
      BY <1>3, <2>2
  <1>5. Numbers(S) \in SUBSET Numbers(Swept(Q, i))
    BY DEF Numbers
  <1>6. QueueOK(queue', K, closed')
    BY <1>3, <1>5, ClosedOK
  <1>7. QED
    BY <1>3, <1>4, <1>6, Now, Conclude

LEMMA AcceptInv ==
    ASSUME NEW K, Holds(K), NEW t \in Turns, NEW s \in Texts,
           NEW i \in QueueKinds, Accept(t, s, i)
    PROVE  IInv'
  <1> DEFINE q == Found(t)[i].q
  <1>1. Proper(q, K) /\ q.n # 0 /\ q.kind = i /\ q.n \notin closed
    BY TakenTask DEF Accept
  <1>2. q.n \notin turn[t].gone /\ q.owner \in {nobody, turn[t].who}
    BY <1>1, Now DEF TurnOK, Accept, MayAnswer
  <1>3. GoOn(t, "acting", q) /\ i \notin ContextKinds
    BY KindFacts DEF Accept
  <1> HIDE DEF q
  <1>4. \A C : closed \subseteq C /\ 0 \notin C =>
            TurnOK(turn'[t], K, C) /\ turn' = [turn EXCEPT ![t] = turn'[t]]
    <2> SUFFICES ASSUME NEW C, closed \subseteq C, 0 \notin C
                 PROVE  /\ TurnOK(turn'[t], K, C)
                        /\ turn' = [turn EXCEPT ![t] = turn'[t]]
      OBVIOUS
    <2>1. TurnOK(turn[t], K, C)
      BY Now, TurnLater
    <2>2. QED
      BY <1>1, <1>2, <1>3, <2>1, Now, GoOnOK
  <1>5. CASE Kind[i].early
    <2>1. queue' = Closed(Found(t), i) /\ Close({q})
      BY <1>5 DEF Accept, q
    <2>2. {q} \subseteq Swept(Found(t), i)
      BY DEF Swept, q
    <2>3. QED
      BY <1>4, <2>1, <2>2, Now, QueueAnswered DEF Accept
  <1>6. CASE ~Kind[i].early
    BY <1>4, <1>6, Now, QueueFound DEF Accept
  <1>7. QED
    BY <1>5, <1>6

LEMMA DeclineInv ==
    ASSUME NEW K, Holds(K), NEW t \in Turns, NEW s \in Texts,
           NEW i \in QueueKinds, Decline(t, s, i)
    PROVE  IInv'
  <1>1. \A C : TurnOK(turn'[t], K, C) /\ turn' = [turn EXCEPT ![t] = turn'[t]]
    BY Now, DoneOK DEF Decline
  <1>2. QED
    BY <1>1, Now, QueueAnswered DEF Decline

LEMMA GiveUpInv ==
    ASSUME NEW K, Holds(K), NEW t \in Turns, NEW s \in Texts,
           NEW i \in QueueKinds, GiveUp(t, s, i)
    PROVE  IInv'
  <1>1. \A C : closed \subseteq C /\ 0 \notin C =>
            TurnOK(turn'[t], K, C) /\ turn' = [turn EXCEPT ![t] = turn'[t]]
    <2> SUFFICES ASSUME NEW C, closed \subseteq C, 0 \notin C
                 PROVE  /\ TurnOK(turn'[t], K, C)
                        /\ turn' = [turn EXCEPT ![t] = turn'[t]]
      OBVIOUS
    <2>1. TurnOK(turn[t], K, C)
      BY Now, TurnLater
    <2>2. QED
      BY <2>1, Now, PassOnOK DEF GiveUp, Taken
  <1>2. QED
    BY <1>1, Now, QueueAnswered DEF GiveUp

\* A question of the queue is asked; D is what of the context is closed.
LEMMA QueueAsked ==
    ASSUME NEW K, Holds(K), NEW t \in Turns, NEW Q, QueueOK(Q, K, closed),
           NEW i \in QueueKinds, MayAsk, queue' = With(Q, i, New(t, i)), NEW D,
           \/ D = {} /\ context' = context
           \/ D = {context.q} /\ context' = Nothing,
           Close({Q[i].q} \cup D), Done(t)
    PROVE  IInv'
  <1> DEFINE q == New(t, i)
             K2 == Grown(K, i)
             S == {Q[i].q}
  <1>1. i \in Kinds
    BY KindFacts
  <1>2. Proper(q, K2) /\ q.n = asked + 1 /\ q.n # 0 /\ q.kind = i
    BY <1>1, NewOK
  <1>3. /\ asked' \in 0 .. MaxQuestions /\ K2 \in Numbering(asked')
        /\ Extends(K, K2) /\ asked + 1 \notin 1 .. asked
        /\ 1 .. asked \subseteq 1 .. asked'
    BY <1>1, AskedNext
  <1>4. Proper(Q[i].q, K) /\ asked \in Nat
    BY Now DEF QueueOK
  <1>5. \A d \in D : Contextual(d, K) /\ Proper(d, K)
    BY Now DEF Contextual
  <1>6. QueueOK(Q, K2, closed) /\ \A d \in D : Contextual(d, K2)
    BY <1>3, <1>5, QueueGrows, Extending
  <1> HIDE DEF q, K2
  <1>7. /\ closed' = closed \cup Numbers(S \cup D) /\ closed \subseteq closed'
        /\ closed' \subseteq 1 .. asked /\ 0 \notin closed'
    <2>1. \A d \in S \cup D : Proper(d, K)
      BY <1>4, <1>5
    <2>2. QED
      BY <1>4, <2>1, Now, CloseNumbers
  <1>8. q.n \notin closed /\ q.n # Q[i].q.n
    BY <1>2, <1>3, <1>4, Now, Given
  <1>9. QueueOK(queue', K2, closed')
    <2>1. QueueOK(queue', K2, closed \cup Numbers(S))
      BY <1>2, <1>6, <1>8, ReplacedOK DEF q
    <2> HIDE DEF S
    <2>2. QueueOK(queue', K2, closed \cup Numbers(S) \cup Numbers(D))
      BY <1>6, <2>1, QueueStays
    <2>3. Numbers(S \cup D) = Numbers(S) \cup Numbers(D)
      BY DEF Numbers
    <2>4. closed' = closed \cup Numbers(S) \cup Numbers(D)
      BY <1>7, <2>3
    <2>5. QED
      BY <2>2, <2>4
  <1>10. ContextOK(context', K2, closed')
    <2>1. CASE D = {} /\ context' = context
      <3>1. S \subseteq {Q[j].q : j \in QueueKinds} /\ closed' = closed \cup Numbers(S)
        BY <1>7, <2>1
      <3>2. ContextOK(context, K, closed)
        BY Now
      <3> HIDE DEF S
      <3>3. ContextOK(context, K, closed \cup Numbers(S))
        BY <3>1, <3>2, ContextStays
      <3>4. QED
        BY <1>3, <2>1, <3>1, <3>3, ContextGrows
    <2>2. CASE context' = Nothing
      BY <1>7, <2>2, NothingOK
    <2>3. QED
      BY <2>1, <2>2
  <1>11. TurnOK(turn'[t], K2, closed') /\ turn' = [turn EXCEPT ![t] = turn'[t]]
    BY Now, DoneOK
  <1>12. closed' \subseteq 1 .. asked'
    BY <1>3, <1>7
  <1>13. QED
    BY <1>3, <1>7, <1>9, <1>10, <1>11, <1>12, Conclude

LEMMA AmendInv ==
    ASSUME NEW K, Holds(K), NEW t \in Turns, NEW s \in Texts,
           NEW i \in QueueKinds, Amend(t, s, i)
    PROVE  IInv'
  <1>1. /\ queue' = With(Found(t), i, New(t, i)) /\ context' = context
        /\ Close({Found(t)[i].q} \cup {}) /\ Done(t) /\ MayAsk
    BY DEF Amend
  <1>2. QED
    BY <1>1, Now, QueueAsked

\* The context is cleared, and of its questions S are closed.
LEMMA ContextClosed ==
    ASSUME NEW K, Holds(K), NEW t \in Turns, NEW Q, QueueOK(Q, K, closed),
           Clear(Q), NEW S, \A q \in S : Contextual(q, K), Close(S),
           asked' = asked,
           \A C : closed \subseteq C /\ 0 \notin C =>
               TurnOK(turn'[t], K, C) /\ turn' = [turn EXCEPT ![t] = turn'[t]]
    PROVE  IInv'
  <1>1. asked \in Nat /\ \A q \in S : Proper(q, K)
    BY Now DEF Contextual
  <1>2. /\ closed' = closed \cup Numbers(S) /\ closed \subseteq closed'
        /\ closed' \subseteq 1 .. asked /\ 0 \notin closed'
    BY <1>1, Now, CloseNumbers
  <1>3. QueueOK(Q, K, closed')
    BY <1>2, QueueStays
  <1>4. ContextOK(context', K, closed') /\ QueueOK(queue', K, closed')
    BY <1>3, ClearOK
  <1>5. QED
    BY <1>2, <1>4, Now, Conclude

\* A question of the context is asked, and of those it held S are closed.
LEMMA ContextAsked ==
    ASSUME NEW K, Holds(K), NEW t \in Turns, NEW Q, QueueOK(Q, K, closed),
           NEW k \in ContextKinds, MayAsk, NEW q, Contextual(q, Grown(K, k)),
           q.n = asked + 1, Store(Q, q),
           NEW S, \A p \in S : Contextual(p, K), Close(S), Done(t)
    PROVE  IInv'
  <1> DEFINE K2 == Grown(K, k)
  <1>1. k \in Kinds
    BY KindFacts
  <1>2. /\ asked' \in 0 .. MaxQuestions /\ K2 \in Numbering(asked')
        /\ Extends(K, K2) /\ asked + 1 \notin 1 .. asked
        /\ 1 .. asked \subseteq 1 .. asked'
    BY <1>1, AskedNext
  <1> HIDE DEF K2
  <1>3. asked \in Nat /\ \A p \in S : Proper(p, K)
    BY Now DEF Contextual
  <1>4. /\ closed' = closed \cup Numbers(S) /\ closed \subseteq closed'
        /\ closed' \subseteq 1 .. asked /\ 0 \notin closed'
    BY <1>3, Now, CloseNumbers
  <1>5. QueueOK(Q, K2, closed')
    BY <1>2, <1>4, QueueStays, QueueGrows
  <1>6. q.n \notin closed' /\ Contextual(q, K2)
    BY <1>2, <1>4 DEF K2
  <1>7. ContextOK(context', K2, closed') /\ QueueOK(queue', K2, closed')
    BY <1>5, <1>6, StoreOK
  <1>8. TurnOK(turn'[t], K2, closed') /\ turn' = [turn EXCEPT ![t] = turn'[t]]
    BY Now, DoneOK
  <1>9. QED
    BY <1>2, <1>4, <1>7, <1>8, Conclude

LEMMA ConfirmInv ==
    ASSUME NEW K, Holds(K), NEW t \in Turns, NEW s \in Texts, Confirm(t, s)
    PROVE  IInv'
  <1> DEFINE q == Read(t)
             Q == Found(t)
  <1>1. Meant(t) = q /\ q.n # 0
    BY MeantIsRead DEF Confirm
  <1>2. /\ Contextual(q, K) /\ Proper(q, K) /\ q.n = turn[t].heard
        /\ q.n \notin turn[t].gone
    BY <1>1, Now DEF TurnOK, Contextual, Read
  <1>3. GoOn(t, "acting", q) /\ q.owner \in {nobody, turn[t].who}
    BY <1>1 DEF Confirm, MayAnswer
  <1> HIDE DEF q
  <1>4. \A C : closed \subseteq C /\ 0 \notin C =>
            TurnOK(turn'[t], K, C) /\ turn' = [turn EXCEPT ![t] = turn'[t]]
    <2> SUFFICES ASSUME NEW C, closed \subseteq C, 0 \notin C
                 PROVE  /\ TurnOK(turn'[t], K, C)
                        /\ turn' = [turn EXCEPT ![t] = turn'[t]]
      OBVIOUS
    <2>1. TurnOK(turn[t], K, C)
      BY Now, TurnLater
    <2>2. QED
      BY <1>2, <1>3, <2>1, Now, GoOnOK
  <1>5. CASE Kind[q.kind].early
    <2>1. Clear(Q) /\ Close({context.q, q}) /\ asked' = asked
      BY <1>5 DEF Confirm, q
    <2>2. \A p \in {context.q, q} : Contextual(p, K)
      BY <1>2, Now
    <2>3. QED
      BY <1>4, <2>1, <2>2, Now, ContextClosed
  <1>6. CASE ~Kind[q.kind].early
    BY <1>4, <1>6, Now, QueueFound DEF Confirm, q
  <1>7. QED
    BY <1>5, <1>6

LEMMA ChooseInv ==
    ASSUME NEW K, Holds(K), NEW t \in Turns, NEW s \in Texts, Choose(t, s)
    PROVE  IInv'
  <1> DEFINE q == Read(t)
  <1>1. /\ Contextual(q, K) /\ Proper(q, K) /\ q.n # 0 /\ q.n = turn[t].heard
        /\ q.n \notin turn[t].gone
    BY MeantIsRead, Now DEF TurnOK, Contextual, Read, Choose
  <1>2. GoOn(t, "running", q) /\ q.kind = "clarify" /\ q.owner = nobody
    BY <1>1, NamedKinds DEF Choose, Proper
  <1> HIDE DEF q
  <1>3. TurnOK(turn'[t], K, closed) /\ turn' = [turn EXCEPT ![t] = turn'[t]]
    BY <1>1, <1>2, Now, GoOnOK
  <1>4. QED
    BY <1>3, QueueFound DEF Choose

LEMMA RefuseInv ==
    ASSUME NEW K, Holds(K), NEW t \in Turns, NEW s \in Texts, Refuse(t, s)
    PROVE  IInv'
  <1>1. /\ Clear(Found(t)) /\ Close({context.q, Read(t)}) /\ Done(t)
        /\ asked' = asked
    BY DEF Refuse
  <1>2. \A q \in {context.q, Read(t)} : Contextual(q, K)
    BY Now DEF Read
  <1>3. \A C : TurnOK(turn'[t], K, C) /\ turn' = [turn EXCEPT ![t] = turn'[t]]
    BY <1>1, Now, DoneOK
  <1>4. QED
    BY <1>1, <1>2, <1>3, Now, ContextClosed

LEMMA AgainInv ==
    ASSUME NEW K, Holds(K), NEW t \in Turns, NEW s \in Texts, Again(t, s)
    PROVE  IInv'
  <1> DEFINE q == Read(t)
             r == [q EXCEPT !.n = asked + 1]
             k == q.kind
  <1>1. Meant(t) = q /\ q.n # 0 /\ Contextual(q, K)
    BY MeantIsRead, Now DEF Again, Read
  <1>2. k \in ContextKinds /\ k \in Kinds /\ q \in Question /\ Proper(q, K)
    BY <1>1, KindFacts DEF Contextual, Proper, Maybe, NoQuestion
  <1>3. MayAsk /\ Store(Found(t), r) /\ Close({context.q, q}) /\ Done(t)
    BY <1>1 DEF Again
  <1>4. /\ asked + 1 \in Nat \ {0} /\ asked + 1 \in DOMAIN Grown(K, k)
        /\ Grown(K, k)[asked + 1] = k
    BY <1>2, <1>3, AskedNext
  <1>5. /\ r \in Question /\ r.n = asked + 1 /\ r.kind = k /\ r.owner = q.owner
    BY <1>2, <1>4 DEF Question
  <1>6. \A p \in {context.q, q} : Contextual(p, K)
    BY <1>1, Now
  <1>7. ~Kind[k].owned => q.owner = nobody
    BY <1>1, <1>2 DEF Proper
  <1> HIDE DEF r, k
  <1>8. Contextual(r, Grown(K, k))
    BY <1>2, <1>4, <1>5, <1>7 DEF Contextual, Proper, Maybe
  <1>9. QED
    BY <1>2, <1>3, <1>5, <1>6, <1>8, Now, ContextAsked

LEMMA AskAliasInv ==
    ASSUME NEW K, Holds(K), NEW t \in Turns, NEW s \in Texts, AskAlias(t, s)
    PROVE  IInv'
  <1> DEFINE Q == Without(Found(t), {Mirror})
  <1>1. "alias" \in QueueKinds /\ "alias" # Mirror /\ "alias" \in Ids
    BY Wished, KindFacts DEF AskAlias, Mirror
  <1>2. QueueOK(Q, K, closed) /\ Q["alias"].q = Found(t)["alias"].q
    BY <1>1, Now, WithoutOK
  <1>3. /\ queue' = With(Q, "alias", New(t, "alias")) /\ context' = Nothing
        /\ Close({context.q, Found(t)["alias"].q}) /\ Done(t) /\ MayAsk
    BY DEF AskAlias
  <1> HIDE DEF Q
  <1>4. {Q["alias"].q} \cup {context.q} = {context.q, Found(t)["alias"].q}
    BY <1>2
  <1>5. Close({Q["alias"].q} \cup {context.q})
    BY <1>3, <1>4
  <1>6. QED
    BY <1>1, <1>2, <1>3, <1>5, QueueAsked

LEMMA AskProactiveInv ==
    ASSUME NEW K, Holds(K), NEW t \in Turns, NEW s \in Texts, AskProactive(t, s)
    PROVE  IInv'
  <1> DEFINE Q == Found(t)
  <1>1. s \in QueueKinds /\ s \in Ids
    BY Wished, KindFacts DEF AskProactive
  <1>2. /\ queue' = With(Q, s, New(t, s)) /\ context' = context /\ Held(Q) = {}
        /\ closed' = closed /\ Done(t) /\ MayAsk
    BY DEF AskProactive
  <1>3. Q[s].q.n = 0
    BY <1>1, <1>2 DEF Held
  <1> HIDE DEF Q
  <1>4. Close({Q[s].q} \cup {})
    BY <1>2, <1>3 DEF Close
  <1>5. QED
    BY <1>1, <1>2, <1>4, Now, QueueAsked DEF Q

LEMMA AskScenarioInv ==
    ASSUME NEW K, Holds(K), NEW t \in Turns, NEW s \in Texts, AskScenario(t, s)
    PROVE  IInv'
  <1>1. "automation" \in Kinds /\ "automation" \in ContextKinds /\ MayAsk
    BY NamedKinds DEF AskScenario
  <1>2. /\ Contextual(New(t, "automation"), Grown(K, "automation"))
        /\ New(t, "automation").n = asked + 1
    BY <1>1, NewOK
  <1>3. /\ Store(Found(t), New(t, "automation")) /\ Close({context.q}) /\ Done(t)
        /\ \A p \in {context.q} : Contextual(p, K)
    BY Now DEF AskScenario
  <1>4. QED
    BY <1>1, <1>2, <1>3, Now, ContextAsked

LEMMA WishInv ==
    ASSUME NEW K, Holds(K), NEW t \in Turns, NEW s \in Texts, NEW k \in Kinds,
           Wish(t, s, k)
    PROVE  IInv'
  <1>1. TurnOK(turn'[t], K, closed) /\ turn' = [turn EXCEPT ![t] = turn'[t]]
    BY Now, LookOK DEF Wish
  <1>2. QED
    BY <1>1, QueueFound DEF Wish

LEMMA AskInv ==
    ASSUME NEW K, Holds(K), NEW t \in Turns, NEW k \in Kinds, Ask(t, k)
    PROVE  IInv'
  <1>1. CASE k \in ContextKinds
    <2>1. Store(queue, New(t, k)) /\ Close({context.q}) /\ Done(t) /\ MayAsk
      BY <1>1, KindFacts DEF Ask
    <2>2. Contextual(New(t, k), Grown(K, k)) /\ New(t, k).n = asked + 1
      BY <1>1, <2>1, NewOK
    <2>3. \A p \in {context.q} : Contextual(p, K)
      BY Now
    <2>4. QED
      BY <1>1, <2>1, <2>2, <2>3, Now, ContextAsked
  <1>2. CASE k \notin ContextKinds
    <2>1. /\ queue' = With(queue, k, New(t, k)) /\ context' = context
          /\ Close({queue[k].q} \cup {}) /\ Done(t) /\ MayAsk
      BY <1>2, KindFacts DEF Ask
    <2>2. k \in QueueKinds
      BY <1>2, KindFacts
    <2>3. QED
      BY <2>1, <2>2, Now, QueueAsked
  <1>3. QED
    BY <1>1, <1>2

\* Turns that change nothing but themselves.
LEMMA TurnsOnly ==
    ASSUME NEW K, Holds(K), NEW t \in Turns, Done(t),
           UNCHANGED <<asked, context, queue, closed>>
    PROVE  IInv'
  <1>1. TurnOK(turn'[t], K, closed) /\ turn' = [turn EXCEPT ![t] = turn'[t]]
    BY Now, DoneOK
  <1>2. QED
    BY <1>1, Now, Conclude

LEMMA RefrainInv ==
    ASSUME NEW K, Holds(K), NEW t \in Turns, Refrain(t)
    PROVE  IInv'
  <1>1. Done(t) /\ asked' = asked
    BY DEF Refrain
  <1>2. CASE Clear(queue) /\ Close({context.q})
    <2>1. \A C : TurnOK(turn'[t], K, C) /\ turn' = [turn EXCEPT ![t] = turn'[t]]
      BY <1>1, Now, DoneOK
    <2>2. \A q \in {context.q} : Contextual(q, K)
      BY Now
    <2>3. QED
      BY <1>1, <1>2, <2>1, <2>2, Now, ContextClosed
  <1>3. CASE UNCHANGED <<context, queue, closed>>
    BY <1>1, <1>3, TurnsOnly
  <1>4. QED
    BY <1>2, <1>3 DEF Refrain

LEMMA BeginInv ==
    ASSUME NEW K, Holds(K), NEW t \in Turns, NEW s \in Texts, Begin(t, s)
    PROVE  IInv'
  <1>1. /\ GoOn(t, "running", NoQuestion) /\ NoQuestion.n = 0
        /\ NoQuestion.owner = nobody /\ NoQuestion.n \notin turn[t].gone
    BY Now DEF Begin, NoQuestion, TurnOK
  <1>2. TurnOK(turn'[t], K, closed) /\ turn' = [turn EXCEPT ![t] = turn'[t]]
    BY <1>1, Now, NoneProper, GoOnOK
  <1>3. QED
    BY <1>2, QueueFound DEF Begin

LEMMA OnFacts ==
    ASSUME NEW K, Holds(K), NEW t \in Turns, turn[t].pc = "running"
    PROVE  /\ Contextual(turn[t].on, K) /\ Proper(turn[t].on, K)
           /\ turn[t].on.n \notin turn[t].gone
           /\ turn[t].on.owner \in {nobody, turn[t].who}
           /\ turn[t].on.n # 0 /\ turn[t].on.kind \in ContextKinds =>
                  turn[t].on.n = turn[t].heard
  <1>1. TurnOK(turn[t], K, closed)
    BY Now
  <1>2. turn[t].on.n # 0 => turn[t].on.kind \in ContextKinds
    BY <1>1, NamedKinds, NumberZero DEF TurnOK, Proper
  <1>3. QED
    BY <1>1, <1>2 DEF TurnOK, Contextual

LEMMA RunInv ==
    ASSUME NEW K, Holds(K), NEW t \in Turns, Run(t)
    PROVE  IInv'
  <1> DEFINE o == turn[t].on
  <1>1. /\ Contextual(o, K) /\ Proper(o, K) /\ o.n \notin turn[t].gone
        /\ o.owner \in {nobody, turn[t].who}
        /\ o.n # 0 /\ o.kind \in ContextKinds => o.n = turn[t].heard
    BY OnFacts DEF Run
  <1>2. GoOn(t, "acting", o) \/ Done(t)
    BY DEF Run
  <1>3. Clear(queue) /\ Close({context.q, o}) /\ asked' = asked
    BY DEF Run
  <1> HIDE DEF o
  <1>4. \A C : closed \subseteq C /\ 0 \notin C =>
            TurnOK(turn'[t], K, C) /\ turn' = [turn EXCEPT ![t] = turn'[t]]
    <2> SUFFICES ASSUME NEW C, closed \subseteq C, 0 \notin C
                 PROVE  /\ TurnOK(turn'[t], K, C)
                        /\ turn' = [turn EXCEPT ![t] = turn'[t]]
      OBVIOUS
    <2>1. TurnOK(turn[t], K, C)
      BY Now, TurnLater
    <2>2. CASE GoOn(t, "acting", o)
      BY <1>1, <2>1, <2>2, Now, GoOnOK
    <2>3. CASE Done(t)
      BY <2>3, Now, DoneOK
    <2>4. QED
      BY <1>2, <2>2, <2>3
  <1>5. \A q \in {context.q, o} : Contextual(q, K)
    BY <1>1, Now
  <1>6. QED
    BY <1>3, <1>4, <1>5, Now, ContextClosed

LEMMA AskFirstInv ==
    ASSUME NEW K, Holds(K), NEW t \in Turns, AskFirst(t)
    PROVE  IInv'
  <1>1. "service" \in Kinds /\ "service" \in ContextKinds /\ MayAsk
    BY NamedKinds DEF AskFirst
  <1>2. /\ Contextual(New(t, "service"), Grown(K, "service"))
        /\ New(t, "service").n = asked + 1
    BY <1>1, NewOK
  <1>3. /\ Store(queue, New(t, "service")) /\ Close({context.q, turn[t].on})
        /\ Done(t)
    BY DEF AskFirst
  <1>4. \A p \in {context.q, turn[t].on} : Contextual(p, K)
    BY OnFacts, Now DEF AskFirst
  <1>5. QED
    BY <1>1, <1>2, <1>3, <1>4, Now, ContextAsked

LEMMA FinishInv ==
    ASSUME NEW K, Holds(K), NEW t \in Turns, Finish(t)
    PROVE  IInv'
  <1> DEFINE k == turn[t].on.kind
  <1>1. Done(t) /\ asked' = asked
    BY DEF Finish
  <1>2. \A C : TurnOK(turn'[t], K, C) /\ turn' = [turn EXCEPT ![t] = turn'[t]]
    BY <1>1, Now, DoneOK
  <1>3. CASE /\ k \in QueueKinds /\ queue' = Closed(queue, k)
             /\ Close(Swept(queue, k)) /\ context' = context
    BY <1>1, <1>2, <1>3, Now, QueueAnswered
  <1>4. CASE Clear(queue) /\ Close({context.q})
    <2>1. \A q \in {context.q} : Contextual(q, K)
      BY Now
    <2>2. QED
      BY <1>1, <1>2, <1>4, <2>1, Now, ContextClosed
  <1>5. CASE UNCHANGED <<context, queue, closed>>
    BY <1>1, <1>5, TurnsOnly
  <1>6. QED
    BY <1>3, <1>4, <1>5 DEF Finish

LEMMA TickInv ==
    ASSUME NEW K, Holds(K), Tick
    PROVE  IInv'
  <1>1. /\ ContextOK(context, K, closed) /\ QueueOK(queue, K, closed)
        /\ queue \in [Ids -> Task] /\ InOrder(queue)
    BY DEF Holds, QueueOK
  <1>2. ContextOK(context', K, closed)
    <2>1. /\ context.age \in 0 .. LongTTL + 1
          /\ context \in [q : Maybe, age : 0 .. LongTTL + 1]
      BY <1>1 DEF ContextOK
    <2>2. Older(context.age, LongTTL + 1) \in 0 .. LongTTL + 1
      BY <2>1, BoundAssumption DEF Older
    <2>3. \/ context' = context
          \/ context' = [context EXCEPT !.age = Older(@, LongTTL + 1)]
      BY DEF Tick
    <2>4. /\ context'.q = context.q
          /\ context' \in [q : Maybe, age : 0 .. LongTTL + 1]
      BY <2>1, <2>2, <2>3
    <2>5. QED
      BY <1>1, <2>4 DEF ContextOK
  <1>3. \A i \in Ids : /\ queue'[i].q = queue[i].q
                       /\ queue'[i].above = queue[i].above
                       /\ queue'[i] \in Task
    <2> SUFFICES ASSUME NEW i \in Ids
                 PROVE  /\ queue'[i].q = queue[i].q
                        /\ queue'[i].above = queue[i].above
                        /\ queue'[i] \in Task
      OBVIOUS
    <2>1. queue[i] \in Task /\ queue[i].age \in 0 .. LongTTL
      BY <1>1 DEF Task
    <2>2. Older(queue[i].age, LongTTL) \in 0 .. LongTTL
      BY <2>1, BoundAssumption DEF Older
    <2>3. \/ queue'[i] = queue[i]
          \/ queue'[i] = [queue[i] EXCEPT !.age = Older(@, LongTTL)]
      BY DEF Tick
    <2>4. QED
      BY <2>1, <2>2, <2>3 DEF Task
  <1>4. queue' \in [Ids -> Task]
    BY <1>3 DEF Tick
  <1>5. InOrder(queue')
    BY <1>1, <1>3 DEF InOrder, Held
  <1>6. QueueOK(queue', K, closed)
    BY <1>1, <1>3, <1>4, <1>5, KindFacts DEF QueueOK
  <1>7. Holds(K)'
    BY <1>2, <1>6 DEF Holds, Tick
  <1>8. QED
    BY <1>7 DEF IInv, Holds

-----------------------------------------------------------------------------
(* The theorems.                                                            *)

LEMMA InitInv == Init => IInv
  <1> SUFFICES ASSUME Init PROVE IInv
    OBVIOUS
  <1> DEFINE K == [m \in 1 .. 0 |-> "none"]
  <1>1. asked = 0 /\ closed = {} /\ K \in Numbering(asked)
    BY DEF Init, Numbering
  <1> HIDE DEF K
  <1>2. ContextOK(context, K, closed) /\ QueueOK(queue, K, closed)
    BY <1>1, NothingOK, EmptyOK DEF Init
  <1>3. turn = [t \in Turns |-> Idle] /\ TurnOK(Idle, K, closed)
    BY IdleOK DEF Init
  <1>4. turn \in [Turns -> Turn] /\ \A t \in Turns : TurnOK(turn[t], K, closed)
    BY <1>3 DEF TurnOK
  <1>5. Holds(K)
    BY <1>1, <1>2, <1>4, BoundAssumption DEF Holds
  <1>6. QED
    BY <1>1, <1>5 DEF IInv

LEMMA RouteInv ==
    ASSUME NEW K, Holds(K), NEW t \in Turns, NEW s \in Texts, Route(t, s)
    PROVE  IInv'
  <1>1. CASE Replace(t, s) \/ Stop(t, s)
    BY <1>1, ReplaceInv, StopInv
  <1>2. CASE StopRefused(t, s) \/ Unmoved(t, s) \/ NotUnderstood(t, s)
    BY <1>2, OnlyLooked DEF StopRefused, Unmoved, NotUnderstood
  <1>3. ASSUME NEW i \in QueueKinds,
               \/ Accept(t, s, i) \/ Decline(t, s, i) \/ Amend(t, s, i)
               \/ GiveUp(t, s, i) \/ Repeat(t, s, i)
        PROVE  IInv'
    <2>1. CASE Repeat(t, s, i)
      BY <2>1, OnlyLooked DEF Repeat
    <2>2. QED
      BY <1>3, <2>1, AcceptInv, DeclineInv, AmendInv, GiveUpInv
  <1>4. CASE Confirm(t, s) \/ Choose(t, s) \/ Refuse(t, s) \/ Again(t, s)
    BY <1>4, ConfirmInv, ChooseInv, RefuseInv, AgainInv
  <1>5. CASE AskAlias(t, s) \/ AskProactive(t, s) \/ AskScenario(t, s)
    BY <1>5, AskAliasInv, AskProactiveInv, AskScenarioInv
  <1>6. CASE (\E k \in Kinds : Wish(t, s, k)) \/ Begin(t, s)
    BY <1>6, WishInv, BeginInv
  <1>7. QED
    BY <1>1, <1>2, <1>3, <1>4, <1>5, <1>6 DEF Route

LEMMA NextInv == IInv /\ [Next]_vars => IInv'
  <1> SUFFICES ASSUME IInv, [Next]_vars PROVE IInv'
    OBVIOUS
  <1>1. PICK K : Holds(K)
    BY DEF IInv
  <1>2. CASE UNCHANGED vars
    <2>1. Holds(K)'
      BY <1>1, <1>2 DEF vars, Holds
    <2>2. QED
      BY <2>1 DEF IInv, Holds
  <1>3. CASE Tick
    BY <1>1, <1>3, TickInv
  <1>4. ASSUME NEW t \in Turns, Step(t) PROVE IInv'
    <2>1. CASE \E u \in Speakers : Speak(t, u)
      BY <1>1, <2>1, SpeakInv
    <2>2. CASE \E s \in Texts : Route(t, s)
      BY <1>1, <2>2, RouteInv
    <2>3. CASE (\E k \in Kinds : Ask(t, k)) \/ Refrain(t)
      BY <1>1, <2>3, AskInv, RefrainInv
    <2>4. CASE Run(t) \/ AskFirst(t) \/ Finish(t)
      BY <1>1, <2>4, RunInv, AskFirstInv, FinishInv
    <2>5. QED
      BY <1>4, <2>1, <2>2, <2>3, <2>4 DEF Step
  <1>5. QED
    BY <1>2, <1>3, <1>4 DEF Next

(* In every state there is a numbering of the questions by which those of   *)
(* the two stores and of the turns are told apart, none of the stores holds *)
(* one that is closed, and no turn one that was closed when it began.       *)
THEOREM InvariantHolds == Spec => []IInv
  <1>1. QED
    BY InitInv, NextInv, PTL DEF Spec

(* The types, and that of two tasks of the queue one was there first.       *)
THEOREM TypeCorrect == Spec => []TypeOK
  <1>1. IInv => TypeOK
    BY DEF IInv, Holds, TypeOK, ContextOK, QueueOK
  <1>2. QED
    BY <1>1, InvariantHolds, PTL

(* A yes that reaches a question of the context means the one that was open *)
(* there when the sentence began.                                           *)
THEOREM AnswersAreHeard == Spec => []AnswersWhatWasHeard
  <1>1. IInv => AnswersWhatWasHeard
    <2> SUFFICES ASSUME NEW K, Holds(K), NEW t \in Turns, Acting(t),
                        turn[t].on.kind \in ContextKinds
                 PROVE  turn[t].on.n = turn[t].heard
      BY DEF IInv, AnswersWhatWasHeard
    <2>1. TurnOK(turn[t], K, closed)
      BY Now
    <2>2. turn[t].on \in Maybe /\ turn[t].on # NoQuestion
      BY <2>1, KindFacts DEF TurnOK, Proper, NoQuestion
    <2>3. QED
      BY <2>1, <2>2, NumberZero DEF TurnOK
  <1>2. QED
    BY <1>1, InvariantHolds, PTL

(* What was answered, withdrawn or replaced before a sentence began is not  *)
(* acted upon because of it.                                                *)
THEOREM AnsweredStays == Spec => []AnsweredStaysAnswered
  <1>1. IInv => AnsweredStaysAnswered
    BY DEF IInv, Holds, TurnOK, AnsweredStaysAnswered
  <1>2. QED
    BY <1>1, InvariantHolds, PTL

(* Nobody's question is acted upon because of what somebody else said.      *)
THEOREM OnlyOwnersAnswer == Spec => []OwnersAnswer
  <1>1. IInv => OwnersAnswer
    BY DEF IInv, Holds, TurnOK, OwnersAnswer, Acting
  <1>2. QED
    BY <1>1, InvariantHolds, PTL
=============================================================================
