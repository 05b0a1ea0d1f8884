----------------------- MODULE ProactiveContextProofs -----------------------
(* Theorems about ProactiveContext, for any number of keys, tasks, questions *)
(* and restarts and any capacity: the types of its state, that snoozes keep  *)
(* their timers, that a question starts one run and a permission no more     *)
(* than its budget, that a revocation that was told stands, that the         *)
(* questions keep the promise of AnswerOnce, and that an open question is    *)
(* about what is going on.                                                   *)
EXTENDS ProactiveContext, SequenceTheorems, TLAPS

-----------------------------------------------------------------------------
(* The inductive invariant.                                                 *)

Settled == {"none", "closed"}

\* A document, or the memory, that has the proposals of S settled and no
\* permission of G.
Keeps(props, g, S, G) ==
    /\ \A p \in S : props[p] \in Settled
    /\ G \cap g = {}
DocKeeps(d, S, G) == Keeps(d.prop, d.granted, S, G)

\* What task t is going to tell when its document is written.
Outcome(t) == {job[t].prop} \ {NoProposal}

\* A document waits for its thread once, and so does its task.
Lines ==
    /\ \A i \in 1 .. Len(queue) : pc[queue[i]] = "save"
    /\ \A i, j \in 1 .. Len(queue) : queue[i] = queue[j] => i = j

\* Questions are numbered in the order they are asked.
Known ==
    /\ \A p \in Proposal :
          p > asked => /\ prop[p] = "none" /\ file.prop[p] = "none"
                       /\ started[p] = 0 /\ p \notin heard
                       /\ \A t \in Task : doc[t].prop[p] = "none"

\* What was told is true of the memory, of the file and of every document
\* that can still become the file.
Told ==
    /\ Keeps(prop, granted, heard, revoked)
    /\ DocKeeps(file, heard, revoked)
    /\ \A i \in 1 .. Len(queue) : DocKeeps(doc[queue[i]], heard, revoked)

\* What will be told is true of the memory, of the document that is being
\* written and of all newer ones; of the file too once a newer one got there.
WillTell ==
    \A t \in Task : pc[t] = "save" =>
        /\ Outcome(t) \subseteq 1 .. asked
        /\ Keeps(prop, granted, Outcome(t), job[t].revoke)
        /\ \A j \in 1 .. Len(queue) :
              (\A i \in j + 1 .. Len(queue) : queue[i] # t) =>
                  DocKeeps(doc[queue[j]], Outcome(t), job[t].revoke)
        /\ (\A i \in 1 .. Len(queue) : queue[i] # t) =>
              DocKeeps(file, Outcome(t), job[t].revoke)

\* A run was claimed by a question that is not open any more.
Claims ==
    \A t \in Task : pc[t] = "run" =>
        /\ job[t].prop \in 1 .. asked
        /\ prop[job[t].prop] # "pending"

Once ==
    \A p \in Proposal :
        /\ started[p] <= 1
        /\ prop[p] = "pending" => started[p] = 0

\* Runs under a permission: one at a time, and all but it are counted.
Automatic(k) == {t \in Task : pc[t] = "auto" /\ job[t].key = k}
Counted ==
    /\ \A k \in Key : autos[k] <= MaxAttempts
    /\ \A k \in Key : autos[k] <= attempts[k] + 1
    /\ \A k \in Key : Automatic(k) = {} => autos[k] <= attempts[k]
    /\ \A k \in Key : \A t, u \in Automatic(k) : t = u

IInv ==
    /\ TypeOK /\ Lines /\ Known /\ Told /\ WillTell /\ Claims /\ Once /\ Counted
    /\ SnoozesReturn

-----------------------------------------------------------------------------
(* Constants and sequences.                                                 *)

LEMMA Constants ==
    /\ SomeKey \in Key /\ MaxProposals \in Nat /\ MaxAttempts \in Nat
    /\ NoJob \in Job /\ Empty \in Document
    /\ NoProposal \notin Proposal /\ NoProposal = 0
    /\ Proposal \subseteq Nat
<1>1. SomeKey \in Key
  BY KeyAssumption DEF SomeKey
<1>2. MaxProposals \in Nat /\ MaxAttempts \in Nat
  BY BoundAssumption
<1>3. NoJob \in Job
  BY <1>1 DEF NoJob, JobOf, Job, NoProposal
<1>4. Empty \in Document
  BY DEF Empty, Document, NoSituation, Situation, SituationState, ProposalState
<1> QED
  BY <1>1, <1>2, <1>3, <1>4 DEF NoProposal, Proposal

LEMMA AfterElement ==
    ASSUME NEW S, NEW s \in Seq(S), NEW i \in 1 .. Len(s)
    PROVE  /\ SubSeq(s, i + 1, Len(s)) \in Seq(S)
           /\ Len(SubSeq(s, i + 1, Len(s))) = Len(s) - i
           /\ \A j \in 1 .. Len(s) - i : SubSeq(s, i + 1, Len(s))[j] = s[i + j]
OBVIOUS

LEMMA WithoutElement ==
    ASSUME NEW S, NEW s \in Seq(S), NEW i \in 1 .. Len(s)
    PROVE  /\ RemoveAt(s, i) \in Seq(S)
           /\ Len(RemoveAt(s, i)) = Len(s) - 1
           /\ \A j \in 1 .. Len(s) - 1 :
                 RemoveAt(s, i)[j] = IF j < i THEN s[j] ELSE s[j + 1]
<1> DEFINE a == SubSeq(s, 1, i - 1)
           b == SubSeq(s, i + 1, Len(s))
<1>1. a \in Seq(S) /\ Len(a) = i - 1 /\ \A j \in 1 .. i - 1 : a[j] = s[j]
  OBVIOUS
<1>2. b \in Seq(S) /\ Len(b) = Len(s) - i /\ \A j \in 1 .. Len(s) - i : b[j] = s[i + j]
  BY AfterElement
<1>3. RemoveAt(s, i) = a \o b
  BY DEF RemoveAt
<1> HIDE DEF a, b
<1>4. /\ a \o b \in Seq(S) /\ Len(a \o b) = Len(a) + Len(b)
      /\ \A k \in 1 .. Len(a) + Len(b) :
            (a \o b)[k] = IF k <= Len(a) THEN a[k] ELSE b[k - Len(a)]
  BY <1>1, <1>2, ConcatProperties, Zenon
<1>5. Len(s) \in Nat /\ Len(a) = i - 1 /\ Len(b) = Len(s) - i
  BY <1>1, <1>2
<1>6. ASSUME NEW j \in 1 .. Len(s) - 1
      PROVE  (a \o b)[j] = IF j < i THEN s[j] ELSE s[j + 1]
  <2>1. j \in 1 .. Len(a) + Len(b)
    BY <1>5
  <2>2. CASE j < i
    <3>1. j <= Len(a) /\ j \in 1 .. i - 1
      BY <1>5, <2>2
    <3> QED
      BY <1>1, <1>4, <2>1, <2>2, <3>1
  <2>3. CASE j >= i
    <3>1. /\ ~ j <= Len(a) /\ j - Len(a) \in 1 .. Len(s) - i
          /\ i + (j - Len(a)) = j + 1
      BY <1>5, <2>3
    <3>2. (a \o b)[j] = b[j - Len(a)]
      BY <1>4, <2>1, <3>1
    <3>3. b[j - Len(a)] = s[i + (j - Len(a))]
      BY <1>2, <3>1
    <3> QED
      BY <1>5, <2>3, <3>1, <3>2, <3>3
  <2> QED
    BY <1>5, <2>2, <2>3
<1>7. Len(a \o b) = Len(s) - 1
  BY <1>4, <1>5
<1> QED
  BY <1>3, <1>4, <1>6, <1>7

-----------------------------------------------------------------------------
(* What a turn of a task may do.                                            *)

\* The questions and permissions move as AnswerOnce lets them.
MemoryMoves ==
    /\ asked' \in 0 .. MaxProposals /\ asked <= asked'
    /\ prop' \in [Proposal -> ProposalState]
    /\ \A p \in Proposal : Promise!Moves(p)
    /\ \A p \in Proposal : p > asked' => prop'[p] = "none"
    /\ granted' \subseteq granted

\* Task t goes on, or goes on to write what memory is now and to tell j.
DocTurn(t) ==
    /\ pc[t] # "save"
    /\ \A u \in Task \ {t} : pc'[u] = pc[u] /\ job'[u] = job[u]
    /\ \/ pc'[t] # "save" /\ UNCHANGED <<doc, queue>>
       \/ \E j \in Job :
             /\ Save(t, j, granted')
             /\ j.prop # NoProposal => j.prop <= asked' /\ prop'[j.prop] \in Settled
             /\ j.revoke \cap granted' = {}

\* It starts a run under a permission, counts one, or neither.
CountTurn(t) ==
    \/ /\ pc[t] # "auto" /\ pc'[t] # "auto"
       /\ UNCHANGED autos
       /\ \A k \in Key : attempts'[k] >= attempts[k]
    \/ \E k \in Key :
          /\ pc[t] # "auto" /\ pc'[t] = "auto" /\ job'[t].key = k
          /\ \A u \in Task \ {t} : pc[u] = "auto" => job[u].key # k
          /\ k \in granted /\ attempts[k] < MaxAttempts
          /\ autos' = [autos EXCEPT ![k] = @ + 1] /\ UNCHANGED attempts
    \/ /\ pc[t] = "auto" /\ pc'[t] # "auto"
       /\ UNCHANGED autos
       /\ attempts' = [attempts EXCEPT ![job[t].key] = @ + 1]

\* It starts the run of a question, which it claims by that, or none.
ClaimTurn(t) ==
    \/ pc'[t] # "run" /\ UNCHANGED started
    \/ /\ job'[t].prop \in 1 .. asked
       /\ prop[job'[t].prop] = "pending" /\ prop'[job'[t].prop] = "executing"
       /\ started' = [started EXCEPT ![job'[t].prop] = @ + 1]

TurnTypes ==
    /\ situ' \in [Key -> Situation]
    /\ about' \in [Proposal -> Occurrence]
    /\ attempts' \in [Key -> Nat]
    /\ check' \in [Key -> {"off", "on", "restored"}]
    /\ pc' \in [Task -> Await]
    /\ job' \in [Task -> Job]
    /\ doc' \in [Task -> Document]
    /\ queue' \in Seq(Task)
    /\ autos' \in [Key -> Nat]

Turn(t) ==
    TurnTypes /\ MemoryMoves /\ DocTurn(t) /\ CountTurn(t) /\ ClaimTurn(t)

LEMMA SettledStays ==
    ASSUME TypeOK, MemoryMoves, NEW p \in 1 .. asked, prop[p] \in Settled
    PROVE  prop'[p] \in Settled
<1>1. p \in Proposal /\ Promise!Moves(p)
  BY Constants DEF TypeOK, MemoryMoves, Proposal
<1> QED
  BY <1>1 DEF Promise!Moves, Settled

LEMMA TurnKeepsOrder ==
    ASSUME IInv, NEW t \in Task, TurnTypes, MemoryMoves, DocTurn(t),
           UNCHANGED <<file, heard, revoked>>
    PROVE  Lines' /\ Told' /\ WillTell'
<1>1. /\ queue \in Seq(Task) /\ Len(queue) \in Nat /\ asked \in Nat
      /\ \A i \in 1 .. Len(queue) : queue[i] \in Task /\ queue[i] # t
  BY Constants DEF IInv, TypeOK, Lines, DocTurn
<1>2. heard \subseteq 1 .. asked
  BY <1>1, Constants DEF IInv, TypeOK, Known, Proposal
<1>3. Keeps(prop', granted', heard, revoked)
  <2>1. \A p \in heard : prop'[p] \in Settled
    BY <1>2, SettledStays DEF IInv, Told, Keeps
  <2> QED
    BY <2>1 DEF MemoryMoves, IInv, Told, Keeps
<1>4. ASSUME NEW u \in Task \ {t}, pc[u] = "save"
      PROVE  /\ Outcome(u)' = Outcome(u) /\ job'[u].revoke = job[u].revoke
             /\ Outcome(u) \subseteq 1 .. asked'
             /\ Keeps(prop', granted', Outcome(u), job[u].revoke)
  <2>1. Outcome(u) \subseteq 1 .. asked /\ Keeps(prop, granted, Outcome(u), job[u].revoke)
    BY <1>4 DEF IInv, WillTell
  <2>2. \A p \in Outcome(u) : prop'[p] \in Settled
    BY <2>1, SettledStays DEF IInv, Keeps
  <2>3. Outcome(u) \subseteq 1 .. asked'
    BY <1>1, <2>1 DEF MemoryMoves
  <2> QED
    BY <2>1, <2>2, <2>3 DEF MemoryMoves, DocTurn, Outcome, Keeps
<1>5. CASE pc'[t] # "save" /\ UNCHANGED <<doc, queue>>
  <2>1. Lines'
    BY <1>1, <1>5 DEF IInv, Lines, DocTurn
  <2>2. Told'
    BY <1>3, <1>5 DEF IInv, Told, DocKeeps
  <2>3. ASSUME NEW u \in Task, pc'[u] = "save"
        PROVE  /\ Outcome(u)' \subseteq 1 .. asked'
               /\ Keeps(prop', granted', Outcome(u)', job'[u].revoke)
               /\ \A j \in 1 .. Len(queue') :
                     (\A i \in j + 1 .. Len(queue') : queue'[i] # u) =>
                         DocKeeps(doc'[queue'[j]], Outcome(u)', job'[u].revoke)
               /\ (\A i \in 1 .. Len(queue') : queue'[i] # u) =>
                     DocKeeps(file', Outcome(u)', job'[u].revoke)
    <3>1. u # t /\ pc[u] = "save"
      BY <1>5, <2>3 DEF DocTurn
    <3>2. /\ Outcome(u)' = Outcome(u) /\ job'[u].revoke = job[u].revoke
          /\ Outcome(u) \subseteq 1 .. asked'
          /\ Keeps(prop', granted', Outcome(u), job[u].revoke)
      BY <1>4, <3>1
    <3>3. /\ \A j \in 1 .. Len(queue) :
                (\A i \in j + 1 .. Len(queue) : queue[i] # u) =>
                    DocKeeps(doc[queue[j]], Outcome(u), job[u].revoke)
          /\ (\A i \in 1 .. Len(queue) : queue[i] # u) =>
                DocKeeps(file, Outcome(u), job[u].revoke)
      BY <3>1 DEF IInv, WillTell
    <3> QED
      BY <1>5, <3>2, <3>3
  <2> QED
    BY <2>1, <2>2, <2>3 DEF WillTell
<1>6. ASSUME NEW j \in Job, Save(t, j, granted'),
             j.prop # NoProposal => j.prop <= asked' /\ prop'[j.prop] \in Settled,
             j.revoke \cap granted' = {}
      PROVE  Lines' /\ Told' /\ WillTell'
  <2> DEFINE n == Len(queue)
             d == [situ |-> situ', prop |-> prop', attempts |-> attempts',
                   granted |-> granted']
  <2>1. /\ queue' = Append(queue, t) /\ Len(queue') = n + 1 /\ queue'[n + 1] = t
        /\ \A i \in 1 .. n : queue'[i] = queue[i]
    BY <1>1, <1>6 DEF Save
  <2>2. /\ pc'[t] = "save" /\ job'[t] = j
        /\ doc'[t] = d /\ \A u \in Task \ {t} : doc'[u] = doc[u]
    BY <1>6 DEF Save, IInv, TypeOK
  <2>3. \A i \in 1 .. n : doc'[queue'[i]] = doc[queue[i]]
    BY <1>1, <2>1, <2>2
  <2>4. \A S, G : Keeps(prop', granted', S, G) => DocKeeps(doc'[queue'[n + 1]], S, G)
    BY <2>1, <2>2 DEF DocKeeps
  <2>5. Lines'
    <3>1. \A i \in 1 .. n + 1 : pc'[queue'[i]] = "save"
      BY <1>1, <2>1, <2>2 DEF IInv, Lines, DocTurn
    <3>2. \A a, b \in 1 .. n + 1 : queue'[a] = queue'[b] => a = b
      BY <1>1, <2>1 DEF IInv, Lines
    <3> QED
      BY <2>1, <3>1, <3>2 DEF Lines
  <2>6. Told'
    <3>1. \A i \in 1 .. n : DocKeeps(doc'[queue'[i]], heard, revoked)
      BY <2>3 DEF IInv, Told
    <3>2. DocKeeps(doc'[queue'[n + 1]], heard, revoked)
      BY <1>3, <2>4
    <3>3. \A i \in 1 .. n + 1 : DocKeeps(doc'[queue'[i]], heard, revoked)
      BY <1>1, <3>1, <3>2
    <3> QED
      BY <1>3, <2>1, <3>3 DEF IInv, Told, DocKeeps
  <2>7. ASSUME NEW u \in Task, pc'[u] = "save"
        PROVE  /\ Outcome(u)' \subseteq 1 .. asked'
               /\ Keeps(prop', granted', Outcome(u)', job'[u].revoke)
               /\ \A m \in 1 .. Len(queue') :
                     (\A i \in m + 1 .. Len(queue') : queue'[i] # u) =>
                         DocKeeps(doc'[queue'[m]], Outcome(u)', job'[u].revoke)
               /\ (\A i \in 1 .. Len(queue') : queue'[i] # u) =>
                     DocKeeps(file', Outcome(u)', job'[u].revoke)
    <3>1. CASE u = t
      <4>1. Outcome(u)' = {j.prop} \ {NoProposal} /\ job'[u].revoke = j.revoke
        BY <2>2, <3>1 DEF Outcome
      <4>2. Outcome(u)' \subseteq 1 .. asked' /\ Keeps(prop', granted', Outcome(u)', j.revoke)
        BY <1>6, <4>1, Constants DEF Job, Keeps, Proposal, NoProposal
      <4>3. \A m \in 1 .. n : ~ \A i \in m + 1 .. n + 1 : queue'[i] # u
        BY <1>1, <2>1, <3>1
      <4>4. DocKeeps(doc'[queue'[n + 1]], Outcome(u)', j.revoke)
        BY <2>4, <4>2
      <4>5. \A m \in 1 .. n + 1 : m \in 1 .. n \/ m = n + 1
        BY <1>1
      <4>6. ~ \A i \in 1 .. n + 1 : queue'[i] # u
        BY <1>1, <2>1, <3>1
      <4> HIDE DEF n
      <4> QED
        BY <2>1, <4>1, <4>2, <4>3, <4>4, <4>5, <4>6
    <3>2. CASE u # t
      <4>1. pc[u] = "save"
        BY <2>7, <3>2 DEF DocTurn
      <4>2. /\ Outcome(u)' = Outcome(u) /\ job'[u].revoke = job[u].revoke
            /\ Outcome(u) \subseteq 1 .. asked'
            /\ Keeps(prop', granted', Outcome(u), job[u].revoke)
        BY <1>4, <3>2, <4>1
      <4>3. ASSUME NEW m \in 1 .. n, \A i \in m + 1 .. n + 1 : queue'[i] # u
            PROVE  DocKeeps(doc'[queue'[m]], Outcome(u), job[u].revoke)
        <5>1. \A i \in m + 1 .. n : queue[i] # u
          BY <1>1, <2>1, <4>3
        <5> QED
          BY <2>3, <4>1, <5>1 DEF IInv, WillTell
      <4>4. DocKeeps(doc'[queue'[n + 1]], Outcome(u), job[u].revoke)
        BY <2>4, <4>2
      <4>5. (\A i \in 1 .. n + 1 : queue'[i] # u) =>
                DocKeeps(file', Outcome(u), job[u].revoke)
        <5>1. (\A i \in 1 .. n + 1 : queue'[i] # u) => \A i \in 1 .. n : queue[i] # u
          BY <1>1, <2>1
        <5> QED
          BY <4>1, <5>1 DEF IInv, WillTell
      <4>6. \A m \in 1 .. n + 1 : m \in 1 .. n \/ m = n + 1
        BY <1>1
      <4> QED
        BY <2>1, <4>2, <4>3, <4>4, <4>5, <4>6
    <3> QED
      BY <3>1, <3>2
  <2> QED
    BY <2>5, <2>6, <2>7 DEF WillTell
<1> QED
  BY <1>5, <1>6 DEF DocTurn

LEMMA TurnKeepsKnown ==
    ASSUME IInv, NEW t \in Task, TurnTypes, MemoryMoves, DocTurn(t), ClaimTurn(t),
           UNCHANGED <<file, heard, revoked>>
    PROVE  Known'
<1>1. asked \in Nat /\ asked' \in Nat /\ asked <= asked'
  BY Constants DEF IInv, TypeOK, MemoryMoves
<1> SUFFICES ASSUME NEW p \in Proposal, p > asked'
             PROVE  /\ prop'[p] = "none" /\ file'.prop[p] = "none"
                    /\ started'[p] = 0 /\ p \notin heard'
                    /\ \A u \in Task : doc'[u].prop[p] = "none"
  BY DEF Known
<1>2. p > asked
  BY <1>1, Constants
<1>3. prop'[p] = "none"
  BY DEF MemoryMoves
<1>4. file'.prop[p] = "none" /\ p \notin heard'
  BY <1>2 DEF IInv, Known
<1>5. started'[p] = 0
  <2>1. started[p] = 0 /\ p \notin 1 .. asked
    BY <1>1, <1>2 DEF IInv, Known
  <2> QED
    BY <2>1 DEF ClaimTurn, IInv, TypeOK
<1>6. ASSUME NEW u \in Task
      PROVE  doc'[u].prop[p] = "none"
  <2>1. doc[u].prop[p] = "none"
    BY <1>2 DEF IInv, Known
  <2>2. CASE UNCHANGED doc
    BY <2>1, <2>2
  <2>3. ASSUME NEW j \in Job, Save(t, j, granted')
        PROVE  doc'[u].prop[p] = "none"
    <3>1. doc' = [doc EXCEPT ![t] = [situ |-> situ', prop |-> prop',
                                     attempts |-> attempts', granted |-> granted']]
      BY <2>3 DEF Save
    <3>2. doc \in [Task -> Document]
      BY DEF IInv, TypeOK
    <3>3. doc'[u] = IF u = t THEN [situ |-> situ', prop |-> prop',
                                   attempts |-> attempts', granted |-> granted']
                    ELSE doc[u]
      BY <3>1, <3>2
    <3> QED
      BY <1>3, <2>1, <3>3
  <2> QED
    BY <2>2, <2>3 DEF DocTurn
<1> QED
  BY <1>3, <1>4, <1>5, <1>6

LEMMA TurnKeepsClaims ==
    ASSUME IInv, NEW t \in Task, TurnTypes, MemoryMoves, DocTurn(t), ClaimTurn(t)
    PROVE  Claims' /\ Once' /\ started' \in [Proposal -> Nat]
<1>1. asked \in Nat /\ asked' \in Nat /\ asked <= asked' /\ asked <= MaxProposals
  BY Constants DEF IInv, TypeOK, MemoryMoves
<1>2. ASSUME NEW p \in Proposal, prop'[p] = "pending"
      PROVE  started[p] = 0 /\ (p \in 1 .. asked => prop[p] = "pending")
  <2>1. Promise!Moves(p)
    BY DEF MemoryMoves
  <2>2. prop[p] = "pending" \/ p \notin 1 .. asked
    BY <1>2, <2>1 DEF Promise!Moves
  <2>3. p \notin 1 .. asked => p > asked
    BY <1>1, Constants DEF Proposal
  <2> QED
    BY <2>2, <2>3 DEF IInv, Once, Known
<1>3. Claims'
  <2> SUFFICES ASSUME NEW u \in Task, pc'[u] = "run"
               PROVE  job'[u].prop \in 1 .. asked' /\ prop'[job'[u].prop] # "pending"
    BY DEF Claims
  <2>1. CASE u = t
    BY <1>1, <2>1 DEF ClaimTurn
  <2>2. CASE u # t
    <3>1. job'[u] = job[u] /\ job[u].prop \in 1 .. asked /\ prop[job[u].prop] # "pending"
      BY <2>2 DEF DocTurn, IInv, Claims
    <3>2. job[u].prop \in Proposal
      BY <1>1, <3>1, Constants DEF Proposal
    <3> QED
      BY <1>1, <1>2, <3>1, <3>2
  <2> QED
    BY <2>1, <2>2
<1>4. Once' /\ started' \in [Proposal -> Nat]
  <2>1. CASE UNCHANGED started
    BY <1>2, <2>1 DEF IInv, Once, TypeOK
  <2>2. ASSUME job'[t].prop \in 1 .. asked,
               prop[job'[t].prop] = "pending", prop'[job'[t].prop] = "executing",
               started' = [started EXCEPT ![job'[t].prop] = @ + 1]
        PROVE  Once' /\ started' \in [Proposal -> Nat]
    <3> DEFINE q == job'[t].prop
    <3>1. q \in Proposal
      BY <1>1, <2>2, Constants DEF Proposal
    <3>2. started[q] = 0
      BY <2>2, <3>1 DEF IInv, Once
    <3>3. started \in [Proposal -> Nat] /\ started' = [started EXCEPT ![q] = 1]
      BY <2>2, <3>2 DEF IInv, TypeOK
    <3>4. prop'[q] = "executing"
      BY <2>2
    <3> HIDE DEF q
    <3> QED
      BY <1>2, <3>1, <3>3, <3>4 DEF IInv, Once
  <2> QED
    BY <2>1, <2>2 DEF ClaimTurn
<1> QED
  BY <1>3, <1>4

LEMMA TurnKeepsCount ==
    ASSUME IInv, NEW t \in Task, TurnTypes, DocTurn(t), CountTurn(t)
    PROVE  Counted'
<1>1. /\ autos \in [Key -> Nat] /\ attempts \in [Key -> Nat] /\ MaxAttempts \in Nat
      /\ autos' \in [Key -> Nat] /\ attempts' \in [Key -> Nat]
  BY Constants DEF IInv, TypeOK, TurnTypes
<1>2. \A u \in Task \ {t} : pc'[u] = pc[u] /\ job'[u] = job[u]
  BY DEF DocTurn
<1>3. ASSUME NEW k \in Key
      PROVE  /\ autos[k] <= MaxAttempts /\ autos[k] <= attempts[k] + 1
             /\ Automatic(k) = {} => autos[k] <= attempts[k]
             /\ \A a, b \in Automatic(k) : a = b
  BY DEF IInv, Counted
<1> SUFFICES ASSUME NEW k \in Key
             PROVE  /\ autos'[k] <= MaxAttempts /\ autos'[k] <= attempts'[k] + 1
                    /\ Automatic(k)' = {} => autos'[k] <= attempts'[k]
                    /\ \A a, b \in Automatic(k)' : a = b
  BY DEF Counted
<1>4. ASSUME pc[t] # "auto", pc'[t] # "auto", UNCHANGED autos,
             \A l \in Key : attempts'[l] >= attempts[l]
      PROVE  /\ autos'[k] <= MaxAttempts /\ autos'[k] <= attempts'[k] + 1
             /\ Automatic(k)' = {} => autos'[k] <= attempts'[k]
             /\ \A a, b \in Automatic(k)' : a = b
  <2>1. Automatic(k)' = Automatic(k)
    BY <1>2, <1>4 DEF Automatic
  <2> QED
    BY <1>1, <1>3, <1>4, <2>1
<1>5. ASSUME NEW l \in Key, pc[t] # "auto", pc'[t] = "auto", job'[t].key = l,
             \A u \in Task \ {t} : pc[u] = "auto" => job[u].key # l,
             attempts[l] < MaxAttempts,
             autos' = [autos EXCEPT ![l] = @ + 1], UNCHANGED attempts
      PROVE  /\ autos'[k] <= MaxAttempts /\ autos'[k] <= attempts'[k] + 1
             /\ Automatic(k)' = {} => autos'[k] <= attempts'[k]
             /\ \A a, b \in Automatic(k)' : a = b
  <2>1. CASE k = l
    <3>1. Automatic(l) = {} /\ Automatic(l)' \subseteq {t}
      BY <1>2, <1>5 DEF Automatic
    <3>2. autos[l] <= attempts[l] /\ autos'[l] = autos[l] + 1
      BY <1>1, <1>3, <1>5, <2>1, <3>1
    <3>3. t \in Automatic(l)'
      BY <1>5 DEF Automatic
    <3> QED
      BY <1>1, <1>5, <2>1, <3>1, <3>2, <3>3
  <2>2. CASE k # l
    <3>1. Automatic(k)' = Automatic(k) /\ autos'[k] = autos[k]
      BY <1>1, <1>2, <1>5, <2>2 DEF Automatic
    <3> QED
      BY <1>1, <1>3, <1>5, <3>1
  <2> QED
    BY <2>1, <2>2
<1>6. ASSUME pc[t] = "auto", pc'[t] # "auto", UNCHANGED autos,
             attempts' = [attempts EXCEPT ![job[t].key] = @ + 1]
      PROVE  /\ autos'[k] <= MaxAttempts /\ autos'[k] <= attempts'[k] + 1
             /\ Automatic(k)' = {} => autos'[k] <= attempts'[k]
             /\ \A a, b \in Automatic(k)' : a = b
  <2>1. Automatic(k)' = Automatic(k) \ {t}
    BY <1>2, <1>6 DEF Automatic
  <2>2. CASE job[t].key = k
    <3>1. attempts'[k] = attempts[k] + 1
      BY <1>1, <1>6, <2>2
    <3> QED
      BY <1>1, <1>3, <1>6, <2>1, <3>1
  <2>3. CASE job[t].key # k
    <3>1. attempts'[k] = attempts[k] /\ Automatic(k)' = Automatic(k)
      BY <1>1, <1>6, <2>1, <2>3 DEF Automatic
    <3> QED
      BY <1>1, <1>3, <1>6, <3>1
  <2> QED
    BY <2>2, <2>3
<1> QED
  BY <1>4, <1>5, <1>6 DEF CountTurn

\* The parts of the invariant that a turn of a task keeps.
LEMMA TurnKeeps ==
    ASSUME IInv, NEW t \in Task, Turn(t), UNCHANGED <<file, heard, revoked>>
    PROVE  /\ Lines' /\ Known' /\ Told' /\ WillTell' /\ Claims' /\ Once' /\ Counted'
           /\ started' \in [Proposal -> Nat]
BY TurnKeepsOrder, TurnKeepsKnown, TurnKeepsClaims, TurnKeepsCount DEF Turn

-----------------------------------------------------------------------------
(* What the parts of an action do.                                          *)

LEMMA StateTypes ==
    ASSUME TypeOK, NEW k \in Key,
           NEW st \in SituationState, NEW un \in {"none", "ahead", "past"},
           st = "snoozed" <=> un # "none"
    PROVE  SetState(k, st, un) \in [Key -> Situation]
<1>1. situ \in [Key -> Situation] /\ situ[k] \in Situation
  BY DEF TypeOK
<1>2. [situ[k] EXCEPT !.state = st, !.until = un] \in Situation
  BY <1>1 DEF Situation
<1> QED
  BY <1>1, <1>2 DEF SetState

LEMMA StayMoves ==
    ASSUME TypeOK, Known, UNCHANGED <<prop, asked>>, granted' \subseteq granted
    PROVE  MemoryMoves
BY Constants DEF TypeOK, Known, MemoryMoves, Promise!Moves

LEMMA CloseMoves ==
    ASSUME TypeOK, Known, NEW S, prop' = Close(prop, S), UNCHANGED <<asked, granted>>
    PROVE  MemoryMoves
<1>1. /\ prop' = [p \in Proposal |-> IF p \in S /\ prop[p] = "pending"
                                     THEN "closed" ELSE prop[p]]
      /\ prop \in [Proposal -> ProposalState] /\ asked \in 0 .. MaxProposals
      /\ \A p \in Proposal : p > asked => prop[p] = "none"
  BY DEF Close, TypeOK, Known
<1>2. prop' \in [Proposal -> ProposalState]
  BY <1>1 DEF ProposalState
<1>3. \A p \in Proposal : Promise!Moves(p)
  BY <1>1 DEF Promise!Moves
<1>4. \A p \in Proposal : p > asked' => prop'[p] = "none"
  BY <1>1
<1> QED
  BY <1>1, <1>2, <1>3, <1>4, Constants DEF MemoryMoves

LEMMA AskMoves ==
    ASSUME TypeOK, Known, NEW k \in Key, NEW o \in Nat,
           asked < MaxProposals, asked' = asked + 1, prop' = Created(k, o),
           UNCHANGED granted
    PROVE  MemoryMoves /\ asked + 1 \in Proposal
<1>1. /\ asked \in Nat /\ MaxProposals \in Nat /\ asked + 1 \in Proposal
      /\ prop \in [Proposal -> ProposalState]
  BY Constants DEF TypeOK, Proposal
<1> DEFINE closed == Close(prop, OpenAbout(k, o))
           props == [closed EXCEPT ![asked + 1] = "pending"]
           V == Victims(props)
<1>2. closed = [p \in Proposal |-> IF p \in OpenAbout(k, o) /\ prop[p] = "pending"
                                   THEN "closed" ELSE prop[p]]
  BY DEF Close
<1>3. prop' = [p \in Proposal |-> IF p \in V THEN "none" ELSE props[p]]
  BY DEF Created
<1> HIDE DEF V
<1>4. \A p \in Proposal :
         prop'[p] = IF p \in V THEN "none"
                    ELSE IF p = asked + 1 THEN "pending"
                    ELSE IF p \in OpenAbout(k, o) /\ prop[p] = "pending" THEN "closed"
                    ELSE prop[p]
  BY <1>1, <1>2, <1>3
<1>5. \A p \in Proposal : p > asked => prop[p] = "none"
  BY DEF Known
<1>6. prop' \in [Proposal -> ProposalState]
  BY <1>1, <1>3, <1>4 DEF ProposalState
<1>7. ASSUME NEW p \in Proposal
      PROVE  Promise!Moves(p)
  <2>1. CASE p = asked + 1
    <3>1. prop[p] = "none" /\ prop'[p] \in {"none", "pending"}
      BY <1>1, <1>4, <1>5, <2>1
    <3>2. p \notin 1 .. asked /\ p \in 1 .. asked'
      BY <1>1, <2>1
    <3> QED
      BY <3>1, <3>2 DEF Promise!Moves
  <2>2. CASE p # asked + 1
    BY <1>1, <1>4, <2>2 DEF Promise!Moves, ProposalState
  <2> QED
    BY <2>1, <2>2
<1>8. ASSUME NEW p \in Proposal, p > asked'
      PROVE  prop'[p] = "none"
  <2>1. p > asked /\ p # asked + 1
    BY <1>1, <1>8, Constants
  <2> QED
    BY <1>4, <1>5, <2>1
<1> QED
  BY <1>1, <1>6, <1>7, <1>8 DEF MemoryMoves

\* Going on to write.
LEMMA SaveTurns ==
    ASSUME TypeOK, NEW t \in Task, pc[t] # "save", MemoryMoves,
           situ' \in [Key -> Situation], attempts' \in [Key -> Nat],
           NEW j \in Job, Save(t, j, granted'),
           j.prop # NoProposal => j.prop <= asked' /\ prop'[j.prop] \in Settled,
           j.revoke \cap granted' = {}
    PROVE  /\ DocTurn(t) /\ pc'[t] = "save"
           /\ pc' \in [Task -> Await] /\ job' \in [Task -> Job]
           /\ doc' \in [Task -> Document] /\ queue' \in Seq(Task)
<1>1. [situ |-> situ', prop |-> prop', attempts |-> attempts', granted |-> granted']
         \in Document
  BY DEF MemoryMoves, TypeOK, Document
<1>2. /\ pc' = [pc EXCEPT ![t] = "save"] /\ job' = [job EXCEPT ![t] = j]
      /\ doc' = [doc EXCEPT ![t] = [situ |-> situ', prop |-> prop',
                                    attempts |-> attempts', granted |-> granted']]
      /\ queue' = Append(queue, t)
  BY DEF Save
<1>3. /\ pc \in [Task -> Await] /\ job \in [Task -> Job]
      /\ doc \in [Task -> Document] /\ queue \in Seq(Task)
  BY DEF TypeOK
<1>4. /\ pc' \in [Task -> Await] /\ job' \in [Task -> Job]
      /\ doc' \in [Task -> Document] /\ queue' \in Seq(Task)
  BY <1>1, <1>2, <1>3 DEF Await
<1>5. pc'[t] = "save" /\ \A u \in Task \ {t} : pc'[u] = pc[u] /\ job'[u] = job[u]
  BY <1>2, <1>3
<1> QED
  BY <1>4, <1>5 DEF DocTurn

LEMMA StoreTurns ==
    ASSUME TypeOK, NEW t \in Task, pc[t] # "save", MemoryMoves,
           situ' \in [Key -> Situation], attempts' \in [Key -> Nat],
           UNCHANGED granted, NEW p \in Proposal \cup {NoProposal}, Store(t, p),
           p # NoProposal => p <= asked' /\ prop'[p] \in Settled
    PROVE  /\ DocTurn(t) /\ pc'[t] = "save"
           /\ pc' \in [Task -> Await] /\ job' \in [Task -> Job]
           /\ doc' \in [Task -> Document] /\ queue' \in Seq(Task)
<1> DEFINE j == [NoJob EXCEPT !.prop = p]
<1>1. j \in Job /\ j.prop = p /\ j.revoke = {}
  BY Constants DEF NoJob, JobOf, Job
<1>2. Save(t, j, granted')
  BY DEF Store
<1> HIDE DEF j
<1> QED
  BY <1>1, <1>2, SaveTurns

\* What deciding about a situation does with everything but the count.
Decision(t) ==
    /\ MemoryMoves /\ DocTurn(t) /\ pc'[t] \in {"deliver", "save"}
    /\ about' \in [Proposal -> Occurrence]
    /\ pc' \in [Task -> Await] /\ job' \in [Task -> Job]
    /\ doc' \in [Task -> Document] /\ queue' \in Seq(Task)

LEMMA SilentDecides ==
    ASSUME TypeOK, Known, NEW t \in Task, pc[t] # "save",
           situ' \in [Key -> Situation], attempts' \in [Key -> Nat],
           UNCHANGED granted, Silent(t)
    PROVE  Decision(t)
<1>1. UNCHANGED <<prop, about, asked>> /\ Store(t, NoProposal)
  BY DEF Silent
<1>2. MemoryMoves
  BY <1>1, StayMoves
<1>3. about' \in [Proposal -> Occurrence]
  BY <1>1 DEF TypeOK
<1> QED
  BY <1>1, <1>2, <1>3, StoreTurns DEF Decision

LEMMA DecideDecides ==
    ASSUME TypeOK, Known, NEW t \in Task, pc[t] # "save",
           situ' \in [Key -> Situation], attempts' \in [Key -> Nat],
           UNCHANGED granted, NEW k \in Key, NEW o \in Nat, NEW quiet,
           Decide(t, k, o, quiet)
    PROVE  Decision(t)
<1>1. CASE Silent(t)
  BY <1>1, SilentDecides
<1>2. /\ pc \in [Task -> Await] /\ job \in [Task -> Job]
      /\ doc \in [Task -> Document] /\ queue \in Seq(Task)
      /\ about \in [Proposal -> Occurrence]
  BY DEF TypeOK
<1>3. CASE Ask(t, k, o)
  <2>1. /\ asked < MaxProposals /\ asked' = asked + 1 /\ prop' = Created(k, o)
        /\ about' = [about EXCEPT ![asked + 1] = [key |-> k, occ |-> o]]
        /\ job' = [job EXCEPT ![t] = JobOf(k, o, asked + 1)]
        /\ pc' = [pc EXCEPT ![t] = "deliver"] /\ UNCHANGED <<doc, queue>>
    BY <1>3 DEF Ask
  <2>2. MemoryMoves /\ asked + 1 \in Proposal
    BY <2>1, AskMoves
  <2>3. JobOf(k, o, asked + 1) \in Job /\ [key |-> k, occ |-> o] \in Occurrence
    BY <2>2 DEF JobOf, Job, Occurrence
  <2> QED
    BY <1>2, <2>1, <2>2, <2>3 DEF Decision, DocTurn, Await
<1>4. CASE Tell(t, k, o)
  <2>1. /\ job' = [job EXCEPT ![t] = JobOf(k, o, NoProposal)]
        /\ pc' = [pc EXCEPT ![t] = "deliver"]
        /\ UNCHANGED <<prop, about, asked, doc, queue>>
    BY <1>4 DEF Tell
  <2>2. MemoryMoves
    BY <2>1, StayMoves
  <2>3. JobOf(k, o, NoProposal) \in Job
    BY DEF JobOf, Job
  <2> QED
    BY <1>2, <2>1, <2>2, <2>3 DEF Decision, DocTurn, Await
<1> QED
  BY <1>1, <1>3, <1>4 DEF Decide

LEMMA EvaluateTurns ==
    ASSUME TypeOK, Known, NEW t \in Task, pc[t] = "idle", NEW k \in Key,
           NEW s \in [Key -> Situation],
           NEW c \in [Key -> {"off", "on", "restored"}], NEW ripe, NEW auto,
           Evaluate(t, k, s, c, ripe, auto), UNCHANGED <<granted, started>>
    PROVE  Turn(t) /\ situ' = s
<1>1. situ' = s /\ s[k].occ \in Nat /\ Quiet(s[k]) \in BOOLEAN
  BY DEF Evaluate, Situation, Quiet
<1>2. /\ attempts \in [Key -> Nat] /\ autos \in [Key -> Nat]
      /\ pc \in [Task -> Await] /\ job \in [Task -> Job]
      /\ doc \in [Task -> Document] /\ queue \in Seq(Task)
      /\ about \in [Proposal -> Occurrence]
  BY DEF TypeOK
<1>3. \A l \in Key : attempts[l] >= attempts[l]
  BY <1>2
<1>4. CASE /\ check' = [c EXCEPT ![k] = "on"] /\ UNCHANGED <<attempts, autos>>
           /\ Silent(t)
  <2>1. Decision(t)
    BY <1>1, <1>2, <1>4, SilentDecides
  <2>2. check' \in [Key -> {"off", "on", "restored"}]
    BY <1>4
  <2> QED
    BY <1>1, <1>2, <1>3, <1>4, <2>1, <2>2
    DEF Decision, Turn, TurnTypes, CountTurn, ClaimTurn
<1>5. CASE /\ check' = c /\ UNCHANGED <<attempts, autos>>
           /\ Decide(t, k, s[k].occ, Quiet(s[k]))
  <2>1. Decision(t)
    BY <1>1, <1>2, <1>5, DecideDecides
  <2> QED
    BY <1>1, <1>2, <1>3, <1>5, <2>1
    DEF Decision, Turn, TurnTypes, CountTurn, ClaimTurn
<1>6. CASE /\ MayRun(k) /\ ~ Busy(t, k) /\ check' = c
           /\ autos' = [autos EXCEPT ![k] = @ + 1]
           /\ pc' = [pc EXCEPT ![t] = "auto"]
           /\ job' = [job EXCEPT ![t] = [JobOf(k, s[k].occ, NoProposal)
                                         EXCEPT !.quiet = Quiet(s[k])]]
           /\ UNCHANGED <<attempts, prop, about, asked, doc, queue>>
  <2> DEFINE j == [JobOf(k, s[k].occ, NoProposal) EXCEPT !.quiet = Quiet(s[k])]
  <2>1. j \in Job /\ j.key = k
    BY <1>1 DEF JobOf, Job
  <2>2. job' = [job EXCEPT ![t] = j]
    BY <1>6
  <2> HIDE DEF j
  <2>3. MemoryMoves
    BY <1>6, StayMoves
  <2>4. /\ pc' \in [Task -> Await] /\ job' \in [Task -> Job] /\ autos' \in [Key -> Nat]
        /\ pc'[t] = "auto" /\ job'[t].key = k
        /\ \A u \in Task \ {t} : pc'[u] = pc[u] /\ job'[u] = job[u]
    <3>1. autos' \in [Key -> Nat]
      BY <1>2, <1>6
    <3>2. pc' = [pc EXCEPT ![t] = "auto"] /\ pc' \in [Task -> Await]
      BY <1>2, <1>6 DEF Await
    <3>3. job' \in [Task -> Job]
      BY <1>2, <2>1, <2>2
    <3> QED
      BY <1>2, <2>1, <2>2, <3>1, <3>2, <3>3
  <2>5. DocTurn(t)
    BY <1>6, <2>4 DEF DocTurn
  <2>6. \A u \in Task \ {t} : pc[u] = "auto" => job[u].key # k
    BY <1>6 DEF Busy
  <2>7. k \in granted /\ attempts[k] < MaxAttempts
    BY <1>6 DEF MayRun
  <2>8. CountTurn(t)
    BY <1>6, <2>4, <2>6, <2>7 DEF CountTurn
  <2>9. TurnTypes
    BY <1>1, <1>2, <1>6, <2>4 DEF TurnTypes
  <2> QED
    BY <1>1, <2>3, <2>4, <2>5, <2>8, <2>9 DEF Turn, ClaimTurn
<1>7. CASE /\ check' = c /\ attempts' = [attempts EXCEPT ![k] = @ + 1]
           /\ UNCHANGED autos /\ Decide(t, k, s[k].occ, Quiet(s[k]))
  <2>1. attempts' \in [Key -> Nat] /\ \A l \in Key : attempts'[l] >= attempts[l]
    BY <1>2, <1>7
  <2>2. Decision(t)
    BY <1>1, <1>2, <1>7, <2>1, DecideDecides
  <2> QED
    BY <1>1, <1>2, <1>7, <2>1, <2>2
    DEF Decision, Turn, TurnTypes, CountTurn, ClaimTurn
<1> QED
  BY <1>4, <1>5, <1>6, <1>7 DEF Evaluate

LEMMA ResolveTurns ==
    ASSUME TypeOK, Known, NEW t \in Task, pc[t] = "idle", NEW k \in Key,
           Resolve(t, k), UNCHANGED <<granted, started>>
    PROVE  /\ Turn(t) /\ wake' = [wake EXCEPT ![k] = FALSE]
           /\ situ' = SetState(k, "over", "none")
<1>1. /\ situ' = SetState(k, "over", "none")
      /\ prop' = Close(prop, OpenAbout(k, situ[k].occ))
      /\ check' = [check EXCEPT ![k] = "off"] /\ wake' = [wake EXCEPT ![k] = FALSE]
      /\ UNCHANGED <<about, asked, attempts, autos>> /\ Store(t, NoProposal)
  BY DEF Resolve
<1>2. situ' \in [Key -> Situation]
  BY <1>1, StateTypes DEF SituationState
<1>3. MemoryMoves
  BY <1>1, CloseMoves
<1>4. /\ attempts' \in [Key -> Nat] /\ autos' \in [Key -> Nat]
      /\ about' \in [Proposal -> Occurrence]
      /\ check' \in [Key -> {"off", "on", "restored"}]
      /\ \A l \in Key : attempts'[l] >= attempts[l]
  BY <1>1 DEF TypeOK
<1>5. /\ DocTurn(t) /\ pc'[t] = "save"
      /\ pc' \in [Task -> Await] /\ job' \in [Task -> Job]
      /\ doc' \in [Task -> Document] /\ queue' \in Seq(Task)
  BY <1>1, <1>2, <1>3, <1>4, StoreTurns
<1> QED
  BY <1>1, <1>2, <1>3, <1>4, <1>5 DEF Turn, TurnTypes, CountTurn, ClaimTurn

\* Nothing comes of it.
LEMMA IdleTurns ==
    ASSUME TypeOK, Known, NEW t \in Task, pc[t] = "idle",
           situ' \in [Key -> Situation], check' \in [Key -> {"off", "on", "restored"}],
           UNCHANGED <<prop, about, asked, attempts, granted, pc, job, doc, queue, autos,
                       started>>
    PROVE  Turn(t)
<1>1. MemoryMoves
  BY StayMoves
<1>2. \A l \in Key : attempts'[l] >= attempts[l]
  BY DEF TypeOK
<1> QED
  BY <1>1, <1>2 DEF TypeOK, Turn, TurnTypes, DocTurn, CountTurn, ClaimTurn

-----------------------------------------------------------------------------
(* The actions.                                                             *)

\* What a turn leaves alone or changes in its own way.
Around ==
    /\ UNCHANGED <<file, heard, revoked, lights>>
    /\ live' \in [Key -> Live] /\ news' \in [Key -> {"on", "off", "seen"}]
    /\ born' \in [Key -> Nat] /\ lapsed' \subseteq Proposal
    /\ changes' \in Nat /\ restarts' \in Nat
    /\ wake' \in [Key -> BOOLEAN]
    /\ \A k \in Key : situ'[k].until = "ahead" => wake'[k]

\* What every action owes: the invariant, the promise of AnswerOnce, and no
\* run under a permission whose revocation was told.
Kept ==
    /\ IInv'
    /\ Promise!Step \/ Promise!Restart \/ UNCHANGED <<asked, prop, heard>>
    /\ \A k \in Key : autos'[k] > autos[k] => k \notin revoked

LEMMA TurnKept ==
    ASSUME IInv, NEW t \in Task, Turn(t), Around
    PROVE  Kept
<1>1. /\ Lines' /\ Known' /\ Told' /\ WillTell' /\ Claims' /\ Once' /\ Counted'
      /\ started' \in [Proposal -> Nat]
  BY TurnKeeps DEF Around
<1>2. TypeOK'
  BY <1>1 DEF Turn, TurnTypes, MemoryMoves, Around, IInv, TypeOK
<1>3. SnoozesReturn'
  BY DEF Around, SnoozesReturn
<1>4. Promise!Step
  <2>1. heard' = heard /\ heard \subseteq Proposal /\ \A p \in Proposal : Promise!Moves(p)
    BY DEF Around, Turn, MemoryMoves, IInv, TypeOK
  <2>2. 1 .. asked \subseteq 1 .. asked' /\ 1 .. asked' \subseteq Proposal
    BY Constants DEF Turn, MemoryMoves, IInv, TypeOK, Proposal
  <2> QED
    BY <2>1, <2>2 DEF Promise!Step
<1>5. ASSUME NEW k \in Key, autos'[k] > autos[k]
      PROVE  k \notin revoked
  <2>1. autos \in [Key -> Nat] /\ Turn(t)
    BY DEF IInv, TypeOK
  <2>2. k \in granted
    BY <1>5, <2>1 DEF Turn, CountTurn
  <2> QED
    BY <2>2 DEF IInv, Told, Keeps
<1> QED
  BY <1>1, <1>2, <1>3, <1>4, <1>5 DEF IInv, Kept

LEMMA ObserveKeeps ==
    ASSUME IInv, NEW t \in Task, NEW k \in Key, Observe(t, k)
    PROVE  Kept
<1>1. /\ pc[t] = "idle" /\ TypeOK /\ Known /\ SnoozesReturn
      /\ news' = [news EXCEPT ![k] = "seen"]
      /\ UNCHANGED <<lights, live, changes, granted, lapsed, file, heard, revoked,
                     started, restarts>>
      /\ situ \in [Key -> Situation] /\ wake \in [Key -> BOOLEAN]
      /\ check \in [Key -> {"off", "on", "restored"}]
  BY DEF Observe, IInv, TypeOK
<1>2. news' \in [Key -> {"on", "off", "seen"}]
  BY <1>1 DEF TypeOK
<1>3. ASSUME born' \in [Key -> Nat], wake' \in [Key -> BOOLEAN],
             \A l \in Key : situ'[l].until = "ahead" => wake'[l], Turn(t)
      PROVE  Kept
  BY <1>1, <1>2, <1>3, TurnKept DEF Around, TypeOK
<1>4. CASE Resolve(t, k) /\ UNCHANGED born
  <2>1. /\ Turn(t) /\ wake' = [wake EXCEPT ![k] = FALSE]
        /\ situ' = SetState(k, "over", "none")
    BY <1>1, <1>4, ResolveTurns
  <2>2. \A l \in Key : situ'[l].until = "ahead" => wake'[l]
    BY <1>1, <2>1 DEF SetState, SnoozesReturn, Ended, Situation
  <2> QED
    BY <1>1, <1>3, <1>4, <2>1, <2>2 DEF TypeOK
<1>5. CASE UNCHANGED <<memory, timers, tasks, doc, queue, autos>>
  <2>1. Turn(t)
    BY <1>1, <1>5, IdleTurns DEF memory, timers, tasks
  <2> QED
    BY <1>1, <1>3, <1>5, <2>1 DEF TypeOK, memory, timers, SnoozesReturn
<1>6. CASE /\ Evaluate(t, k, situ, check, situ[k].state # "active", TRUE)
           /\ UNCHANGED <<born, wake>>
  <2>1. Turn(t) /\ situ' = situ
    BY <1>1, <1>6, EvaluateTurns
  <2> QED
    BY <1>1, <1>3, <1>6, <2>1 DEF TypeOK, SnoozesReturn
<1>7. CASE /\ born' = [born EXCEPT ![k] = @ + 1]
           /\ Evaluate(t, k, [situ EXCEPT ![k] = [occ |-> born[k] + 1,
                                                  state |-> "active", until |-> "none"]],
                       check, FALSE, TRUE)
           /\ UNCHANGED wake
  <2> DEFINE s == [situ EXCEPT ![k] = [occ |-> born[k] + 1,
                                       state |-> "active", until |-> "none"]]
  <2>1. s \in [Key -> Situation]
    BY <1>1 DEF TypeOK, Situation, SituationState
  <2>2. born' \in [Key -> Nat]
    BY <1>1, <1>7 DEF TypeOK
  <2>3. \A l \in Key : s[l].until = "ahead" => wake[l]
    BY <1>1 DEF SnoozesReturn
  <2>4. Evaluate(t, k, s, check, FALSE, TRUE)
    BY <1>7
  <2> HIDE DEF s
  <2>5. Turn(t) /\ situ' = s
    BY <1>1, <2>1, <2>4, EvaluateTurns
  <2> QED
    BY <1>1, <1>3, <1>7, <2>2, <2>3, <2>5
<1> QED
  BY <1>4, <1>5, <1>6, <1>7 DEF Observe

LEMMA RecheckTurns ==
    ASSUME TypeOK, Known, SnoozesReturn, NEW t \in Task, pc[t] = "idle", NEW k \in Key,
           NEW s \in [Key -> Situation], NEW w \in [Key -> BOOLEAN],
           NEW c \in [Key -> {"off", "on", "restored"}], NEW ripe, NEW auto,
           \A l \in Key : s[l].until = "ahead" => w[l],
           \A l \in Key \ {k} : w[l] = wake[l],
           Recheck(t, k, s, c, w, ripe, auto), UNCHANGED <<granted, started>>
    PROVE  /\ Turn(t) /\ wake' \in [Key -> BOOLEAN]
           /\ \A l \in Key : situ'[l].until = "ahead" => wake'[l]
<1>1. situ \in [Key -> Situation] /\ wake \in [Key -> BOOLEAN]
  BY DEF TypeOK
<1>2. CASE /\ situ' = s /\ check' = c /\ wake' = w
           /\ UNCHANGED <<prop, about, asked, attempts, tasks, doc, queue, autos>>
  BY <1>2, IdleTurns DEF tasks
<1>3. CASE Resolve(t, k)
  <2>1. /\ Turn(t) /\ wake' = [wake EXCEPT ![k] = FALSE]
        /\ situ' = SetState(k, "over", "none")
    BY <1>3, ResolveTurns
  <2> QED
    BY <1>1, <2>1 DEF SetState, SnoozesReturn, Ended, Situation
<1>4. CASE /\ wake' = w
           /\ Evaluate(t, k, IF s[k].state = "snoozed" /\ s[k].until # "ahead"
                             THEN SetState(k, "active", "none") ELSE s, c, ripe, auto)
           /\ UNCHANGED <<granted, started>>
  <2> DEFINE z == IF s[k].state = "snoozed" /\ s[k].until # "ahead"
                  THEN SetState(k, "active", "none") ELSE s
  <2>1. z \in [Key -> Situation]
    BY StateTypes DEF SituationState
  <2>2. Evaluate(t, k, z, c, ripe, auto)
    BY <1>4
  <2> HIDE DEF z
  <2>3. Turn(t) /\ situ' = z
    BY <1>4, <2>1, <2>2, EvaluateTurns
  <2>4. \A l \in Key : z[l].until = "ahead" => w[l]
    <3>1. CASE z = s
      BY <3>1
    <3>2. CASE z = SetState(k, "active", "none")
      <4>1. z[k].until = "none"
        BY <1>1, <3>2 DEF SetState, Situation, Ended
      <4>2. \A l \in Key \ {k} : z[l] = situ[l]
        BY <1>1, <3>2 DEF SetState
      <4> QED
        BY <4>1, <4>2 DEF SnoozesReturn
    <3> QED
      BY <3>1, <3>2 DEF z
  <2> QED
    BY <1>4, <2>3, <2>4
<1> QED
  BY <1>2, <1>3, <1>4 DEF Recheck

LEMMA CheckFiresKeeps ==
    ASSUME IInv, NEW t \in Task, NEW k \in Key, CheckFires(t, k)
    PROVE  Kept
<1>1. /\ pc[t] = "idle" /\ TypeOK /\ Known /\ SnoozesReturn
      /\ UNCHANGED <<world, born, granted, lapsed, file, heard, revoked, started, restarts>>
      /\ situ \in [Key -> Situation] /\ wake \in [Key -> BOOLEAN]
      /\ [check EXCEPT ![k] = "off"] \in [Key -> {"off", "on", "restored"}]
  BY DEF CheckFires, IInv, TypeOK
<1>2. Recheck(t, k, situ, [check EXCEPT ![k] = "off"], wake,
              check[k] = "on", check[k] = "on")
  BY DEF CheckFires
<1>3. \A l \in Key : situ[l].until = "ahead" => wake[l]
  BY <1>1 DEF SnoozesReturn
<1>4. /\ Turn(t) /\ wake' \in [Key -> BOOLEAN]
      /\ \A l \in Key : situ'[l].until = "ahead" => wake'[l]
  <2> DEFINE c == [check EXCEPT ![k] = "off"]
             on == check[k] = "on"
             w == wake
  <2>1. /\ c \in [Key -> {"off", "on", "restored"}] /\ w \in [Key -> BOOLEAN]
        /\ Recheck(t, k, situ, c, w, on, on)
    BY <1>1, <1>2
  <2>2. /\ UNCHANGED <<granted, started>> /\ \A l \in Key \ {k} : w[l] = wake[l]
        /\ \A l \in Key : situ[l].until = "ahead" => w[l]
    BY <1>1, <1>3
  <2> HIDE DEF c, on, w
  <2> QED
    BY <1>1, <2>1, <2>2, RecheckTurns
<1> QED
  BY <1>1, <1>4, TurnKept DEF Around, TypeOK, world

LEMMA WakeFiresKeeps ==
    ASSUME IInv, NEW t \in Task, NEW k \in Key, WakeFires(t, k)
    PROVE  Kept
<1> DEFINE s == IF situ[k].state = "snoozed" THEN SetState(k, "snoozed", "past") ELSE situ
           w == [wake EXCEPT ![k] = FALSE]
<1>1. /\ pc[t] = "idle" /\ TypeOK /\ Known /\ SnoozesReturn
      /\ UNCHANGED <<world, born, granted, lapsed, file, heard, revoked, started, restarts>>
      /\ situ \in [Key -> Situation] /\ wake \in [Key -> BOOLEAN]
      /\ check \in [Key -> {"off", "on", "restored"}]
  BY DEF WakeFires, IInv, TypeOK
<1>2. Recheck(t, k, s, check, w, TRUE, FALSE)
  BY DEF WakeFires
<1>3. s \in [Key -> Situation] /\ w \in [Key -> BOOLEAN]
  BY <1>1, StateTypes DEF SituationState
<1>4. \A l \in Key \ {k} : w[l] = wake[l] /\ s[l] = situ[l]
  BY <1>1 DEF SetState
<1>5. s[k].until # "ahead"
  BY <1>1 DEF SetState, Situation, Ended
<1>6. \A l \in Key : s[l].until = "ahead" => w[l]
  BY <1>1, <1>4, <1>5 DEF SnoozesReturn
<1> HIDE DEF s, w
<1>7. /\ Turn(t) /\ wake' \in [Key -> BOOLEAN]
      /\ \A l \in Key : situ'[l].until = "ahead" => wake'[l]
  <2> DEFINE ripe == TRUE
             auto == FALSE
  <2>1. UNCHANGED <<granted, started>> /\ \A l \in Key \ {k} : w[l] = wake[l]
    BY <1>1, <1>4
  <2>2. Recheck(t, k, s, check, w, ripe, auto)
    BY <1>2
  <2> HIDE DEF ripe, auto
  <2> QED
    BY <1>1, <1>3, <1>6, <2>1, <2>2, RecheckTurns
<1> QED
  BY <1>1, <1>7, TurnKept DEF Around, TypeOK, world

\* An answer that closes its question.
LEMMA ClosedMoves ==
    ASSUME TypeOK, Known, NEW p \in Proposal, Open(p),
           prop' = [prop EXCEPT ![p] = "closed"], UNCHANGED <<asked, granted>>
    PROVE  MemoryMoves /\ p <= asked' /\ prop'[p] \in Settled
<1>1. prop \in [Proposal -> ProposalState] /\ prop[p] = "pending"
  BY DEF TypeOK, Open
<1>2. prop' = Close(prop, {p})
  BY <1>1 DEF Close
<1>3. p <= asked'
  <2>1. ~ p > asked
    BY <1>1 DEF Known
  <2>2. asked' \in Nat /\ asked' = asked /\ p \in Nat
    BY Constants DEF TypeOK
  <2> QED
    BY <2>1, <2>2
<1>4. prop'[p] = "closed"
  BY <1>1
<1> QED
  BY <1>2, <1>3, <1>4, CloseMoves DEF Settled

LEMMA AnswerTurns ==
    ASSUME TypeOK, Known, NEW t \in Task, pc[t] = "idle", NEW p \in Proposal, Open(p),
           prop' = [prop EXCEPT ![p] = "closed"],
           situ' \in [Key -> Situation], check' \in [Key -> {"off", "on", "restored"}],
           UNCHANGED <<about, asked, granted, attempts, autos, started>>, Store(t, p)
    PROVE  Turn(t)
<1>1. MemoryMoves /\ p <= asked' /\ prop'[p] \in Settled
  BY ClosedMoves
<1>2. /\ attempts' \in [Key -> Nat] /\ autos' \in [Key -> Nat]
      /\ about' \in [Proposal -> Occurrence]
      /\ \A l \in Key : attempts'[l] >= attempts[l]
  BY DEF TypeOK
<1>3. /\ DocTurn(t) /\ pc'[t] = "save"
      /\ pc' \in [Task -> Await] /\ job' \in [Task -> Job]
      /\ doc' \in [Task -> Document] /\ queue' \in Seq(Task)
  BY <1>1, <1>2, StoreTurns
<1> QED
  BY <1>1, <1>2, <1>3 DEF Turn, TurnTypes, CountTurn, ClaimTurn

LEMMA SubjectType ==
    ASSUME TypeOK, NEW p \in Proposal
    PROVE  about[p].key \in Key /\ about[p].occ \in Nat
BY DEF TypeOK, Occurrence

LEMMA LaterKeeps ==
    ASSUME IInv, NEW t \in Task, NEW p \in Proposal, Later(t, p)
    PROVE  Kept
<1> DEFINE k == about[p].key
<1>1. /\ pc[t] = "idle" /\ TypeOK /\ Known /\ SnoozesReturn /\ Open(p) /\ k \in Key
      /\ prop' = [prop EXCEPT ![p] = "closed"] /\ UNCHANGED attempts /\ Store(t, p)
      /\ UNCHANGED <<world, born, about, asked, granted, lapsed, file, counts, restarts>>
      /\ situ \in [Key -> Situation] /\ wake \in [Key -> BOOLEAN]
      /\ check \in [Key -> {"off", "on", "restored"}]
  BY SubjectType DEF Later, IInv, TypeOK
<1>2. \/ /\ situ' = SetState(k, "snoozed", "ahead")
         /\ check' = [check EXCEPT ![k] = "off"] /\ wake' = [wake EXCEPT ![k] = TRUE]
      \/ UNCHANGED <<situ, timers>>
  BY DEF Later
<1> HIDE DEF k
<1>3. /\ situ' \in [Key -> Situation] /\ check' \in [Key -> {"off", "on", "restored"}]
      /\ wake' \in [Key -> BOOLEAN]
      /\ \A l \in Key : situ'[l].until = "ahead" => wake'[l]
  <2>1. CASE UNCHANGED <<situ, timers>>
    BY <1>1, <2>1 DEF timers, SnoozesReturn
  <2>2. CASE /\ situ' = SetState(k, "snoozed", "ahead")
             /\ check' = [check EXCEPT ![k] = "off"] /\ wake' = [wake EXCEPT ![k] = TRUE]
    <3>1. situ' \in [Key -> Situation]
      BY <1>1, <2>2, StateTypes DEF SituationState
    <3>2. \A l \in Key \ {k} : situ'[l] = situ[l]
      BY <1>1, <2>2 DEF SetState
    <3> QED
      BY <1>1, <2>2, <3>1, <3>2 DEF SnoozesReturn
  <2> QED
    BY <1>2, <2>1, <2>2
<1>4. Turn(t)
  BY <1>1, <1>3, AnswerTurns DEF counts
<1> QED
  BY <1>1, <1>3, <1>4, TurnKept DEF Around, TypeOK, world, counts

LEMMA RefuseKeeps ==
    ASSUME IInv, NEW t \in Task, NEW p \in Proposal, Refuse(t, p)
    PROVE  Kept
<1> DEFINE k == about[p].key
<1>1. /\ pc[t] = "idle" /\ TypeOK /\ Known /\ SnoozesReturn /\ Open(p) /\ k \in Key
      /\ prop' = [prop EXCEPT ![p] = "closed"] /\ UNCHANGED <<attempts, wake>>
      /\ Store(t, p)
      /\ UNCHANGED <<world, born, about, asked, granted, lapsed, file, counts, restarts>>
      /\ situ \in [Key -> Situation] /\ wake \in [Key -> BOOLEAN]
      /\ check \in [Key -> {"off", "on", "restored"}]
  BY SubjectType DEF Refuse, IInv, TypeOK
<1>2. \/ situ' = Acknowledged(k) /\ check' = [check EXCEPT ![k] = "off"]
      \/ UNCHANGED <<situ, check>>
  BY DEF Refuse
<1> HIDE DEF k
<1>3. /\ situ' \in [Key -> Situation] /\ check' \in [Key -> {"off", "on", "restored"}]
      /\ \A l \in Key : situ'[l].until = "ahead" => wake[l]
  <2>1. CASE UNCHANGED <<situ, check>>
    BY <1>1, <2>1 DEF SnoozesReturn
  <2>2. CASE situ' = Acknowledged(k) /\ check' = [check EXCEPT ![k] = "off"]
    <3>1. situ' \in [Key -> Situation]
      BY <1>1, <2>2, StateTypes DEF SituationState, Acknowledged
    <3> QED
      BY <1>1, <2>2, <3>1 DEF SnoozesReturn, Acknowledged, SetState
  <2> QED
    BY <1>2, <2>1, <2>2
<1>4. Turn(t)
  BY <1>1, <1>3, AnswerTurns DEF counts
<1> QED
  BY <1>1, <1>3, <1>4, TurnKept DEF Around, TypeOK, world, counts

LEMMA AcceptKeeps ==
    ASSUME IInv, NEW t \in Task, NEW p \in Proposal, Accept(t, p)
    PROVE  Kept
<1> DEFINE k == about[p].key
           o == about[p].occ
<1>1. /\ pc[t] = "idle" /\ TypeOK /\ Known /\ SnoozesReturn /\ Open(p)
      /\ k \in Key /\ o \in Nat
      /\ UNCHANGED <<world, born, about, asked, attempts, granted, lapsed, timers, file,
                     heard, revoked, autos, restarts>>
      /\ situ \in [Key -> Situation]
      /\ check' = check /\ check \in [Key -> {"off", "on", "restored"}]
  BY SubjectType DEF Accept, IInv, TypeOK, timers
<1>2. \/ /\ prop' = Claimed(p) /\ started' = [started EXCEPT ![p] = @ + 1]
         /\ pc' = [pc EXCEPT ![t] = "run"] /\ job' = [job EXCEPT ![t] = JobOf(k, o, p)]
         /\ UNCHANGED <<situ, doc, queue>>
      \/ /\ situ' = Acknowledged(k) \/ situ' = situ
         /\ prop' = [prop EXCEPT ![p] = "closed"]
         /\ UNCHANGED <<attempts, started>> /\ Store(t, p)
  BY DEF Accept
<1> HIDE DEF k, o
<1>3. /\ situ' \in [Key -> Situation]
      /\ \A l \in Key : situ'[l].until = "ahead" => wake[l]
  <2>1. CASE situ' = situ
    BY <1>1, <2>1 DEF SnoozesReturn
  <2>2. CASE situ' = Acknowledged(k)
    <3>1. situ' \in [Key -> Situation]
      BY <1>1, <2>2, StateTypes DEF SituationState, Acknowledged
    <3> QED
      BY <1>1, <2>2, <3>1 DEF SnoozesReturn, Acknowledged, SetState
  <2> QED
    BY <1>2, <2>1, <2>2
<1>4. CASE /\ prop' = Claimed(p) /\ started' = [started EXCEPT ![p] = @ + 1]
           /\ pc' = [pc EXCEPT ![t] = "run"] /\ job' = [job EXCEPT ![t] = JobOf(k, o, p)]
           /\ UNCHANGED <<situ, doc, queue>>
  <2>1. p \in 1 .. asked /\ prop[p] = "pending" /\ asked' = asked /\ asked \in Nat
    <3>1. ~ p > asked /\ prop[p] = "pending" /\ asked' = asked
      BY <1>1 DEF Known, Open
    <3>2. asked \in Nat /\ p \in Nat /\ p >= 1
      BY <1>1, Constants DEF TypeOK, Proposal
    <3> QED
      BY <3>1, <3>2
  <2>2. /\ prop \in [Proposal -> ProposalState] /\ pc \in [Task -> Await]
        /\ job \in [Task -> Job] /\ asked \in 0 .. MaxProposals
    BY <1>1 DEF TypeOK
  <2>3. prop'[p] = "executing" /\ \A q \in Proposal \ {p} : prop'[q] = prop[q]
    BY <1>4, <2>2 DEF Claimed
  <2>4. MemoryMoves
    <3>1. prop' \in [Proposal -> ProposalState]
      BY <1>4, <2>2 DEF Claimed, ProposalState
    <3>2. \A q \in Proposal : Promise!Moves(q)
      BY <2>1, <2>3 DEF Promise!Moves
    <3>3. \A q \in Proposal : q > asked' => prop'[q] = "none"
      BY <1>1, <2>1, <2>3 DEF Known
    <3> QED
      BY <1>1, <2>1, <2>2, <3>1, <3>2, <3>3 DEF MemoryMoves
  <2>5. JobOf(k, o, p) \in Job /\ JobOf(k, o, p).prop = p
    BY <1>1 DEF JobOf, Job
  <2>6. /\ pc' \in [Task -> Await] /\ job' \in [Task -> Job]
        /\ pc'[t] = "run" /\ job'[t].prop = p
        /\ \A u \in Task \ {t} : pc'[u] = pc[u] /\ job'[u] = job[u]
    BY <1>4, <2>2, <2>5 DEF Await
  <2>7. DocTurn(t) /\ ClaimTurn(t)
    BY <1>1, <1>4, <2>1, <2>3, <2>6 DEF DocTurn, ClaimTurn
  <2>8. CountTurn(t)
    <3>1. UNCHANGED <<autos, attempts>> /\ \A l \in Key : attempts[l] >= attempts[l]
      BY <1>1 DEF TypeOK
    <3> QED
      BY <1>1, <2>6, <3>1 DEF CountTurn
  <2>9. TurnTypes
    BY <1>1, <1>3, <1>4, <2>6 DEF TypeOK, TurnTypes
  <2>10. Turn(t)
    BY <2>4, <2>7, <2>8, <2>9 DEF Turn
  <2> QED
    BY <1>1, <1>3, <2>10, TurnKept DEF Around, TypeOK, world, timers
<1>5. CASE /\ prop' = [prop EXCEPT ![p] = "closed"]
           /\ UNCHANGED <<attempts, started>> /\ Store(t, p)
  <2>1. Turn(t)
    BY <1>1, <1>3, <1>5, AnswerTurns
  <2> QED
    BY <1>1, <1>3, <2>1, TurnKept DEF Around, TypeOK, world, timers
<1> QED
  BY <1>2, <1>4, <1>5

\* A task that held no run of a permission stores what it did.
LEMMA StoringTurns ==
    ASSUME TypeOK, NEW t \in Task, pc[t] \notin {"save", "auto"}, MemoryMoves,
           situ' \in [Key -> Situation],
           NEW p \in Proposal \cup {NoProposal}, Store(t, p),
           p # NoProposal => p <= asked' /\ prop'[p] \in Settled,
           UNCHANGED <<about, check, granted, attempts, autos, started>>
    PROVE  Turn(t)
<1>1. /\ attempts' \in [Key -> Nat] /\ autos' \in [Key -> Nat]
      /\ about' \in [Proposal -> Occurrence]
      /\ check' \in [Key -> {"off", "on", "restored"}]
      /\ \A l \in Key : attempts'[l] >= attempts[l]
  BY DEF TypeOK
<1>2. /\ DocTurn(t) /\ pc'[t] = "save"
      /\ pc' \in [Task -> Await] /\ job' \in [Task -> Job]
      /\ doc' \in [Task -> Document] /\ queue' \in Seq(Task)
  BY <1>1, StoreTurns
<1> QED
  BY <1>1, <1>2 DEF Turn, TurnTypes, CountTurn, ClaimTurn

LEMMA RunEndsKeeps ==
    ASSUME IInv, NEW t \in Task, RunEnds(t)
    PROVE  Kept
<1> DEFINE p == job[t].prop
           k == job[t].key
<1>1. /\ pc[t] = "run" /\ TypeOK /\ Known /\ SnoozesReturn
      /\ prop' = [prop EXCEPT ![p] = IF @ = "executing" THEN "closed" ELSE @]
      /\ situ' = Acknowledged(k) /\ UNCHANGED attempts /\ Store(t, p)
      /\ UNCHANGED <<world, born, about, asked, granted, lapsed, timers, file, counts,
                     restarts>>
      /\ situ \in [Key -> Situation] /\ prop \in [Proposal -> ProposalState]
      /\ k \in Key
  BY DEF RunEnds, IInv, TypeOK, Job
<1>2. /\ p \in 1 .. asked /\ prop[p] # "pending" /\ asked \in Nat
      /\ asked \in 0 .. MaxProposals
  BY <1>1, Constants DEF IInv, Claims, TypeOK
<1> HIDE DEF p, k
<1>3. p \in Proposal /\ p <= asked' /\ asked' = asked
  BY <1>1, <1>2, Constants DEF Proposal
<1>4. /\ prop'[p] \in Settled
      /\ \A q \in Proposal \ {p} : prop'[q] = prop[q]
      /\ (prop[p] = "executing" /\ prop'[p] = "closed") \/ prop'[p] = prop[p]
  BY <1>1, <1>2, <1>3 DEF Settled, ProposalState
<1>5. MemoryMoves
  <2>1. prop' \in [Proposal -> ProposalState]
    BY <1>1, <1>3 DEF ProposalState
  <2>2. \A q \in Proposal : Promise!Moves(q)
    BY <1>4 DEF Promise!Moves
  <2>3. \A q \in Proposal : q > asked' => prop'[q] = "none"
    BY <1>1, <1>2, <1>3, <1>4, Constants DEF Known
  <2> QED
    BY <1>1, <1>2, <1>3, <2>1, <2>2, <2>3 DEF MemoryMoves
<1>6. situ' \in [Key -> Situation] /\ \A l \in Key : situ'[l].until = "ahead" => wake[l]
  <2>1. situ' \in [Key -> Situation]
    BY <1>1, StateTypes DEF SituationState, Acknowledged
  <2> QED
    BY <1>1, <2>1 DEF SnoozesReturn, Acknowledged, SetState
<1>7. Turn(t)
  BY <1>1, <1>3, <1>4, <1>5, <1>6, StoringTurns DEF counts, timers
<1> QED
  BY <1>1, <1>6, <1>7, TurnKept DEF Around, TypeOK, world, timers, counts

LEMMA RevokeKeeps ==
    ASSUME IInv, NEW t \in Task, Revoke(t)
    PROVE  Kept
<1> DEFINE j == [NoJob EXCEPT !.revoke = granted]
<1>1. /\ pc[t] = "idle" /\ TypeOK /\ Known /\ SnoozesReturn
      /\ granted' = {} /\ UNCHANGED <<situ, prop, attempts>> /\ Save(t, j, granted')
      /\ UNCHANGED <<world, born, about, asked, lapsed, timers, file, counts, restarts>>
  BY DEF Revoke, IInv
<1>2. j \in Job /\ j.prop = NoProposal /\ j.revoke \cap granted' = {}
  BY <1>1, Constants DEF TypeOK, Job, NoJob, JobOf
<1> HIDE DEF j
<1>3. MemoryMoves
  BY <1>1, StayMoves
<1>4. /\ situ' \in [Key -> Situation] /\ about' \in [Proposal -> Occurrence]
      /\ attempts' \in [Key -> Nat] /\ autos' \in [Key -> Nat]
      /\ check' \in [Key -> {"off", "on", "restored"}]
      /\ \A l \in Key : attempts'[l] >= attempts[l]
  BY <1>1 DEF TypeOK, timers, counts
<1>5. /\ DocTurn(t) /\ pc'[t] = "save"
      /\ pc' \in [Task -> Await] /\ job' \in [Task -> Job]
      /\ doc' \in [Task -> Document] /\ queue' \in Seq(Task)
  BY <1>1, <1>2, <1>3, <1>4, SaveTurns
<1>6. Turn(t)
  BY <1>1, <1>3, <1>4, <1>5 DEF Turn, TurnTypes, CountTurn, ClaimTurn, counts
<1> QED
  BY <1>1, <1>6, TurnKept DEF Around, TypeOK, world, timers, counts, SnoozesReturn

LEMMA DeliveredKeeps ==
    ASSUME IInv, NEW t \in Task, Delivered(t)
    PROVE  Kept
<1> DEFINE k == job[t].key
<1>1. /\ pc[t] = "deliver" /\ TypeOK /\ Known /\ SnoozesReturn
      /\ UNCHANGED attempts /\ Store(t, NoProposal)
      /\ UNCHANGED <<world, born, about, asked, granted, lapsed, timers, file, counts,
                     restarts>>
      /\ situ \in [Key -> Situation] /\ k \in Key
  BY DEF Delivered, IInv, TypeOK, Job
<1>2. \/ situ' = Communicated(k) /\ UNCHANGED prop
      \/ prop' = Close(prop, {job[t].prop}) /\ UNCHANGED situ
  BY DEF Delivered
<1> HIDE DEF k
<1>3. MemoryMoves
  BY <1>1, <1>2, StayMoves, CloseMoves
<1>4. situ' \in [Key -> Situation] /\ \A l \in Key : situ'[l].until = "ahead" => wake[l]
  <2>1. CASE UNCHANGED situ
    BY <1>1, <2>1 DEF SnoozesReturn
  <2>2. CASE situ' = Communicated(k)
    <3>1. PICK st \in {"acked", "told"} : situ' = SetState(k, st, "none")
      BY <2>2 DEF Communicated
    <3>2. situ' \in [Key -> Situation]
      BY <1>1, <3>1, StateTypes DEF SituationState
    <3> QED
      BY <1>1, <3>1, <3>2 DEF SnoozesReturn, SetState
  <2> QED
    BY <1>2, <2>1, <2>2
<1>5. Turn(t)
  BY <1>1, <1>3, <1>4, StoringTurns DEF counts, timers
<1> QED
  BY <1>1, <1>4, <1>5, TurnKept DEF Around, TypeOK, world, timers, counts

LEMMA AutoEndsKeeps ==
    ASSUME IInv, NEW t \in Task, AutoVerified(t) \/ AutoFailed(t)
    PROVE  Kept
<1>1. /\ pc[t] = "auto" /\ TypeOK /\ Known /\ SnoozesReturn
      /\ attempts' = [attempts EXCEPT ![job[t].key] = @ + 1]
      /\ UNCHANGED <<situ, world, born, granted, lapsed, timers, file, counts, restarts>>
      /\ situ' \in [Key -> Situation] /\ attempts' \in [Key -> Nat]
      /\ job[t].key \in Key /\ job[t].occ \in Nat
  <2>1. TypeOK /\ Known /\ SnoozesReturn
    BY DEF IInv
  <2>2. /\ pc[t] = "auto" /\ attempts' = [attempts EXCEPT ![job[t].key] = @ + 1]
        /\ UNCHANGED <<situ, world, born, granted, lapsed, timers, file, counts,
                       restarts>>
    BY DEF AutoVerified, AutoFailed, Attempted
  <2>3. job[t].key \in Key /\ job[t].occ \in Nat
    BY <2>1 DEF TypeOK, Job
  <2>4. situ' \in [Key -> Situation] /\ attempts' \in [Key -> Nat]
    <3>1. /\ situ \in [Key -> Situation] /\ attempts \in [Key -> Nat] /\ situ' = situ
          /\ attempts' = [attempts EXCEPT ![job[t].key] = @ + 1]
      BY <2>1, <2>2 DEF TypeOK
    <3> QED
      BY <2>3, <3>1
  <2> QED
    BY <2>1, <2>2, <2>3, <2>4
<1>2. Decision(t)
  <2>1. CASE Silent(t)
    BY <1>1, <2>1, SilentDecides
  <2>2. CASE Decide(t, job[t].key, job[t].occ, job[t].quiet)
    BY <1>1, <2>2, DecideDecides
  <2> QED
    BY <2>1, <2>2 DEF AutoVerified, AutoFailed
<1>3. /\ autos' \in [Key -> Nat] /\ check' \in [Key -> {"off", "on", "restored"}]
      /\ UNCHANGED <<autos, started>>
  BY <1>1 DEF TypeOK, counts, timers
<1>4. Turn(t)
  BY <1>1, <1>2, <1>3 DEF Decision, Turn, TurnTypes, CountTurn, ClaimTurn
<1> QED
  BY <1>1, <1>4, TurnKept DEF Around, TypeOK, world, timers, counts, SnoozesReturn

-----------------------------------------------------------------------------
(* The file.                                                                *)

\* A write ends: the writes that still count are some of those before, in
\* their order and with their documents, and where one is the last to hold
\* what a task did it was that before.
Shorter(t, m) ==
    /\ m \in [1 .. Len(queue') -> 1 .. Len(queue)]
    /\ \A i, j \in 1 .. Len(queue') : m[i] = m[j] => i = j
    /\ \A i \in 1 .. Len(queue') :
          /\ queue'[i] = queue[m[i]] /\ queue'[i] # t
          /\ doc'[queue'[i]] = doc[queue'[i]]
    /\ \A u \in Task \ {t} : \A i \in 1 .. Len(queue') :
          (\A j \in i + 1 .. Len(queue') : queue'[j] # u) =>
              \A j \in m[i] + 1 .. Len(queue) : queue[j] # u

LEMMA WriteEnds ==
    ASSUME IInv, NEW t \in Task, pc[t] = "save", Finish(t), NEW m, Shorter(t, m),
           queue' \in Seq(Task),
           UNCHANGED <<world, memory, lapsed, timers, started, autos, restarts>>,
           doc' \in [Task -> Document], file' \in Document,
           \A u \in Task : doc'[u] \in {doc[u], Empty},
           file' = file \/ \E u \in Task : file' = doc[u],
           \A u \in Task \ {t} :
               pc[u] = "save" /\ (\A i \in 1 .. Len(queue') : queue'[i] # u) =>
                   DocKeeps(file', Outcome(u), job[u].revoke),
           NEW H \in SUBSET Outcome(t), NEW R \in SUBSET job[t].revoke,
           heard' = heard \cup H, revoked' = revoked \cup R,
           DocKeeps(file', heard', revoked'),
           \A i \in 1 .. Len(queue') : DocKeeps(doc[queue'[i]], heard', revoked')
    PROVE  Kept
<1>1. /\ pc' = [pc EXCEPT ![t] = "idle"] /\ job' = [job EXCEPT ![t] = NoJob]
      /\ UNCHANGED <<situ, born, prop, about, asked, attempts, granted>>
      /\ pc \in [Task -> Await] /\ job \in [Task -> Job] /\ TypeOK
      /\ queue \in Seq(Task) /\ Len(queue) \in Nat /\ Len(queue') \in Nat
  BY DEF Finish, IInv, TypeOK, memory
<1>2. /\ pc' \in [Task -> Await] /\ job' \in [Task -> Job] /\ pc'[t] = "idle"
      /\ \A u \in Task \ {t} : pc'[u] = pc[u] /\ job'[u] = job[u]
  BY <1>1, Constants DEF Await
<1>3. /\ Outcome(t) \subseteq 1 .. asked /\ Keeps(prop, granted, Outcome(t), job[t].revoke)
      /\ job[t].revoke \subseteq Key
  BY <1>1 DEF IInv, WillTell, Job
<1>4. TypeOK'
  <2>1. heard' \subseteq Proposal /\ revoked' \subseteq Key
    <3>1. /\ heard \subseteq Proposal /\ revoked \subseteq Key
          /\ asked \in 0 .. MaxProposals /\ MaxProposals \in Nat
      BY <1>1, Constants DEF TypeOK
    <3>2. 1 .. asked \subseteq Proposal
      BY <3>1 DEF Proposal
    <3>3. H \subseteq 1 .. asked /\ R \subseteq Key
      BY <1>3
    <3> QED
      BY <3>1, <3>2, <3>3
  <2> QED
    BY <1>1, <1>2, <2>1 DEF TypeOK, world, timers
<1>5. Lines'
  <2>1. \A i \in 1 .. Len(queue') : m[i] \in 1 .. Len(queue) /\ queue'[i] = queue[m[i]]
                                 /\ queue'[i] \in Task \ {t}
    BY DEF Shorter
  <2>2. \A i \in 1 .. Len(queue') : pc'[queue'[i]] = "save"
    BY <1>2, <2>1 DEF IInv, Lines
  <2>3. ASSUME NEW i \in 1 .. Len(queue'), NEW j \in 1 .. Len(queue'),
               queue'[i] = queue'[j]
        PROVE  i = j
    <3>1. m[i] = m[j]
      BY <2>1, <2>3 DEF IInv, Lines
    <3> QED
      BY <3>1 DEF Shorter
  <2> QED
    BY <2>2, <2>3 DEF Lines
<1>6. Known'
  <2> SUFFICES ASSUME NEW p \in Proposal, p > asked
               PROVE  /\ prop[p] = "none" /\ file'.prop[p] = "none"
                      /\ started[p] = 0 /\ p \notin heard'
                      /\ \A u \in Task : doc'[u].prop[p] = "none"
    BY <1>1 DEF Known
  <2>1. /\ prop[p] = "none" /\ file.prop[p] = "none" /\ started[p] = 0 /\ p \notin heard
        /\ \A u \in Task : doc[u].prop[p] = "none"
    BY DEF IInv, Known
  <2>2. Empty.prop[p] = "none"
    BY DEF Empty
  <2>3. p \notin 1 .. asked
    BY <1>1, Constants DEF TypeOK
  <2> QED
    BY <1>3, <2>1, <2>2, <2>3
<1>7. Told'
  <2>1. Keeps(prop, granted, heard', revoked')
    BY <1>3 DEF IInv, Told, Keeps
  <2>2. \A i \in 1 .. Len(queue') : doc'[queue'[i]] = doc[queue'[i]]
    BY DEF Shorter
  <2> QED
    BY <1>1, <2>1, <2>2 DEF Told
<1>8. WillTell'
  <2> SUFFICES ASSUME NEW u \in Task, pc'[u] = "save"
               PROVE  /\ Outcome(u)' \subseteq 1 .. asked'
                      /\ Keeps(prop', granted', Outcome(u)', job'[u].revoke)
                      /\ \A j \in 1 .. Len(queue') :
                            (\A i \in j + 1 .. Len(queue') : queue'[i] # u) =>
                                DocKeeps(doc'[queue'[j]], Outcome(u)', job'[u].revoke)
                      /\ (\A i \in 1 .. Len(queue') : queue'[i] # u) =>
                            DocKeeps(file', Outcome(u)', job'[u].revoke)
    BY DEF WillTell
  <2>1. u # t /\ pc[u] = "save" /\ Outcome(u)' = Outcome(u) /\ job'[u] = job[u]
    BY <1>2 DEF Outcome
  <2>2. Outcome(u) \subseteq 1 .. asked /\ Keeps(prop, granted, Outcome(u), job[u].revoke)
    BY <2>1 DEF IInv, WillTell
  <2>3. ASSUME NEW j \in 1 .. Len(queue'), \A i \in j + 1 .. Len(queue') : queue'[i] # u
        PROVE  DocKeeps(doc'[queue'[j]], Outcome(u), job[u].revoke)
    <3>1. /\ \A i \in m[j] + 1 .. Len(queue) : queue[i] # u
          /\ m[j] \in 1 .. Len(queue) /\ doc'[queue'[j]] = doc[queue[m[j]]]
      BY <2>1, <2>3 DEF Shorter
    <3> QED
      BY <2>1, <3>1 DEF IInv, WillTell
  <2> QED
    BY <1>1, <2>1, <2>2, <2>3
<1>9. Claims' /\ Once' /\ Counted' /\ SnoozesReturn'
  <2>1. Claims'
    BY <1>1, <1>2 DEF IInv, Claims
  <2>2. Once' /\ SnoozesReturn'
    BY <1>1 DEF IInv, Once, SnoozesReturn, timers
  <2>3. \A k \in Key : Automatic(k)' = Automatic(k)
    BY <1>2 DEF Automatic
  <2>4. Counted'
    BY <1>1, <2>3 DEF IInv, Counted
  <2> QED
    BY <2>1, <2>2, <2>4
<1>10. Promise!Step
  <2>1. \A p \in Proposal : Promise!Moves(p)
    BY <1>1 DEF Promise!Moves
  <2>2. \A p \in heard' \ heard : prop[p] \in {"none", "closed"}
    BY <1>3 DEF Keeps, Settled
  <2>3. heard' \subseteq Proposal /\ 1 .. asked \subseteq Proposal
    BY <1>1, <1>4, Constants DEF TypeOK, Proposal
  <2> QED
    BY <1>1, <2>1, <2>2, <2>3 DEF Promise!Step
<1>11. \A k \in Key : ~ autos'[k] > autos[k]
  BY <1>1 DEF TypeOK
<1> QED
  BY <1>4, <1>5, <1>6, <1>7, <1>8, <1>9, <1>10, <1>11 DEF IInv, Kept

\* Where no write of the task counts any more, the others stay.
LEMMA LineStays ==
    ASSUME IInv, NEW t \in Task, Place(t) = {}, UNCHANGED queue,
           doc' = [doc EXCEPT ![t] = Empty]
    PROVE  Shorter(t, [i \in 1 .. Len(queue) |-> i])
<1>1. \A i \in 1 .. Len(queue) : queue[i] \in Task \ {t}
  <2>1. queue \in Seq(Task)
    BY DEF IInv, TypeOK
  <2>2. \A i \in 1 .. Len(queue) : queue[i] # t
    BY DEF Place
  <2> QED
    BY <2>1, <2>2
<1>2. \A u \in Task \ {t} : doc'[u] = doc[u]
  BY DEF IInv, TypeOK
<1> DEFINE m == [i \in 1 .. Len(queue) |-> i]
<1>3. m \in [1 .. Len(queue) -> 1 .. Len(queue)] /\ \A i \in 1 .. Len(queue) : m[i] = i
  OBVIOUS
<1> HIDE DEF m
<1>4. Shorter(t, m)
  BY <1>1, <1>2, <1>3 DEF Shorter
<1> QED
  BY <1>4 DEF m

LEMMA WrittenKeeps ==
    ASSUME IInv, NEW t \in Task, Written(t)
    PROVE  Kept
<1>1. /\ pc[t] = "save" /\ Finish(t) /\ Write(t)
      /\ UNCHANGED <<world, memory, lapsed, timers, started, autos, restarts>>
      /\ heard' = heard \cup Outcome(t) /\ revoked' = revoked \cup job[t].revoke
  BY DEF Written, Outcome
<1>2. /\ queue \in Seq(Task) /\ Len(queue) \in Nat /\ file \in Document
      /\ doc \in [Task -> Document] /\ Empty \in Document
      /\ \A i \in 1 .. Len(queue) : queue[i] \in Task
  BY Constants DEF IInv, TypeOK
<1>3. ASSUME NEW d, DocKeeps(d, heard, revoked), DocKeeps(d, Outcome(t), job[t].revoke)
      PROVE  DocKeeps(d, heard', revoked')
  BY <1>1, <1>3 DEF DocKeeps, Keeps
<1>4. CASE /\ Place(t) = {} /\ doc' = [doc EXCEPT ![t] = Empty]
           /\ UNCHANGED <<queue, file>>
  <2>1. Shorter(t, [i \in 1 .. Len(queue) |-> i])
    BY <1>4, LineStays
  <2>2. \A i \in 1 .. Len(queue) : queue[i] # t
    BY <1>4 DEF Place
  <2>3. DocKeeps(file', heard', revoked')
    BY <1>1, <1>3, <1>4, <2>2 DEF IInv, Told, WillTell
  <2>4. ASSUME NEW i \in 1 .. Len(queue')
        PROVE  DocKeeps(doc[queue'[i]], heard', revoked')
    <3>1. i \in 1 .. Len(queue) /\ \A j \in i + 1 .. Len(queue) : queue[j] # t
      BY <1>2, <1>4, <2>2
    <3>2. DocKeeps(doc[queue[i]], heard, revoked)
      BY <3>1 DEF IInv, Told
    <3>3. DocKeeps(doc[queue[i]], Outcome(t), job[t].revoke)
      BY <1>1, <3>1 DEF IInv, WillTell
    <3> QED
      BY <1>3, <1>4, <3>2, <3>3
  <2>5. /\ doc' \in [Task -> Document] /\ \A u \in Task : doc'[u] \in {doc[u], Empty}
        /\ queue' \in Seq(Task) /\ file' \in Document /\ file' = file
    BY <1>2, <1>4
  <2>6. \A u \in Task \ {t} :
           pc[u] = "save" /\ (\A i \in 1 .. Len(queue') : queue'[i] # u) =>
               DocKeeps(file', Outcome(u), job[u].revoke)
    BY <1>4 DEF IInv, WillTell
  <2> QED
    BY <1>1, <2>1, <2>3, <2>4, <2>5, <2>6, WriteEnds
<1>5. ASSUME NEW i \in Place(t), file' = doc[t],
             queue' = SubSeq(queue, i + 1, Len(queue)),
             doc' = [u \in Task |-> IF \E j \in 1 .. i : queue[j] = u THEN Empty
                                    ELSE doc[u]]
      PROVE  Kept
  <2> DEFINE n == Len(queue) - i
             m == [j \in 1 .. n |-> i + j]
  <2>1. i \in 1 .. Len(queue) /\ queue[i] = t
    BY <1>5 DEF Place
  <2>2. /\ queue' \in Seq(Task) /\ Len(queue') = n /\ n \in Nat
        /\ \A j \in 1 .. n : queue'[j] = queue[i + j] /\ i + j \in 1 .. Len(queue)
    <3>1. /\ queue' \in Seq(Task) /\ Len(queue') = n
          /\ \A j \in 1 .. n : queue'[j] = queue[i + j]
      BY <1>2, <1>5, <2>1, AfterElement
    <3>2. n \in Nat /\ \A j \in 1 .. n : i + j \in 1 .. Len(queue)
      BY <1>2, <2>1
    <3> QED
      BY <3>1, <3>2
  <2>3. m \in [1 .. n -> 1 .. Len(queue)] /\ \A j \in 1 .. n : m[j] = i + j
    BY <2>2
  <2>4. \A j \in i + 1 .. Len(queue) : queue[j] # t
    BY <1>2, <2>1 DEF IInv, Lines
  <2>5. ASSUME NEW j \in 1 .. n
        PROVE  queue'[j] \in Task \ {t} /\ doc'[queue'[j]] = doc[queue'[j]]
    <3>1. i + j \in 1 .. Len(queue) /\ i + j \in i + 1 .. Len(queue)
      BY <1>2, <2>1, <2>2
    <3>2. \A l \in 1 .. i : queue[l] # queue[i + j]
      <4>1. \A l \in 1 .. i : l \in 1 .. Len(queue) /\ l # i + j
        BY <1>2, <2>1, <3>1
      <4> QED
        BY <3>1, <4>1 DEF IInv, Lines
    <3> QED
      BY <1>2, <1>5, <2>2, <2>4, <3>1, <3>2
  <2>6. ASSUME NEW u, NEW j \in 0 .. n,
               \A l \in j + 1 .. n : queue'[l] # u,
               NEW l \in i + j + 1 .. Len(queue)
        PROVE  queue[l] # u
    <3>1. i \in Nat /\ Len(queue) \in Nat /\ n = Len(queue) - i
      BY <1>2, <2>1
    <3>2. l - i \in j + 1 .. n /\ l - i \in 1 .. n /\ i + (l - i) = l
      BY <3>1
    <3> HIDE DEF n
    <3>3. queue'[l - i] = queue[i + (l - i)]
      BY <2>2, <3>2
    <3>4. queue'[l - i] # u
      BY <2>6, <3>2
    <3> QED
      BY <3>2, <3>3, <3>4
  <2>7. Shorter(t, m)
    <3> HIDE DEF m
    <3>1. \A a, b \in 1 .. n : m[a] = m[b] => a = b
      <4>1. \A a, b \in 1 .. n : i + a = i + b => a = b
        BY <2>1, <2>2
      <4> QED
        BY <2>3, <4>1
    <3>2. \A a \in 1 .. n : a \in 0 .. n
      BY <2>2
    <3>3. \A u \in Task \ {t} : \A a \in 1 .. n :
            (\A j \in a + 1 .. n : queue'[j] # u) =>
                \A j \in m[a] + 1 .. Len(queue) : queue[j] # u
      <4> SUFFICES ASSUME NEW u \in Task \ {t}, NEW a \in 1 .. n,
                          \A j \in a + 1 .. n : queue'[j] # u,
                          NEW l \in m[a] + 1 .. Len(queue)
                   PROVE  queue[l] # u
        OBVIOUS
      <4>1. a \in 0 .. n /\ l \in i + a + 1 .. Len(queue)
        BY <2>3, <3>2
      <4> QED
        BY <2>6, <4>1
    <3>4. \A a \in 1 .. n : /\ queue'[a] = queue[m[a]] /\ queue'[a] # t
                            /\ doc'[queue'[a]] = doc[queue'[a]]
      BY <2>2, <2>3, <2>5
    <3>5. Len(queue') = n /\ m \in [1 .. n -> 1 .. Len(queue)]
      BY <2>2, <2>3
    <3> HIDE DEF n
    <3> QED
      BY <3>1, <3>3, <3>4, <3>5 DEF Shorter
  <2>8. DocKeeps(file', heard', revoked')
    <3>1. DocKeeps(doc[queue[i]], heard, revoked)
      BY <2>1 DEF IInv, Told
    <3>2. DocKeeps(doc[queue[i]], Outcome(t), job[t].revoke)
      BY <1>1, <2>1, <2>4 DEF IInv, WillTell
    <3> QED
      BY <1>3, <1>5, <2>1, <3>1, <3>2
  <2>9. ASSUME NEW j \in 1 .. Len(queue')
        PROVE  DocKeeps(doc[queue'[j]], heard', revoked')
    <3>1. j \in 1 .. n /\ i + j \in 1 .. Len(queue) /\ queue'[j] = queue[i + j]
      BY <2>2
    <3>2. \A l \in i + j + 1 .. Len(queue) : queue[l] # t
      <4>1. \A l \in i + j + 1 .. Len(queue) : l \in i + 1 .. Len(queue)
        BY <1>2, <2>1, <3>1
      <4> QED
        BY <2>4, <4>1
    <3>3. DocKeeps(doc[queue[i + j]], heard, revoked)
      BY <3>1 DEF IInv, Told
    <3>4. DocKeeps(doc[queue[i + j]], Outcome(t), job[t].revoke)
      BY <1>1, <3>1, <3>2 DEF IInv, WillTell
    <3> QED
      BY <1>3, <3>1, <3>3, <3>4
  <2>10. /\ doc' \in [Task -> Document] /\ \A u \in Task : doc'[u] \in {doc[u], Empty}
         /\ file' \in Document /\ \E u \in Task : file' = doc[u]
    BY <1>2, <1>5
  <2>11. ASSUME NEW u \in Task \ {t}, pc[u] = "save",
                \A j \in 1 .. Len(queue') : queue'[j] # u
         PROVE  DocKeeps(file', Outcome(u), job[u].revoke)
    <3>1. 0 \in 0 .. n /\ i + 0 + 1 = i + 1 /\ 0 + 1 = 1
      BY <2>1, <2>2
    <3>2. \A l \in i + 1 .. Len(queue) : queue[l] # u
      BY <2>2, <2>6, <2>11, <3>1
    <3>3. DocKeeps(doc[queue[i]], Outcome(u), job[u].revoke)
      BY <2>1, <2>11, <3>2 DEF IInv, WillTell
    <3> QED
      BY <1>5, <2>1, <3>3
  <2> HIDE DEF m, n
  <2> QED
    BY <1>1, <2>2, <2>7, <2>8, <2>9, <2>10, <2>11, WriteEnds
<1> QED
  BY <1>1, <1>4, <1>5 DEF Write

LEMMA NotWrittenKeeps ==
    ASSUME IInv, NEW t \in Task, NotWritten(t)
    PROVE  Kept
<1>1. /\ pc[t] = "save" /\ Finish(t) /\ Fail(t)
      /\ UNCHANGED <<world, memory, lapsed, timers, started, autos, restarts>>
      /\ UNCHANGED <<heard, revoked>>
  BY DEF NotWritten, counts
<1>2. /\ queue \in Seq(Task) /\ Len(queue) \in Nat /\ file \in Document
      /\ doc \in [Task -> Document] /\ Empty \in Document
      /\ \A i \in 1 .. Len(queue) : queue[i] \in Task
  BY Constants DEF IInv, TypeOK
<1>3. doc' = [doc EXCEPT ![t] = Empty] /\ file' = file
  BY <1>1 DEF Fail
<1>4. /\ doc' \in [Task -> Document] /\ \A u \in Task : doc'[u] \in {doc[u], Empty}
      /\ file' \in Document /\ DocKeeps(file', heard', revoked')
      /\ \A u \in Task \ {t} : doc'[u] = doc[u]
  BY <1>1, <1>2, <1>3 DEF IInv, Told
<1>5. heard' = heard \cup {} /\ revoked' = revoked \cup {}
  BY <1>1
<1>6. CASE Place(t) = {} /\ UNCHANGED queue
  <2>1. Shorter(t, [i \in 1 .. Len(queue) |-> i])
    BY <1>3, <1>6, LineStays
  <2>2. \A i \in 1 .. Len(queue') : DocKeeps(doc[queue'[i]], heard', revoked')
    BY <1>1, <1>6 DEF IInv, Told
  <2>3. \A u \in Task \ {t} :
           pc[u] = "save" /\ (\A i \in 1 .. Len(queue') : queue'[i] # u) =>
               DocKeeps(file', Outcome(u), job[u].revoke)
    BY <1>3, <1>6 DEF IInv, WillTell
  <2>4. {} \in SUBSET Outcome(t) /\ {} \in SUBSET job[t].revoke /\ queue' \in Seq(Task)
    BY <1>2, <1>6
  <2> QED
    BY <1>1, <1>3, <1>4, <1>5, <2>1, <2>2, <2>3, <2>4, WriteEnds
<1>7. ASSUME NEW i \in Place(t), queue' = RemoveAt(queue, i)
      PROVE  Kept
  <2> DEFINE n == Len(queue) - 1
             m == [j \in 1 .. n |-> IF j < i THEN j ELSE j + 1]
  <2>1. i \in 1 .. Len(queue) /\ queue[i] = t /\ i \in Nat
    BY <1>7 DEF Place
  <2>2. /\ queue' \in Seq(Task) /\ Len(queue') = n /\ n \in Nat
        /\ \A j \in 1 .. n : queue'[j] = IF j < i THEN queue[j] ELSE queue[j + 1]
    <3>1. /\ queue' \in Seq(Task) /\ Len(queue') = n
          /\ \A j \in 1 .. n : queue'[j] = IF j < i THEN queue[j] ELSE queue[j + 1]
      BY <1>2, <1>7, <2>1, WithoutElement
    <3>2. n \in Nat
      BY <1>2, <2>1
    <3> QED
      BY <3>1, <3>2
  <2>3. /\ m \in [1 .. n -> 1 .. Len(queue)]
        /\ \A j \in 1 .. n : m[j] = IF j < i THEN j ELSE j + 1
    BY <1>2, <2>1, <2>2
  <2>4. \A j \in 1 .. n : m[j] # i /\ queue'[j] = queue[m[j]] /\ m[j] \in 1 .. Len(queue)
    <3> HIDE DEF m
    <3> QED
      BY <2>1, <2>2, <2>3
  <2> HIDE DEF m
  <2>5. ASSUME NEW j \in 1 .. n
        PROVE  queue'[j] \in Task \ {t} /\ doc'[queue'[j]] = doc[queue'[j]]
    <3>1. queue[m[j]] # t
      BY <2>1, <2>4 DEF IInv, Lines
    <3> QED
      BY <1>2, <1>4, <2>4, <3>1
  <2>6. ASSUME NEW u \in Task \ {t}, NEW a \in 0 .. n,
               \A l \in a + 1 .. n : queue'[l] # u,
               NEW l \in 1 .. Len(queue), l > (IF a < i THEN a ELSE a + 1)
        PROVE  queue[l] # u
    <3>1. CASE l = i
      BY <2>1, <3>1
    <3>2. CASE l < i
      <4>1. l \in a + 1 .. n /\ l \in 1 .. n
        BY <1>2, <2>1, <2>2, <2>6, <3>2
      <4> QED
        BY <2>2, <2>6, <3>2, <4>1
    <3>3. CASE l > i
      <4>1. l - 1 \in a + 1 .. n /\ l - 1 \in 1 .. n /\ ~ l - 1 < i /\ l - 1 + 1 = l
        BY <1>2, <2>1, <2>2, <2>6, <3>3
      <4> QED
        BY <2>2, <2>6, <4>1
    <3> QED
      BY <2>1, <3>1, <3>2, <3>3
  <2>7. Shorter(t, m)
    <3>1. \A a, b \in 1 .. n : m[a] = m[b] => a = b
      BY <2>1, <2>2, <2>3
    <3>2. ASSUME NEW u \in Task \ {t}, NEW a \in 1 .. n,
                 \A j \in a + 1 .. n : queue'[j] # u,
                 NEW j \in m[a] + 1 .. Len(queue)
          PROVE  queue[j] # u
      <4>1. /\ a \in 0 .. n /\ j \in 1 .. Len(queue)
            /\ j > (IF a < i THEN a ELSE a + 1)
        BY <1>2, <2>1, <2>2, <2>3, <3>2
      <4> QED
        BY <2>6, <3>2, <4>1
    <3> QED
      BY <2>2, <2>3, <2>4, <2>5, <3>1, <3>2 DEF Shorter
  <2>8. \A j \in 1 .. Len(queue') : DocKeeps(doc[queue'[j]], heard', revoked')
    BY <1>1, <2>2, <2>4 DEF IInv, Told
  <2>9. ASSUME NEW u \in Task \ {t}, pc[u] = "save",
               \A j \in 1 .. Len(queue') : queue'[j] # u
        PROVE  DocKeeps(file', Outcome(u), job[u].revoke)
    <3>1. 0 \in 0 .. n /\ 0 + 1 = 1 /\ 0 < i
      BY <2>1, <2>2
    <3>2. \A l \in 1 .. Len(queue) : l > (IF 0 < i THEN 0 ELSE 0 + 1)
      BY <1>2, <3>1
    <3>3. \A l \in 1 .. Len(queue) : queue[l] # u
      BY <2>2, <2>6, <2>9, <3>1, <3>2
    <3> QED
      BY <1>3, <2>9, <3>3 DEF IInv, WillTell
  <2>10. {} \in SUBSET Outcome(t) /\ {} \in SUBSET job[t].revoke
    OBVIOUS
  <2> HIDE DEF n
  <2> QED
    BY <1>1, <1>3, <1>4, <1>5, <2>2, <2>7, <2>8, <2>9, <2>10, WriteEnds
<1> QED
  BY <1>1, <1>6, <1>7 DEF Fail

-----------------------------------------------------------------------------
(* The world and a restart.                                                 *)

LEMMA Untouched ==
    ASSUME IInv, TypeOK', UNCHANGED <<memory, timers, tasks, disk, counts>>
    PROVE  Kept
<1>1. UNCHANGED <<situ, born, prop, about, asked, attempts, granted, check, wake, pc, job,
                  doc, queue, file, heard, started, autos, revoked>>
  BY DEF memory, timers, tasks, disk, counts
<1>2. Lines' /\ Known' /\ Told'
  BY <1>1 DEF IInv, Lines, Known, Told
<1>3. WillTell'
  BY <1>1 DEF IInv, WillTell, Outcome
<1>4. Claims' /\ Once' /\ Counted' /\ SnoozesReturn'
  BY <1>1 DEF IInv, Claims, Once, Counted, Automatic, SnoozesReturn
<1>5. \A k \in Key : ~ autos'[k] > autos[k]
  BY <1>1 DEF IInv, TypeOK
<1> QED
  BY <1>1, <1>2, <1>3, <1>4, <1>5 DEF IInv, Kept

LEMMA ChangeKeeps ==
    ASSUME IInv, NEW k \in Key, Change(k)
    PROVE  Kept
<1>1. /\ UNCHANGED <<lights, memory, lapsed, timers, tasks, disk, counts, restarts>>
      /\ changes' = changes + 1 /\ TypeOK
      /\ live \in [Key -> Live] /\ news \in [Key -> {"on", "off", "seen"}]
  BY DEF Change, IInv, TypeOK
<1>2. PICK v \in Live : /\ live' = [live EXCEPT ![k] = v]
                        /\ news' = [news EXCEPT ![k] = Event(v)]
  BY DEF Change, Values, Live
<1>3. live' \in [Key -> Live] /\ news' \in [Key -> {"on", "off", "seen"}]
  <2>1. Event(v) \in {"on", "off", "seen"}
    BY DEF Event, Live
  <2> QED
    BY <1>1, <1>2, <2>1
<1>4. TypeOK'
  BY <1>1, <1>3 DEF TypeOK, memory, timers, tasks, disk, counts
<1> QED
  BY <1>1, <1>4, Untouched

LEMMA LapseKeeps ==
    ASSUME IInv, NEW p \in Proposal, Lapse(p)
    PROVE  Kept
<1>1. /\ UNCHANGED <<world, memory, timers, tasks, disk, counts, restarts>>
      /\ lapsed' = lapsed \cup {p} /\ TypeOK
  BY DEF Lapse, IInv
<1>2. TypeOK'
  BY <1>1 DEF TypeOK, world, memory, timers, tasks, disk, counts
<1> QED
  BY <1>1, <1>2, Untouched

LEMMA RestartKeeps ==
    ASSUME IInv, NEW t \in Task, Restart(t)
    PROVE  Kept
<1> DEFINE S == {p \in Proposal : ~ Backed(p, situ')}
           d == [situ |-> situ', prop |-> prop', attempts |-> attempts',
                 granted |-> granted']
<1>1. /\ news' = [k \in Key |-> "seen"] /\ situ' = Revalidated(file.situ)
      /\ prop' = Close(file.prop, S)
      /\ attempts' = file.attempts /\ granted' = file.granted
      /\ check' = [k \in Key |-> IF situ'[k].state = "active" THEN "restored" ELSE "off"]
      /\ wake' = Wakes(situ')
      /\ pc' = [u \in Task |-> IF u = t THEN "save" ELSE "idle"]
      /\ job' = [u \in Task |-> NoJob]
      /\ doc' = [u \in Task |-> IF u # t THEN Empty ELSE d]
      /\ queue' = <<t>>
      /\ started' = [p \in Proposal |-> IF p \in heard THEN started[p] ELSE 0]
      /\ autos' = [k \in Key |-> 0] /\ restarts' = restarts + 1
      /\ UNCHANGED <<lights, born, about, asked, lapsed, file, heard, revoked>>
  BY DEF Restart
<1>2. live' \in [Key -> Live] /\ changes' \in Nat
  <2>1. live \in [Key -> Live] /\ changes \in Nat
    BY DEF IInv, TypeOK
  <2>2. CASE UNCHANGED <<live, changes>>
    BY <2>1, <2>2
  <2>3. CASE /\ changes' = changes + 1
             /\ \E k \in Key : \E v \in Values(k) \ {live[k]} :
                   live' = [live EXCEPT ![k] = v]
    <3>1. PICK k \in Key, v \in Live : live' = [live EXCEPT ![k] = v]
      BY <2>3 DEF Values, Live
    <3> QED
      BY <2>1, <2>3, <3>1
  <2> QED
    BY <2>2, <2>3 DEF Restart
<1>3. /\ file.situ \in [Key -> Situation] /\ file.prop \in [Proposal -> ProposalState]
      /\ file.attempts \in [Key -> Nat] /\ file.granted \in SUBSET Key
      /\ started \in [Proposal -> Nat] /\ asked \in Nat /\ TypeOK
  <2>1. TypeOK /\ file \in Document /\ started \in [Proposal -> Nat]
    BY DEF IInv, TypeOK
  <2>2. asked \in Nat
    BY Constants DEF IInv, TypeOK
  <2> QED
    BY <2>1, <2>2 DEF Document
<1> HIDE DEF S
<1>4. situ' \in [Key -> Situation]
  <2> DEFINE f == file.situ
  <2>1. situ' = [k \in Key |-> IF f[k].state \notin Ended /\ live'[k] = "off"
                               THEN [f[k] EXCEPT !.state = "over", !.until = "none"]
                               ELSE f[k]]
    BY <1>1 DEF Revalidated
  <2>2. f \in [Key -> Situation]
    BY <1>3
  <2> HIDE DEF f
  <2>3. \A k \in Key : [f[k] EXCEPT !.state = "over", !.until = "none"] \in Situation
    BY <2>2 DEF Situation, SituationState
  <2> QED
    BY <2>1, <2>2, <2>3
<1>5. /\ prop' \in [Proposal -> ProposalState]
      /\ \A p \in Proposal :
            prop'[p] = file.prop[p] \/ (prop'[p] = "closed" /\ file.prop[p] = "pending")
  <2> DEFINE f == file.prop
  <2>1. prop' = [p \in Proposal |-> IF p \in S /\ f[p] = "pending" THEN "closed" ELSE f[p]]
    BY <1>1 DEF Close
  <2>2. f \in [Proposal -> ProposalState]
    BY <1>3
  <2> HIDE DEF f
  <2>3. /\ prop' \in [Proposal -> ProposalState]
        /\ \A p \in Proposal : prop'[p] = f[p] \/ (prop'[p] = "closed" /\ f[p] = "pending")
    BY <2>1, <2>2 DEF ProposalState
  <2> QED
    BY <2>3 DEF f
<1>6. d \in Document
  BY <1>1, <1>3, <1>4, <1>5 DEF Document
<1>7. /\ pc' \in [Task -> Await] /\ job' \in [Task -> Job] /\ doc' \in [Task -> Document]
      /\ queue' \in Seq(Task) /\ Len(queue') = 1 /\ queue'[1] = t
      /\ pc'[t] = "save" /\ doc'[t] = d
  <2> HIDE DEF d
  <2> QED
    BY <1>1, <1>6, Constants DEF Await
<1>8. /\ check' \in [Key -> {"off", "on", "restored"}] /\ wake' \in [Key -> BOOLEAN]
      /\ started' \in [Proposal -> Nat] /\ autos' \in [Key -> Nat]
      /\ news' \in [Key -> {"on", "off", "seen"}] /\ restarts' \in Nat
  BY <1>1, <1>3 DEF Wakes, TypeOK
<1>9. TypeOK'
  BY <1>1, <1>2, <1>3, <1>4, <1>5, <1>7, <1>8 DEF TypeOK
<1>10. Keeps(prop', granted', heard, revoked)
  <2>1. DocKeeps(file, heard, revoked) /\ heard \subseteq Proposal
    BY <1>3 DEF IInv, Told, TypeOK
  <2> QED
    BY <1>1, <1>5, <2>1 DEF DocKeeps, Keeps, Settled
<1>11. Lines'
  BY <1>7 DEF Lines
<1>12. Told'
  <2>1. DocKeeps(d, heard, revoked)
    BY <1>10 DEF DocKeeps
  <2>2. \A i \in 1 .. Len(queue') : i = 1
    BY <1>7
  <2> HIDE DEF d
  <2> QED
    BY <1>1, <1>7, <1>10, <2>1, <2>2 DEF Told, IInv
<1>13. WillTell'
  <2>1. \A u \in Task : job'[u].prop = NoProposal /\ job'[u].revoke = {}
    BY <1>1 DEF NoJob, JobOf
  <2>2. \A u \in Task : Outcome(u)' = {}
    BY <2>1 DEF Outcome
  <2>3. \A props, g : Keeps(props, g, {}, {})
    BY DEF Keeps
  <2> QED
    BY <2>1, <2>2, <2>3 DEF WillTell, DocKeeps
<1>14. Known'
  <2> SUFFICES ASSUME NEW p \in Proposal, p > asked
               PROVE  /\ prop'[p] = "none" /\ file.prop[p] = "none"
                      /\ started'[p] = 0 /\ p \notin heard
                      /\ \A u \in Task : doc'[u].prop[p] = "none"
    BY <1>1 DEF Known
  <2>1. file.prop[p] = "none" /\ p \notin heard
    BY DEF IInv, Known
  <2>2. prop'[p] = "none" /\ started'[p] = 0
    BY <1>1, <1>5, <2>1
  <2>3. d.prop = prop' /\ Empty.prop[p] = "none"
    BY DEF Empty
  <2> HIDE DEF d
  <2> QED
    BY <1>1, <2>1, <2>2, <2>3
<1>15. Claims' /\ Once' /\ Counted' /\ SnoozesReturn'
  <2>1. Claims'
    BY <1>1 DEF Claims
  <2>2. Once'
    <3>1. \A p \in heard : prop'[p] # "pending"
      BY <1>10 DEF Keeps, Settled
    <3>2. \A p \in Proposal : started[p] <= 1
      BY DEF IInv, Once
    <3> QED
      BY <1>1, <1>3, <3>1, <3>2 DEF Once
  <2>3. Counted'
    <3>1. \A k \in Key : Automatic(k)' = {}
      BY <1>1 DEF Automatic
    <3>2. attempts' \in [Key -> Nat] /\ MaxAttempts \in Nat
      BY <1>1, <1>3, Constants
    <3> QED
      BY <1>1, <3>1, <3>2 DEF Counted
  <2>4. SnoozesReturn'
    BY <1>1, <1>4 DEF Wakes, Situation, SnoozesReturn
  <2> QED
    BY <2>1, <2>2, <2>3, <2>4
<1>16. Promise!Restart
  <2>1. \A p \in heard : prop'[p] \in {"none", "closed"}
    BY <1>10 DEF Keeps, Settled
  <2>2. ASSUME NEW p \in Proposal \ 1 .. asked
        PROVE  prop'[p] = "none"
    <3>1. p > asked
      BY <1>3, Constants DEF Proposal
    <3> QED
      BY <1>1, <1>14, <3>1 DEF Known
  <2> QED
    BY <1>1, <1>5, <2>1, <2>2 DEF Promise!Restart, Promise!Life, ProposalState
<1>17. \A k \in Key : ~ autos'[k] > autos[k]
  BY <1>1, <1>3 DEF TypeOK
<1> QED
  BY <1>9, <1>11, <1>12, <1>13, <1>14, <1>15, <1>16, <1>17 DEF IInv, Kept

-----------------------------------------------------------------------------
(* The theorems.                                                            *)

LEMMA InitHolds == Init => IInv /\ Promise!Init
<1> SUFFICES ASSUME Init PROVE IInv /\ Promise!Init
  OBVIOUS
<1> DEFINE d == [Empty EXCEPT !.granted = granted]
<1>1. d \in Document /\ d.prop = Empty.prop /\ d.granted = granted
  BY Constants DEF Init, Document, Empty
<1>2. \A p \in Proposal : Empty.prop[p] = "none"
  BY DEF Empty
<1>3. file = d /\ queue = <<>> /\ Len(queue) = 0 /\ prop = Empty.prop
  BY DEF Init
<1> HIDE DEF d
<1>4. TypeOK
  <2>1. [key |-> SomeKey, occ |-> 0] \in Occurrence
    BY Constants DEF Occurrence
  <2>2. 0 \in 0 .. MaxProposals /\ queue \in Seq(Task)
    BY <1>3, Constants
  <2>3. /\ Empty.situ \in [Key -> Situation] /\ Empty.prop \in [Proposal -> ProposalState]
        /\ Empty.attempts \in [Key -> Nat]
    BY Constants DEF Document
  <2> QED
    BY <1>1, <1>3, <2>1, <2>2, <2>3, Constants DEF Init, TypeOK, Live, Await
<1>5. Lines /\ Known /\ WillTell
  <2>1. Lines
    BY <1>3 DEF Lines
  <2>2. Known
    BY <1>1, <1>2, <1>3 DEF Init, Known
  <2>3. WillTell
    BY DEF Init, WillTell
  <2> QED
    BY <2>1, <2>2, <2>3
<1>6. Told
  <2>1. heard = {} /\ revoked = {}
    BY DEF Init
  <2> QED
    BY <1>3, <2>1 DEF Told, DocKeeps, Keeps
<1>7. Claims /\ Once /\ Counted /\ SnoozesReturn
  <2>1. Claims /\ Once
    BY DEF Init, Claims, Once
  <2>2. \A k \in Key : Automatic(k) = {}
    BY DEF Init, Automatic
  <2>3. Counted
    BY <2>2, Constants DEF Init, Counted, Empty
  <2>4. SnoozesReturn
    BY DEF Init, SnoozesReturn, Empty, NoSituation
  <2> QED
    BY <2>1, <2>3, <2>4
<1>8. Promise!Init
  <2>1. 1 .. asked = {} /\ prop = [p \in Proposal |-> "none"] /\ heard = {}
    BY DEF Init, Empty
  <2> QED
    BY <2>1 DEF Promise!Init
<1> QED
  BY <1>4, <1>5, <1>6, <1>7, <1>8 DEF IInv

LEMMA NextKeeps ==
    ASSUME IInv, [Next]_vars
    PROVE  Kept
<1>1. CASE UNCHANGED vars
  <2>1. UNCHANGED <<world, memory, lapsed, timers, tasks, disk, counts, restarts>>
    BY <1>1 DEF vars
  <2>2. TypeOK'
    BY <2>1 DEF IInv, TypeOK, world, memory, timers, tasks, disk, counts
  <2> QED
    BY <2>1, <2>2, Untouched
<1>2. ASSUME NEW t \in Task, Start(t)
      PROVE  Kept
  BY <1>2, ObserveKeeps, CheckFiresKeeps, WakeFiresKeeps DEF Start
<1>3. ASSUME NEW t \in Task, Answer(t)
      PROVE  Kept
  BY <1>3, AcceptKeeps, LaterKeeps, RefuseKeeps, RevokeKeeps DEF Answer
<1>4. ASSUME NEW t \in Task, Return(t)
      PROVE  Kept
  BY <1>4, DeliveredKeeps, RunEndsKeeps, AutoEndsKeeps, WrittenKeeps, NotWrittenKeeps
  DEF Return
<1> QED
  BY <1>1, <1>2, <1>3, <1>4, RestartKeeps, ChangeKeeps, LapseKeeps DEF Next

\* What the proofs rest on: in every state the shape of the state, that what
\* was told or is about to be told is true of the memory and of every document
\* that can still become the file, that a run holds a claimed question, and
\* that all runs under a permission but the one under way are counted.
THEOREM InvariantHolds == Spec => []IInv
<1>1. IInv /\ [Next]_vars => IInv'
  BY NextKeeps DEF Kept
<1> QED
  BY <1>1, InitHolds, PTL DEF Spec

\* Stores, tasks, documents and the file keep their shape in every behaviour.
THEOREM TypeCorrect == Spec => []TypeOK
<1>1. IInv => TypeOK
  BY DEF IInv
<1> QED
  BY <1>1, InvariantHolds, PTL

\* A snooze that is ahead always has its timer, through every answer, delivery
\* and restart.
THEOREM SnoozesKeepTheirTimers == Spec => []SnoozesReturn
<1>1. IInv => SnoozesReturn
  BY DEF IInv
<1> QED
  BY <1>1, InvariantHolds, PTL

\* A proposal starts one run at most, see RunsOnce.
THEOREM OneRunEach == Spec => []RunsOnce
<1>1. IInv => RunsOnce
  BY DEF IInv, Once, RunsOnce
<1> QED
  BY <1>1, InvariantHolds, PTL

\* A permission starts no more runs than its limit of a day, whichever tasks
\* evaluate the situation at the same time.
THEOREM BudgetHolds == Spec => []AutoBudget
<1>1. IInv => AutoBudget
  BY DEF IInv, Counted, AutoBudget
<1> QED
  BY <1>1, InvariantHolds, PTL

\* After the user was told that a permission is revoked nothing runs under it.
THEOREM RevocationStands == Spec => RevokedStays
<1>1. IInv /\ [Next]_vars => [\A k \in Key : autos'[k] > autos[k] => k \notin revoked]_vars
  BY NextKeeps DEF Kept
<1> QED
  BY <1>1, InvariantHolds, PTL DEF Spec, RevokedStays

\* The questions keep the promise of AnswerOnce: its initial states are
\* mapped to initial ones, every step to a step, a restart or a stutter.
THEOREM PromiseKept == Spec => KeepsPromise
<1>1. IInv /\ [Next]_vars =>
          [Promise!Step \/ Promise!Restart]_<<1 .. asked, prop, heard>>
  BY NextKeeps DEF Kept
<1>2. Init => Promise!Init
  BY InitHolds
<1> QED
  BY <1>1, <1>2, InvariantHolds, PTL DEF Spec, KeepsPromise, Promise!Spec
-----------------------------------------------------------------------------
(* Open questions are about what is going on.                               *)

\* Of the proposals props, asked about the occurrences of, and but for those
\* that are late, one is open about each occurrence.
Single(props, of, late) ==
    \A p, q \in Proposal :
        props[p] = "pending" /\ p \notin late /\ props[q] = "pending" /\ q \notin late
            /\ of[p] = of[q]
        => p = q

\* What is open is about an occurrence going on, unless a run under a
\* permission was started for its key since the last restart.
GoingOn ==
    \A p \in Proposal :
        Open(p) /\ autos[about[p].key] = 0 => Current(p) /\ Subject(p).state \notin Ended

\* The memory, the file and every document that may become the file have one
\* open question for each occurrence; a run under a permission that is under
\* way was started since the last restart.
OneEach ==
    /\ Single(prop, about, lapsed) /\ Single(file.prop, about, lapsed)
    /\ \A t \in Task : Single(doc[t].prop, about, lapsed)
RunsStarted == \A t \in Task : pc[t] = "auto" => autos[job[t].key] > 0

CurrentInv == GoingOn /\ OneEach /\ RunsStarted

\* A step that asks nothing, or asks one new question and withdraws the others
\* about its occurrence.
NoneAsked ==
    /\ UNCHANGED about
    /\ \A p \in Proposal : prop'[p] = "pending" => prop[p] = "pending"
Asks(k, o) ==
    /\ asked + 1 \in Proposal
    /\ about' = [about EXCEPT ![asked + 1] = [key |-> k, occ |-> o]]
    /\ \A p \in Proposal \ {asked + 1} :
          prop'[p] = "pending" => prop[p] = "pending" /\ p \notin OpenAbout(k, o)
    /\ autos'[k] > 0 \/ (situ'[k].occ = o /\ situ'[k].state \notin Ended)
Questions == NoneAsked \/ \E k \in Key, o \in Nat : Asks(k, o)

\* An occurrence goes on, or was over before, or ends and its open questions
\* with it.
Stays(k) == situ'[k].occ = situ[k].occ /\ situ'[k].state \notin Ended
Withdrawn(k) == \A p \in OpenAbout(k, situ[k].occ) : prop'[p] # "pending"
Situations == \A k \in Key : Stays(k) \/ situ[k].state \in Ended \/ Withdrawn(k)

\* A document says what the memory says, and the file what a document said.
Documents ==
    /\ \A t \in Task : doc'[t].prop \in {doc[t].prop, prop', Empty.prop}
    /\ file'.prop = file.prop \/ \E t \in Task : file'.prop = doc[t].prop

Automatics ==
    /\ \A k \in Key : autos'[k] \in Nat /\ autos'[k] >= autos[k]
    /\ \A t \in Task : pc'[t] = "auto" => autos'[job'[t].key] > 0

Follows ==
    lapsed \subseteq lapsed' /\ Questions /\ Situations /\ Documents /\ Automatics

\* A question asked now is in none of the proposals that were kept before.
LEMMA OldSubjects ==
    ASSUME TypeOK, Questions, NEW p \in Proposal, ~ p > asked
    PROVE  about'[p] = about[p]
<1>1. asked \in Nat /\ p \in Nat /\ about \in [Proposal -> Occurrence]
  BY Constants DEF TypeOK
<1>2. CASE NoneAsked
  BY <1>2 DEF NoneAsked
<1>3. ASSUME NEW k \in Key, NEW o \in Nat, Asks(k, o)
      PROVE  about'[p] = about[p]
  <2>1. p # asked + 1
    BY <1>1
  <2> QED
    BY <1>1, <1>3, <2>1 DEF Asks
<1> QED
  BY <1>2, <1>3 DEF Questions

LEMMA SingleStays ==
    ASSUME TypeOK, Questions, lapsed \subseteq lapsed',
           NEW props, \A p \in Proposal : p > asked => props[p] = "none",
           Single(props, about, lapsed)
    PROVE  Single(props, about', lapsed')
<1> SUFFICES ASSUME NEW p \in Proposal, NEW q \in Proposal,
                    props[p] = "pending", p \notin lapsed',
                    props[q] = "pending", q \notin lapsed', about'[p] = about'[q]
             PROVE  p = q
  BY DEF Single
<1>1. ~ p > asked /\ ~ q > asked
  OBVIOUS
<1>2. about'[p] = about[p] /\ about'[q] = about[q]
  BY <1>1, OldSubjects
<1> QED
  BY <1>2 DEF Single

LEMMA QuestionsSingle ==
    ASSUME TypeOK, Known, Questions, lapsed \subseteq lapsed',
           Single(prop, about, lapsed)
    PROVE  Single(prop', about', lapsed')
<1>1. CASE NoneAsked
  BY <1>1 DEF NoneAsked, Single
<1>2. ASSUME NEW k \in Key, NEW o \in Nat, Asks(k, o)
      PROVE  Single(prop', about', lapsed')
  <2>1. /\ asked + 1 \in Proposal /\ about \in [Proposal -> Occurrence]
        /\ about' = [about EXCEPT ![asked + 1] = [key |-> k, occ |-> o]]
    BY <1>2 DEF Asks, TypeOK
  <2>2. /\ about'[asked + 1] = [key |-> k, occ |-> o]
        /\ \A p \in Proposal \ {asked + 1} : about'[p] = about[p]
    BY <2>1
  <2>3. ASSUME NEW p \in Proposal \ {asked + 1}, prop'[p] = "pending", p \notin lapsed'
        PROVE  /\ prop[p] = "pending" /\ p \notin lapsed
               /\ about[p] # [key |-> k, occ |-> o]
    <3>1. prop[p] = "pending" /\ p \notin OpenAbout(k, o) /\ p \notin lapsed
      BY <1>2, <2>3 DEF Asks
    <3> QED
      BY <3>1 DEF OpenAbout, Open
  <2> SUFFICES ASSUME NEW p \in Proposal, NEW q \in Proposal,
                      prop'[p] = "pending", p \notin lapsed',
                      prop'[q] = "pending", q \notin lapsed', about'[p] = about'[q]
               PROVE  p = q
    BY DEF Single
  <2>4. CASE p = asked + 1 \/ q = asked + 1
    BY <2>2, <2>3, <2>4
  <2>5. CASE p # asked + 1 /\ q # asked + 1
    BY <2>2, <2>3, <2>5 DEF Single
  <2> QED
    BY <2>4, <2>5
<1> QED
  BY <1>1, <1>2 DEF Questions

\* A question that stays open is about what stays.
LEMMA OpenFollows ==
    ASSUME TypeOK, GoingOn, Situations, Automatics,
           NEW p \in Proposal, Open(p), prop'[p] = "pending", about'[p] = about[p],
           autos'[about[p].key] = 0
    PROVE  situ'[about[p].key].occ = about[p].occ /\ situ'[about[p].key].state \notin Ended
<1> DEFINE k == about[p].key
<1>1. k \in Key /\ about[p] = [key |-> k, occ |-> about[p].occ]
  BY DEF TypeOK, Occurrence
<1>2. autos[k] = 0
  BY <1>1 DEF TypeOK, Automatics
<1>3. situ[k].occ = about[p].occ /\ situ[k].state \notin Ended
  BY <1>2 DEF GoingOn, Current, Subject
<1>4. p \in OpenAbout(k, situ[k].occ)
  BY <1>1, <1>3 DEF OpenAbout
<1>5. Stays(k)
  BY <1>1, <1>3, <1>4 DEF Situations, Withdrawn
<1> QED
  BY <1>3, <1>5 DEF Stays

LEMMA FollowsKeeps ==
    ASSUME IInv, CurrentInv, Follows
    PROVE  CurrentInv'
<1>1. /\ TypeOK /\ Known /\ lapsed \subseteq lapsed'
      /\ Questions /\ Situations /\ Documents /\ Automatics
  BY DEF IInv, Follows
<1>2. GoingOn'
  <2>1. ASSUME NEW p \in Proposal, prop'[p] = "pending", p \notin lapsed',
               autos'[about'[p].key] = 0
        PROVE  /\ situ'[about'[p].key].occ = about'[p].occ
               /\ situ'[about'[p].key].state \notin Ended
    <3>1. ASSUME prop[p] = "pending", about'[p] = about[p]
          PROVE  /\ situ'[about'[p].key].occ = about'[p].occ
                 /\ situ'[about'[p].key].state \notin Ended
      <4>1. Open(p)
        BY <1>1, <2>1, <3>1 DEF Open
      <4> QED
        BY <1>1, <2>1, <3>1, <4>1, OpenFollows DEF CurrentInv
    <3>2. CASE NoneAsked
      BY <2>1, <3>1, <3>2 DEF NoneAsked
    <3>3. ASSUME NEW k \in Key, NEW o \in Nat, Asks(k, o)
          PROVE  /\ situ'[about'[p].key].occ = about'[p].occ
                 /\ situ'[about'[p].key].state \notin Ended
      <4>1. /\ about \in [Proposal -> Occurrence]
            /\ about' = [about EXCEPT ![asked + 1] = [key |-> k, occ |-> o]]
        BY <1>1, <3>3 DEF Asks, TypeOK
      <4>2. CASE p = asked + 1
        <5>1. about'[p] = [key |-> k, occ |-> o]
          BY <4>1, <4>2
        <5>2. situ'[k].occ = o /\ situ'[k].state \notin Ended
          BY <2>1, <3>3, <5>1 DEF Asks
        <5> QED
          BY <5>1, <5>2
      <4>3. CASE p # asked + 1
        BY <2>1, <3>1, <3>3, <4>1, <4>3 DEF Asks
      <4> QED
        BY <4>2, <4>3
    <3> QED
      BY <1>1, <3>2, <3>3 DEF Questions
  <2> QED
    BY <2>1 DEF GoingOn, Open, Current, Subject
<1>3. Single(prop', about', lapsed')
  BY <1>1, QuestionsSingle DEF CurrentInv, OneEach
<1>4. Single(file.prop, about', lapsed')
  <2> DEFINE f == file.prop
  <2>1. Single(f, about, lapsed) /\ \A p \in Proposal : p > asked => f[p] = "none"
    BY <1>1 DEF CurrentInv, OneEach, Known
  <2> HIDE DEF f
  <2>2. Single(f, about', lapsed')
    BY <1>1, <2>1, SingleStays
  <2> QED
    BY <2>2 DEF f
<1>5. ASSUME NEW t \in Task
      PROVE  Single(doc[t].prop, about', lapsed')
  <2> DEFINE f == doc[t].prop
  <2>1. Single(f, about, lapsed) /\ \A p \in Proposal : p > asked => f[p] = "none"
    BY <1>1 DEF CurrentInv, OneEach, Known
  <2> HIDE DEF f
  <2>2. Single(f, about', lapsed')
    BY <1>1, <2>1, SingleStays
  <2> QED
    BY <2>2 DEF f
<1>6. Single(Empty.prop, about', lapsed')
  BY DEF Single, Empty
<1>7. OneEach'
  <2>1. Single(file'.prop, about', lapsed')
    BY <1>1, <1>4, <1>5 DEF Documents
  <2>2. \A t \in Task : Single(doc'[t].prop, about', lapsed')
    BY <1>1, <1>3, <1>5, <1>6 DEF Documents
  <2> QED
    BY <1>3, <2>1, <2>2 DEF OneEach
<1>8. RunsStarted'
  BY <1>1 DEF Automatics, RunsStarted
<1> QED
  BY <1>2, <1>7, <1>8 DEF CurrentInv

\* Task t goes on to something other than a run under a permission, and may
\* write down what the memory is now.
GoesOn(t) ==
    /\ \A u \in Task \ {t} : pc'[u] = pc[u] /\ job'[u] = job[u]
    /\ pc'[t] # "auto"
    /\ \A u \in Task : doc'[u].prop \in {doc[u].prop, prop'}

LEMMA SaveGoesOn ==
    ASSUME TypeOK, NEW t \in Task, NEW j, NEW g, Save(t, j, g)
    PROVE  GoesOn(t)
<1> DEFINE d == [situ |-> situ', prop |-> prop', attempts |-> attempts', granted |-> g]
<1>1. /\ pc' = [pc EXCEPT ![t] = "save"] /\ job' = [job EXCEPT ![t] = j]
      /\ doc' = [doc EXCEPT ![t] = d] /\ d.prop = prop'
  BY DEF Save
<1>2. /\ pc \in [Task -> Await] /\ job \in [Task -> Job] /\ doc \in [Task -> Document]
  BY DEF TypeOK
<1> HIDE DEF d
<1>3. /\ pc'[t] = "save" /\ doc'[t] = d
      /\ \A u \in Task \ {t} : pc'[u] = pc[u] /\ job'[u] = job[u] /\ doc'[u] = doc[u]
  BY <1>1, <1>2
<1> QED
  BY <1>1, <1>3 DEF GoesOn

LEMMA StoreGoesOn ==
    ASSUME TypeOK, NEW t \in Task, NEW p, Store(t, p)
    PROVE  GoesOn(t)
<1> DEFINE j == [NoJob EXCEPT !.prop = p]
<1>1. Save(t, j, granted)
  BY DEF Store
<1> HIDE DEF j
<1> QED
  BY <1>1, SaveGoesOn

LEMMA GoingOnKeeps ==
    ASSUME TypeOK, RunsStarted, NEW t \in Task, GoesOn(t), UNCHANGED <<autos, file>>
    PROVE  Documents /\ Automatics
<1>1. Documents
  BY DEF GoesOn, Documents
<1>2. ASSUME NEW u \in Task, pc'[u] = "auto"
      PROVE  autos'[job'[u].key] > 0
  <2>1. u # t /\ pc[u] = "auto" /\ job'[u] = job[u]
    BY <1>2 DEF GoesOn
  <2> QED
    BY <2>1 DEF RunsStarted
<1>3. \A k \in Key : autos'[k] \in Nat /\ autos'[k] >= autos[k]
  BY DEF TypeOK
<1> QED
  BY <1>1, <1>2, <1>3 DEF Automatics

LEMMA CreatedAsks ==
    ASSUME TypeOK, NEW k \in Key, NEW o \in Nat, asked < MaxProposals
    PROVE  /\ asked + 1 \in Proposal
           /\ \A p \in Proposal \ {asked + 1} :
                 Created(k, o)[p] = "pending" => prop[p] = "pending" /\ p \notin OpenAbout(k, o)
<1>1. /\ asked \in Nat /\ MaxProposals \in Nat /\ asked + 1 \in Proposal
      /\ prop \in [Proposal -> ProposalState]
  BY Constants DEF TypeOK, Proposal
<1> DEFINE closed == Close(prop, OpenAbout(k, o))
           props == [closed EXCEPT ![asked + 1] = "pending"]
           V == Victims(props)
<1>2. closed = [p \in Proposal |-> IF p \in OpenAbout(k, o) /\ prop[p] = "pending"
                                   THEN "closed" ELSE prop[p]]
  BY DEF Close
<1>3. Created(k, o) = [p \in Proposal |-> IF p \in V THEN "none" ELSE props[p]]
  BY DEF Created
<1> HIDE DEF V
<1>4. \A p \in Proposal \ {asked + 1} :
         Created(k, o)[p] = IF p \in V THEN "none"
                            ELSE IF p \in OpenAbout(k, o) /\ prop[p] = "pending" THEN "closed"
                            ELSE prop[p]
  BY <1>1, <1>2, <1>3
<1> QED
  BY <1>1, <1>4

LEMMA DecideAsks ==
    ASSUME TypeOK, NEW t \in Task, NEW k \in Key, NEW o \in Nat, NEW quiet,
           Decide(t, k, o, quiet), autos'[k] > 0 \/ situ'[k].occ = o
    PROVE  Questions /\ GoesOn(t)
<1>1. CASE Silent(t)
  <2>1. UNCHANGED <<prop, about>> /\ Store(t, NoProposal)
    BY <1>1 DEF Silent
  <2> QED
    BY <2>1, StoreGoesOn DEF Questions, NoneAsked
<1>2. pc \in [Task -> Await] /\ job \in [Task -> Job] /\ doc \in [Task -> Document]
  BY DEF TypeOK
<1>3. CASE Ask(t, k, o)
  <2>1. /\ asked < MaxProposals /\ prop' = Created(k, o) /\ situ'[k].state \notin Ended
        /\ about' = [about EXCEPT ![asked + 1] = [key |-> k, occ |-> o]]
    BY <1>3 DEF Ask
  <2>2. /\ pc' = [pc EXCEPT ![t] = "deliver"] /\ UNCHANGED doc
        /\ job' = [job EXCEPT ![t] = JobOf(k, o, asked + 1)]
    BY <1>3 DEF Ask
  <2>3. GoesOn(t)
    BY <1>2, <2>2 DEF GoesOn
  <2>4. Asks(k, o)
    BY <2>1, CreatedAsks DEF Asks
  <2> QED
    BY <2>3, <2>4 DEF Questions
<1>4. CASE Tell(t, k, o)
  <2>1. /\ pc' = [pc EXCEPT ![t] = "deliver"] /\ UNCHANGED <<prop, about, doc>>
        /\ job' = [job EXCEPT ![t] = JobOf(k, o, NoProposal)]
    BY <1>4 DEF Tell
  <2> QED
    BY <1>2, <2>1 DEF GoesOn, Questions, NoneAsked
<1> QED
  BY <1>1, <1>3, <1>4 DEF Decide

LEMMA SituationsSet ==
    ASSUME TypeOK, NEW k \in Key, NEW state, state \notin Ended, NEW until,
           situ' = SetState(k, state, until)
    PROVE  Situations
<1>1. situ \in [Key -> Situation]
  BY DEF TypeOK
<1>2. \A l \in Key \ {k} : situ'[l] = situ[l]
  BY <1>1 DEF SetState
<1>3. situ[k].state \in Ended \/ Stays(k)
  BY <1>1 DEF SetState, Situation, Stays
<1> QED
  BY <1>2, <1>3 DEF Situations, Stays

LEMMA SituationsStay ==
    ASSUME UNCHANGED situ
    PROVE  Situations
BY DEF Situations, Stays

LEMMA EvaluateFollows ==
    ASSUME TypeOK, RunsStarted, NEW t \in Task, NEW k \in Key,
           NEW s \in [Key -> Situation], NEW c, NEW ripe, NEW auto,
           Evaluate(t, k, s, c, ripe, auto), UNCHANGED <<file, lapsed>>,
           \A l \in Key : (s[l].occ = situ[l].occ /\ s[l].state \notin Ended)
                             \/ situ[l].state \in Ended
    PROVE  Follows
<1>1. situ' = s /\ s[k].occ \in Nat
  BY DEF Evaluate, Situation
<1>2. Situations
  BY <1>1 DEF Situations, Stays
<1>3. CASE UNCHANGED autos /\ Silent(t)
  <2>1. UNCHANGED <<prop, about>> /\ Store(t, NoProposal)
    BY <1>3 DEF Silent
  <2>2. Documents /\ Automatics
    BY <1>3, <2>1, StoreGoesOn, GoingOnKeeps
  <2> QED
    BY <1>2, <2>1, <2>2 DEF Follows, Questions, NoneAsked
<1>4. CASE UNCHANGED autos /\ Decide(t, k, s[k].occ, Quiet(s[k]))
  <2>1. Questions /\ GoesOn(t)
    BY <1>1, <1>4, DecideAsks
  <2> QED
    BY <1>2, <1>4, <2>1, GoingOnKeeps DEF Follows
<1>5. CASE /\ autos' = [autos EXCEPT ![k] = @ + 1]
           /\ pc' = [pc EXCEPT ![t] = "auto"]
           /\ job' = [job EXCEPT ![t] = [JobOf(k, s[k].occ, NoProposal)
                                         EXCEPT !.quiet = Quiet(s[k])]]
           /\ UNCHANGED <<prop, about, doc>>
  <2> DEFINE j == [JobOf(k, s[k].occ, NoProposal) EXCEPT !.quiet = Quiet(s[k])]
  <2>1. j.key = k /\ job' = [job EXCEPT ![t] = j]
    BY <1>5 DEF JobOf
  <2> HIDE DEF j
  <2>2. /\ pc \in [Task -> Await] /\ job \in [Task -> Job] /\ autos \in [Key -> Nat]
    BY DEF TypeOK
  <2>3. /\ \A l \in Key : autos'[l] \in Nat /\ autos'[l] >= autos[l]
        /\ autos'[k] > 0
    BY <1>5, <2>2
  <2>4. /\ job'[t].key = k
        /\ \A u \in Task \ {t} : pc'[u] = pc[u] /\ job'[u] = job[u] /\ job[u].key \in Key
    BY <1>5, <2>1, <2>2 DEF Job
  <2>5. ASSUME NEW u \in Task, pc'[u] = "auto"
        PROVE  autos'[job'[u].key] > 0
    <3>1. CASE u = t
      BY <2>3, <2>4, <3>1
    <3>2. CASE u # t
      <4>1. autos[job[u].key] > 0 /\ job[u].key \in Key /\ job'[u] = job[u]
        BY <2>4, <2>5, <3>2 DEF RunsStarted
      <4> QED
        BY <2>2, <2>3, <4>1
    <3> QED
      BY <3>1, <3>2
  <2>6. Documents /\ Automatics
    BY <1>5, <2>3, <2>5 DEF Documents, Automatics
  <2> QED
    BY <1>2, <1>5, <2>6 DEF Follows, Questions, NoneAsked
<1> QED
  BY <1>3, <1>4, <1>5 DEF Evaluate

LEMMA ClosesNone ==
    ASSUME TypeOK, UNCHANGED about, NEW S, prop' = Close(prop, S)
    PROVE  /\ Questions
           /\ \A p \in S \cap Proposal : prop'[p] # "pending"
BY DEF TypeOK, Close, Questions, NoneAsked

LEMMA ResolveFollows ==
    ASSUME TypeOK, RunsStarted, NEW t \in Task, NEW k \in Key, Resolve(t, k),
           UNCHANGED <<file, lapsed>>
    PROVE  Follows
<1>1. /\ situ' = SetState(k, "over", "none")
      /\ prop' = Close(prop, OpenAbout(k, situ[k].occ))
      /\ UNCHANGED <<about, autos>> /\ Store(t, NoProposal)
  BY DEF Resolve
<1>2. Questions /\ Withdrawn(k)
  <2>1. OpenAbout(k, situ[k].occ) \subseteq Proposal
    BY DEF OpenAbout
  <2> QED
    BY <1>1, <2>1, ClosesNone DEF Withdrawn
<1>3. \A l \in Key \ {k} : situ'[l] = situ[l]
  BY <1>1 DEF TypeOK, SetState
<1>4. Situations
  BY <1>2, <1>3 DEF Situations, Stays
<1>5. Documents /\ Automatics
  BY <1>1, StoreGoesOn, GoingOnKeeps
<1> QED
  BY <1>2, <1>4, <1>5 DEF Follows

\* Nothing comes of it.
LEMMA StaysFollows ==
    ASSUME TypeOK, RunsStarted, Situations, lapsed \subseteq lapsed',
           UNCHANGED <<prop, about, pc, job, doc, file, autos>>
    PROVE  Follows
<1>1. Documents /\ Automatics
  BY DEF TypeOK, RunsStarted, Documents, Automatics
<1> QED
  BY <1>1 DEF Follows, Questions, NoneAsked

LEMMA RecheckFollows ==
    ASSUME TypeOK, RunsStarted, NEW t \in Task, NEW k \in Key,
           NEW s \in [Key -> Situation], NEW c, NEW w, NEW ripe, NEW auto,
           Recheck(t, k, s, c, w, ripe, auto), UNCHANGED <<file, lapsed>>,
           \A l \in Key : s[l].occ = situ[l].occ /\ s[l].state = situ[l].state
    PROVE  Follows
<1>1. CASE situ' = s /\ UNCHANGED <<prop, about, tasks, doc, autos>>
  <2>1. Situations
    BY <1>1 DEF Situations, Stays
  <2> QED
    BY <1>1, <2>1, StaysFollows DEF tasks
<1>2. CASE Resolve(t, k)
  BY <1>2, ResolveFollows
<1>3. CASE Evaluate(t, k, IF s[k].state = "snoozed" /\ s[k].until # "ahead"
                          THEN SetState(k, "active", "none") ELSE s, c, ripe, auto)
  <2> DEFINE z == IF s[k].state = "snoozed" /\ s[k].until # "ahead"
                  THEN SetState(k, "active", "none") ELSE s
  <2>1. z \in [Key -> Situation]
    BY StateTypes DEF SituationState
  <2>2. \A l \in Key : (z[l].occ = situ[l].occ /\ z[l].state \notin Ended)
                          \/ situ[l].state \in Ended
    BY DEF TypeOK, SetState, Situation, Ended
  <2>3. Evaluate(t, k, z, c, ripe, auto)
    BY <1>3
  <2> HIDE DEF z
  <2> QED
    BY <2>1, <2>2, <2>3, EvaluateFollows
<1> QED
  BY <1>1, <1>2, <1>3 DEF Recheck

LEMMA ObserveFollows ==
    ASSUME IInv, CurrentInv, NEW t \in Task, NEW k \in Key, Observe(t, k)
    PROVE  Follows
<1>1. /\ TypeOK /\ RunsStarted /\ UNCHANGED <<lapsed, file>> /\ lapsed \subseteq lapsed'
      /\ situ \in [Key -> Situation] /\ born \in [Key -> Nat]
  BY DEF Observe, IInv, TypeOK, CurrentInv
<1>2. CASE Resolve(t, k)
  BY <1>1, <1>2, ResolveFollows
<1>3. CASE UNCHANGED <<memory, timers, tasks, doc, queue, autos>>
  <2>1. Situations
    BY <1>3, SituationsStay DEF memory
  <2> QED
    BY <1>1, <1>3, <2>1, StaysFollows DEF memory, tasks
<1>4. CASE Evaluate(t, k, situ, check, situ[k].state # "active", TRUE)
  <2>1. \A l \in Key : (situ[l].occ = situ[l].occ /\ situ[l].state \notin Ended)
                          \/ situ[l].state \in Ended
    OBVIOUS
  <2> DEFINE ripe == situ[k].state # "active"
             s == situ
  <2>2. /\ Evaluate(t, k, s, check, ripe, TRUE) /\ s \in [Key -> Situation]
        /\ \A l \in Key : (s[l].occ = situ[l].occ /\ s[l].state \notin Ended)
                             \/ situ[l].state \in Ended
    BY <1>1, <1>4, <2>1
  <2> HIDE DEF ripe, s
  <2> QED
    BY <1>1, <2>2, EvaluateFollows
<1>5. CASE /\ situ[k].state \in Ended
           /\ Evaluate(t, k, [situ EXCEPT ![k] = [occ |-> born[k] + 1,
                                                  state |-> "active", until |-> "none"]],
                       check, FALSE, TRUE)
  <2> DEFINE s == [situ EXCEPT ![k] = [occ |-> born[k] + 1,
                                       state |-> "active", until |-> "none"]]
  <2>1. /\ s \in [Key -> Situation]
        /\ \A l \in Key : (s[l].occ = situ[l].occ /\ s[l].state \notin Ended)
                             \/ situ[l].state \in Ended
    BY <1>1, <1>5 DEF Situation, SituationState
  <2>2. Evaluate(t, k, s, check, FALSE, TRUE)
    BY <1>5
  <2> HIDE DEF s
  <2> QED
    BY <1>1, <2>1, <2>2, EvaluateFollows
<1> QED
  BY <1>2, <1>3, <1>4, <1>5 DEF Observe

LEMMA CheckFiresFollows ==
    ASSUME IInv, CurrentInv, NEW t \in Task, NEW k \in Key, CheckFires(t, k)
    PROVE  Follows
<1> DEFINE c == [check EXCEPT ![k] = "off"]
           on == check[k] = "on"
           s == situ
<1>1. /\ TypeOK /\ RunsStarted /\ UNCHANGED <<lapsed, file>>
      /\ s \in [Key -> Situation] /\ Recheck(t, k, s, c, wake, on, on)
      /\ \A l \in Key : s[l].occ = situ[l].occ /\ s[l].state = situ[l].state
  BY DEF CheckFires, IInv, TypeOK, CurrentInv
<1> HIDE DEF c, on, s
<1> QED
  BY <1>1, RecheckFollows

LEMMA WakeFiresFollows ==
    ASSUME IInv, CurrentInv, NEW t \in Task, NEW k \in Key, WakeFires(t, k)
    PROVE  Follows
<1> DEFINE s == IF situ[k].state = "snoozed" THEN SetState(k, "snoozed", "past") ELSE situ
           w == [wake EXCEPT ![k] = FALSE]
<1>1. /\ TypeOK /\ RunsStarted /\ UNCHANGED <<lapsed, file>>
      /\ situ \in [Key -> Situation] /\ Recheck(t, k, s, check, w, TRUE, FALSE)
  BY DEF WakeFires, IInv, TypeOK, CurrentInv
<1>2. s \in [Key -> Situation]
  BY <1>1, StateTypes DEF SituationState
<1>3. \A l \in Key : s[l].occ = situ[l].occ /\ s[l].state = situ[l].state
  BY <1>1 DEF SetState, Situation, Ended
<1> HIDE DEF s, w
<1> QED
  BY <1>1, <1>2, <1>3, RecheckFollows

\* An answer closes its question, and may set the situation.
LEMMA AnswerFollows ==
    ASSUME TypeOK, RunsStarted, NEW t \in Task, NEW p \in Proposal,
           prop' = [prop EXCEPT ![p] = "closed"], UNCHANGED <<about, autos, file, lapsed>>,
           Store(t, p), Situations
    PROVE  Follows
<1>1. Documents /\ Automatics
  BY StoreGoesOn, GoingOnKeeps
<1>2. Questions
  BY DEF TypeOK, Questions, NoneAsked
<1> QED
  BY <1>1, <1>2 DEF Follows

LEMMA LaterFollows ==
    ASSUME IInv, CurrentInv, NEW t \in Task, NEW p \in Proposal, Later(t, p)
    PROVE  Follows
<1> DEFINE k == about[p].key
<1>1. /\ TypeOK /\ RunsStarted /\ prop' = [prop EXCEPT ![p] = "closed"] /\ Store(t, p)
      /\ UNCHANGED <<about, autos, file, lapsed>> /\ k \in Key
      /\ situ' = SetState(k, "snoozed", "ahead") \/ UNCHANGED situ
  BY SubjectType DEF Later, IInv, CurrentInv, counts
<1> HIDE DEF k
<1>2. Situations
  BY <1>1, SituationsSet, SituationsStay DEF Ended
<1> QED
  BY <1>1, <1>2, AnswerFollows

LEMMA RefuseFollows ==
    ASSUME IInv, CurrentInv, NEW t \in Task, NEW p \in Proposal, Refuse(t, p)
    PROVE  Follows
<1> DEFINE k == about[p].key
<1>1. /\ TypeOK /\ RunsStarted /\ prop' = [prop EXCEPT ![p] = "closed"] /\ Store(t, p)
      /\ UNCHANGED <<about, autos, file, lapsed>> /\ k \in Key
      /\ situ' = SetState(k, "acked", "none") \/ UNCHANGED situ
  BY SubjectType DEF Refuse, Acknowledged, IInv, CurrentInv, counts
<1> HIDE DEF k
<1>2. Situations
  BY <1>1, SituationsSet, SituationsStay DEF Ended
<1> QED
  BY <1>1, <1>2, AnswerFollows

LEMMA AcceptFollows ==
    ASSUME IInv, CurrentInv, NEW t \in Task, NEW p \in Proposal, Accept(t, p)
    PROVE  Follows
<1> DEFINE k == about[p].key
           o == about[p].occ
<1>1. /\ TypeOK /\ RunsStarted /\ UNCHANGED <<about, autos, file, lapsed>> /\ k \in Key
      /\ lapsed \subseteq lapsed'
  BY SubjectType DEF Accept, IInv, CurrentInv
<1>2. \/ /\ prop' = Claimed(p) /\ UNCHANGED <<situ, doc>>
         /\ pc' = [pc EXCEPT ![t] = "run"] /\ job' = [job EXCEPT ![t] = JobOf(k, o, p)]
      \/ /\ situ' = SetState(k, "acked", "none") \/ UNCHANGED situ
         /\ prop' = [prop EXCEPT ![p] = "closed"] /\ Store(t, p)
  BY DEF Accept, Acknowledged
<1> HIDE DEF k, o
<1>3. CASE /\ prop' = Claimed(p) /\ UNCHANGED <<situ, doc>>
           /\ pc' = [pc EXCEPT ![t] = "run"] /\ job' = [job EXCEPT ![t] = JobOf(k, o, p)]
  <2>1. GoesOn(t)
    BY <1>1, <1>3 DEF TypeOK, GoesOn
  <2>2. Questions
    BY <1>1, <1>3 DEF TypeOK, Claimed, Questions, NoneAsked
  <2> QED
    BY <1>1, <1>3, <2>1, <2>2, GoingOnKeeps, SituationsStay DEF Follows
<1>4. CASE /\ situ' = SetState(k, "acked", "none") \/ UNCHANGED situ
           /\ prop' = [prop EXCEPT ![p] = "closed"] /\ Store(t, p)
  <2>1. Situations
    BY <1>1, <1>4, SituationsSet, SituationsStay DEF Ended
  <2> QED
    BY <1>1, <1>4, <2>1, AnswerFollows
<1> QED
  BY <1>2, <1>3, <1>4

LEMMA RevokeFollows ==
    ASSUME IInv, CurrentInv, NEW t \in Task, Revoke(t)
    PROVE  Follows
<1> DEFINE j == [NoJob EXCEPT !.revoke = granted]
<1>1. /\ TypeOK /\ RunsStarted /\ Save(t, j, {})
      /\ UNCHANGED <<situ, prop, about, autos, file, lapsed>>
  BY DEF Revoke, IInv, CurrentInv, counts
<1> HIDE DEF j
<1>2. Documents /\ Automatics
  BY <1>1, SaveGoesOn, GoingOnKeeps
<1> QED
  BY <1>1, <1>2, SituationsStay DEF Follows, Questions, NoneAsked

LEMMA RunEndsFollows ==
    ASSUME IInv, CurrentInv, NEW t \in Task, RunEnds(t)
    PROVE  Follows
<1> DEFINE p == job[t].prop
           k == job[t].key
<1>1. /\ TypeOK /\ RunsStarted /\ Store(t, p) /\ k \in Key
      /\ prop' = [prop EXCEPT ![p] = IF @ = "executing" THEN "closed" ELSE @]
      /\ situ' = SetState(k, "acked", "none")
      /\ UNCHANGED <<about, autos, file, lapsed>>
  BY DEF RunEnds, Acknowledged, IInv, CurrentInv, TypeOK, Job, counts
<1> HIDE DEF p, k
<1>2. Situations
  BY <1>1, SituationsSet DEF Ended
<1>3. Documents /\ Automatics
  BY <1>1, StoreGoesOn, GoingOnKeeps
<1>4. Questions
  BY <1>1 DEF TypeOK, Questions, NoneAsked
<1> QED
  BY <1>1, <1>2, <1>3, <1>4 DEF Follows

LEMMA DeliveredFollows ==
    ASSUME IInv, CurrentInv, NEW t \in Task, Delivered(t)
    PROVE  Follows
<1> DEFINE k == job[t].key
<1>1. /\ TypeOK /\ RunsStarted /\ Store(t, NoProposal) /\ k \in Key
      /\ UNCHANGED <<about, autos, file, lapsed>>
      /\ \/ situ' = Communicated(k) /\ UNCHANGED prop
         \/ prop' = Close(prop, {job[t].prop}) /\ UNCHANGED situ
  BY DEF Delivered, IInv, CurrentInv, TypeOK, Job, counts
<1> HIDE DEF k
<1>2. Situations
  <2>1. CASE situ' = Communicated(k)
    <3>1. PICK state \in {"acked", "told"} : situ' = SetState(k, state, "none")
      BY <2>1 DEF Communicated
    <3> QED
      BY <1>1, <3>1, SituationsSet DEF Ended
  <2> QED
    BY <1>1, <2>1, SituationsStay
<1>3. Documents /\ Automatics
  BY <1>1, StoreGoesOn, GoingOnKeeps
<1>4. Questions
  BY <1>1, ClosesNone DEF Questions, NoneAsked
<1> QED
  BY <1>1, <1>2, <1>3, <1>4 DEF Follows

LEMMA AutoEndsFollows ==
    ASSUME IInv, CurrentInv, NEW t \in Task, AutoVerified(t) \/ AutoFailed(t)
    PROVE  Follows
<1>1. /\ TypeOK /\ RunsStarted /\ pc[t] = "auto" /\ UNCHANGED <<situ, autos, file, lapsed>>
      /\ job[t].key \in Key /\ job[t].occ \in Nat
  BY DEF AutoVerified, AutoFailed, IInv, CurrentInv, TypeOK, Job, counts
<1>2. autos'[job[t].key] > 0
  BY <1>1 DEF RunsStarted
<1>3. Questions /\ GoesOn(t)
  <2>1. CASE Silent(t)
    <3>1. UNCHANGED <<prop, about>> /\ Store(t, NoProposal)
      BY <2>1 DEF Silent
    <3> QED
      BY <1>1, <3>1, StoreGoesOn DEF Questions, NoneAsked
  <2>2. CASE Decide(t, job[t].key, job[t].occ, job[t].quiet)
    BY <1>1, <1>2, <2>2, DecideAsks
  <2> QED
    BY <2>1, <2>2 DEF AutoVerified, AutoFailed
<1> QED
  BY <1>1, <1>3, GoingOnKeeps, SituationsStay DEF Follows

LEMMA WritingFollows ==
    ASSUME IInv, CurrentInv, NEW t \in Task, Written(t) \/ NotWritten(t)
    PROVE  Follows
<1>1. /\ TypeOK /\ RunsStarted
      /\ Write(t) \/ Fail(t)
      /\ UNCHANGED <<situ, prop, about, autos, lapsed>>
      /\ pc' = [pc EXCEPT ![t] = "idle"] /\ job' = [job EXCEPT ![t] = NoJob]
  BY DEF Written, NotWritten, Finish, IInv, CurrentInv, memory, counts
<1>2. Documents
  BY <1>1 DEF TypeOK, Write, Fail, Documents
<1>3. Automatics
  <2>1. ASSUME NEW u \in Task, pc'[u] = "auto"
        PROVE  autos'[job'[u].key] > 0
    <3>1. pc[u] = "auto" /\ job'[u] = job[u]
      BY <1>1, <2>1 DEF TypeOK
    <3> QED
      BY <1>1, <3>1 DEF RunsStarted
  <2>2. \A k \in Key : autos'[k] \in Nat /\ autos'[k] >= autos[k]
    BY <1>1 DEF TypeOK
  <2> QED
    BY <2>1, <2>2 DEF Automatics
<1> QED
  BY <1>1, <1>2, <1>3, SituationsStay DEF Follows, Questions, NoneAsked

LEMMA AroundFollows ==
    ASSUME IInv, CurrentInv, lapsed \subseteq lapsed',
           UNCHANGED <<memory, tasks, disk, counts>>
    PROVE  Follows
<1>1. TypeOK /\ RunsStarted
  BY DEF IInv, CurrentInv
<1>2. UNCHANGED <<situ, prop, about, pc, job, doc, file, autos>>
  BY DEF memory, tasks, disk, counts
<1> QED
  BY <1>1, <1>2, SituationsStay, StaysFollows

\* A restart takes from the file what is about something going on, and no run
\* under a permission is left.
LEMMA RestartCurrent ==
    ASSUME IInv, CurrentInv, NEW t \in Task, Restart(t)
    PROVE  CurrentInv'
<1> DEFINE S == {p \in Proposal : ~ Backed(p, situ')}
           d == [situ |-> situ', prop |-> prop', attempts |-> attempts',
                 granted |-> granted']
<1>1. /\ prop' = Close(file.prop, S)
      /\ pc' = [u \in Task |-> IF u = t THEN "save" ELSE "idle"]
      /\ doc' = [u \in Task |-> IF u # t THEN Empty ELSE d]
      /\ UNCHANGED <<about, lapsed, file>>
  BY DEF Restart
<1>2. Single(file.prop, about, lapsed)
  BY DEF CurrentInv, OneEach
<1>3. d.prop = prop'
  OBVIOUS
<1> HIDE DEF S, d
<1>4. \A p \in Proposal : prop'[p] = "pending" => file.prop[p] = "pending" /\ p \notin S
  BY <1>1 DEF Close
<1>5. Single(prop', about, lapsed)
  BY <1>2, <1>4 DEF Single
<1>6. Single(Empty.prop, about, lapsed)
  BY DEF Single, Empty
<1>7. OneEach'
  BY <1>1, <1>2, <1>3, <1>5, <1>6 DEF OneEach
<1>8. GoingOn'
  BY <1>1, <1>4 DEF S, Backed, GoingOn, Open, Current, Subject
<1>9. RunsStarted'
  BY <1>1 DEF RunsStarted
<1> QED
  BY <1>7, <1>8, <1>9 DEF CurrentInv

LEMMA CurrentInit == Init => CurrentInv
<1> SUFFICES ASSUME Init PROVE CurrentInv
  OBVIOUS
<1> DEFINE d == [Empty EXCEPT !.granted = granted]
<1>1. d.prop = Empty.prop /\ \A p \in Proposal : Empty.prop[p] = "none"
  BY DEF Empty
<1>2. file = d /\ prop = Empty.prop /\ \A t \in Task : doc[t] = Empty /\ pc[t] = "idle"
  BY DEF Init
<1> HIDE DEF d
<1>3. OneEach /\ GoingOn
  BY <1>1, <1>2 DEF OneEach, Single, GoingOn, Open
<1> QED
  BY <1>2, <1>3 DEF CurrentInv, RunsStarted

LEMMA CurrentNext ==
    ASSUME IInv, CurrentInv, [Next]_vars
    PROVE  CurrentInv'
<1>1. CASE UNCHANGED vars
  <2>1. UNCHANGED <<memory, lapsed, tasks, disk, counts>> /\ lapsed \subseteq lapsed'
    BY <1>1 DEF vars
  <2> QED
    BY <2>1, AroundFollows, FollowsKeeps
<1>2. ASSUME NEW t \in Task, Start(t)
      PROVE  CurrentInv'
  BY <1>2, ObserveFollows, CheckFiresFollows, WakeFiresFollows, FollowsKeeps DEF Start
<1>3. ASSUME NEW t \in Task, Answer(t)
      PROVE  CurrentInv'
  BY <1>3, AcceptFollows, LaterFollows, RefuseFollows, RevokeFollows, FollowsKeeps
  DEF Answer
<1>4. ASSUME NEW t \in Task, Return(t)
      PROVE  CurrentInv'
  BY <1>4, DeliveredFollows, RunEndsFollows, AutoEndsFollows, WritingFollows, FollowsKeeps
  DEF Return
<1>5. ASSUME NEW k \in Key, Change(k)
      PROVE  CurrentInv'
  <2>1. UNCHANGED <<memory, lapsed, tasks, disk, counts>> /\ lapsed \subseteq lapsed'
    BY <1>5 DEF Change
  <2> QED
    BY <2>1, AroundFollows, FollowsKeeps
<1>6. ASSUME NEW p \in Proposal, Lapse(p)
      PROVE  CurrentInv'
  <2>1. UNCHANGED <<memory, tasks, disk, counts>> /\ lapsed \subseteq lapsed'
    BY <1>6 DEF Lapse
  <2> QED
    BY <2>1, AroundFollows, FollowsKeeps
<1> QED
  BY <1>1, <1>2, <1>3, <1>4, <1>5, <1>6, RestartCurrent DEF Next

\* A question that can still be answered is about the occurrence that is going
\* on, and the only one about it, through every end, restart and failed write;
\* for a key under whose permission a run was started the first part is not
\* claimed.  See OpenIsCurrent.
THEOREM OpenQuestionsAreCurrent == Spec => []OpenIsCurrent
<1>1. IInv /\ CurrentInv /\ [Next]_vars => CurrentInv'
  BY CurrentNext
<1>2. CurrentInv => OpenIsCurrent
  BY DEF CurrentInv, GoingOn, OneEach, Single, Open, OpenIsCurrent
<1> QED
  BY <1>1, <1>2, CurrentInit, InvariantHolds, PTL DEF Spec
=============================================================================
