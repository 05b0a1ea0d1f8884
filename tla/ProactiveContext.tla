-------------------------- MODULE ProactiveContext --------------------------
(* Situations the house should talk about: a door left open, lights left on *)
(* by somebody who left.  A situation is looked at when an event reports it, *)
(* when it has lasted long enough and when a snooze ends; its lights may be  *)
(* turned off under a standing permission, or somebody is told of it or      *)
(* asked.  A question is a proposal that one answer, spoken or tapped, can   *)
(* claim.  All of it is written to one file as a whole, and every write has  *)
(* a newer generation.                                                       *)
(*                                                                           *)
(* The event loop switches tasks only where one really suspends: while       *)
(* messages are delivered, while a run changes devices and while the thread  *)
(* writes the file.  What lies between two of these is one action.           *)
(* Whether a message is worth it (duration, cooldown, budget, quiet hours,   *)
(* mutes, habits, rooms) and who may answer is left to choice: those         *)
(* policies change nothing that the properties tell apart.                   *)
EXTENDS Integers, Sequences, FiniteSets, SequencesExt

CONSTANTS
    Key,           \* dedupe keys: one door or area of a kind of situation
    Task,          \* tasks of the event loop
    MaxProposals,  \* bound: questions asked, numbered in order
    Capacity,      \* MAX_PROPOSALS of the proposal store
    MaxAttempts,   \* max_executions_per_day of a permission
    MaxChanges,    \* bound: changes of doors
    MaxRestarts    \* bound: restarts of Home Assistant

Proposal == 1 .. MaxProposals
NoProposal == 0

ASSUME KeyAssumption == Key # {}
ASSUME BoundAssumption ==
    /\ MaxProposals \in Nat /\ Capacity \in Nat \ {0} /\ MaxAttempts \in Nat
    /\ MaxChanges \in Nat /\ MaxRestarts \in Nat

VARIABLES
    lights,     \* the keys that are about lights; the others are doors
    granted,    \* StandingPermissionStore: the keys with a permission
    revoked,    \* the keys whose permission a user was told is revoked
    live,       \* whether the condition of each key holds in Home Assistant
    news,       \* the state change of it no handler has seen yet
    situ,       \* SituationStore: the occurrence each key is at
    born,       \* occurrences each key has had
    prop,       \* ProposalStore: the state of every proposal
    about,      \* the key and occurrence it asks about
    asked,      \* proposals created so far
    lapsed,     \* those whose expires_at has passed
    attempts,   \* StandingPermissionStore: attempts of today
    check,      \* the timers check:<key>
    wake,       \* the timers snooze:<key>
    pc,         \* the await each task is suspended at
    job,        \* what it holds across it
    doc,        \* the document it writes
    queue,      \* tasks whose write no newer one has overtaken, oldest first
    file,       \* the document on disk
    heard,      \* proposals whose outcome a user was told
    started,    \* runs started for each proposal, see Restart
    autos,      \* runs started under a permission since the last restart
    changes,    \* changes so far
    restarts    \* restarts so far

world  == <<lights, live, news, changes>>
memory == <<situ, born, prop, about, asked, attempts, granted>>
timers == <<check, wake>>
tasks  == <<pc, job>>
disk   == <<doc, queue, file>>
counts == <<heard, started, autos, revoked>>
vars == <<world, memory, lapsed, timers, tasks, disk, counts, restarts>>

Live == {"on", "off", "unknown"}
\* still_active cannot decide about a door that is unavailable, but always
\* about lights and the people who left.
Values(k) == IF k \in lights THEN {"on", "off"} ELSE Live

\* An unavailable door is no signal.
Event(v) == IF v = "unknown" THEN "seen" ELSE v

SituationState == {"none", "active", "told", "acked", "snoozed", "over"}
Situation == {s \in [occ : Nat, state : SituationState, until : {"none", "ahead", "past"}] :
                 s.state = "snoozed" <=> s.until # "none"}
NoSituation == [occ |-> 0, state |-> "none", until |-> "none"]
Ended == {"none", "over"}

ProposalState == {"none", "pending", "executing", "closed"}
Document == [situ : [Key -> Situation], prop : [Proposal -> ProposalState],
             attempts : [Key -> Nat], granted : SUBSET Key]
Empty == [situ |-> [k \in Key |-> NoSituation],
          prop |-> [p \in Proposal |-> "none"],
          attempts |-> [k \in Key |-> 0], granted |-> {}]

Occurrence == [key : Key, occ : Nat]

\* What a task keeps across an await: the occurrence it deals with, whether
\* that was quiet when it was read, the proposal, and the permissions that
\* are being revoked.
Job == [key : Key, occ : Nat, quiet : BOOLEAN, prop : Proposal \cup {NoProposal},
        revoke : SUBSET Key]
JobOf(k, o, p) == [key |-> k, occ |-> o, quiet |-> FALSE, prop |-> p,
                   revoke |-> {}]
SomeKey == CHOOSE k \in Key : TRUE
NoJob == JobOf(SomeKey, 0, NoProposal)
Await == {"idle", "deliver", "run", "auto", "save"}

Init ==
    /\ lights \in SUBSET Key
    /\ granted = lights
    /\ revoked = {}
    /\ live = [k \in Key |-> "on"]
    /\ news = [k \in Key |-> "on"]
    /\ situ = Empty.situ
    /\ born = [k \in Key |-> 0]
    /\ prop = Empty.prop
    /\ about = [p \in Proposal |-> [key |-> SomeKey, occ |-> 0]]
    /\ asked = 0
    /\ lapsed = {}
    /\ attempts = Empty.attempts
    /\ check = [k \in Key |-> "off"]
    /\ wake = [k \in Key |-> FALSE]
    /\ pc = [t \in Task |-> "idle"]
    /\ job = [t \in Task |-> NoJob]
    /\ doc = [t \in Task |-> Empty]
    /\ queue = <<>>
    /\ file = [Empty EXCEPT !.granted = granted]
    /\ heard = {}
    /\ started = [p \in Proposal |-> 0]
    /\ autos = [k \in Key |-> 0]
    /\ changes = 0
    /\ restarts = 0

-----------------------------------------------------------------------------
(* The stores.                                                              *)

Open(p) == prop[p] = "pending" /\ p \notin lapsed
Subject(p) == situ[about[p].key]
\* SituationStore.by_id finds an occurrence only while it is its key's last.
Current(p) == Subject(p).occ = about[p].occ
\* A slip: those whose time has passed are withdrawn, not the open ones.
OpenAbout_Slip(k, o) ==
    {p \in lapsed : prop[p] = "pending" /\ about[p] = [key |-> k, occ |-> o]}
OpenAbout(k, o) == {p \in Proposal : Open(p) /\ about[p] = [key |-> k, occ |-> o]}
Close(props, S) ==
    [p \in Proposal |-> IF p \in S /\ props[p] = "pending" THEN "closed" ELSE props[p]]

\* set_state leaves a key alone whose last occurrence is over.
SetState(k, state, until) ==
    [situ EXCEPT ![k] = IF @.state \in Ended THEN @
                        ELSE [@ EXCEPT !.state = state, !.until = until]]
\* A slip: the time of the snooze stays.
Communicated_Slip(k) ==
    SetState(k, IF situ[k].state = "acked" THEN "acked" ELSE "told", situ[k].until)
\* mark_communicated: an acknowledged situation stays so, a snoozed one not.
Communicated(k) ==
    SetState(k, IF situ[k].state = "acked" THEN "acked" ELSE "told", "none")
Acknowledged(k) == SetState(k, "acked", "none")

\* A device that another task's run holds is an active goal's.
Busy(t, k) == \E u \in Task \ {t} : pc[u] \in {"run", "auto"} /\ job[u].key = k
Quiet(s) == s.state = "acked" \/ (s.state = "snoozed" /\ s.until = "ahead")

\* async_persist: the document is built here, a thread writes it; j is what
\* the task remembers meanwhile, g the permissions there are now.
Save(t, j, g) ==
    /\ pc' = [pc EXCEPT ![t] = "save"]
    /\ job' = [job EXCEPT ![t] = j]
    /\ doc' = [doc EXCEPT ![t] = [situ |-> situ', prop |-> prop',
                                  attempts |-> attempts', granted |-> g]]
    /\ queue' = Append(queue, t)
Store(t, p) == Save(t, [NoJob EXCEPT !.prop = p], granted)

-----------------------------------------------------------------------------
(* Evaluation of a situation.                                               *)

\* ProposalStore.create: an open question about the occurrence is replaced,
\* and a full store forgets its oldest proposal, a closed one if there is one.
Stored(props) == {p \in Proposal : props[p] # "none"}
Victims(props) ==
    IF Cardinality(Stored(props)) <= Capacity THEN {}
    ELSE LET spare == {p \in Stored(props) : props[p] # "pending"}
             from == IF spare = {} THEN Stored(props) ELSE spare
         IN  {p \in from : \A q \in from : p <= q}
Created(k, o) ==
    LET props == [Close(prop, OpenAbout(k, o)) EXCEPT ![asked + 1] = "pending"]
    IN  [p \in Proposal |-> IF p \in Victims(props) THEN "none" ELSE props[p]]

Ask(t, k, o) ==
    /\ asked < MaxProposals /\ situ'[k].state \notin Ended
    /\ asked' = asked + 1
    /\ about' = [about EXCEPT ![asked + 1] = [key |-> k, occ |-> o]]
    /\ prop' = Created(k, o)
    /\ job' = [job EXCEPT ![t] = JobOf(k, o, asked + 1)]
    /\ pc' = [pc EXCEPT ![t] = "deliver"]
    /\ UNCHANGED <<doc, queue>>

Tell(t, k, o) ==
    /\ job' = [job EXCEPT ![t] = JobOf(k, o, NoProposal)]
    /\ pc' = [pc EXCEPT ![t] = "deliver"]
    /\ UNCHANGED <<prop, about, asked, doc, queue>>

\* Suppressed, grouped, or for the history only.
Silent(t) ==
    /\ UNCHANGED <<prop, about, asked>>
    /\ Store(t, NoProposal)

\* OpportunityPolicy, AttentionPolicy, CommunicationRouter and _communicate
\* up to the first delivery.
Decide(t, k, o, quiet) ==
    \/ Silent(t)
    \/ ~ quiet /\ ~ Busy(t, k) /\ (Ask(t, k, o) \/ Tell(t, k, o))

MayRun(k) == k \in granted /\ attempts[k] < MaxAttempts /\ live[k] = "on"

\* async_evaluate, with the situations s and the check timers c its caller
\* leaves; a situation that is not ripe yet is looked at again later.
Evaluate(t, k, s, c, ripe, auto) ==
    /\ situ' = s
    /\ \/ /\ ~ ripe
          /\ check' = [c EXCEPT ![k] = "on"]
          /\ UNCHANGED <<attempts, autos>>
          /\ Silent(t)
       \/ /\ check' = c
          /\ UNCHANGED <<attempts, autos>>
          /\ Decide(t, k, s[k].occ, Quiet(s[k]))
       \/ /\ auto /\ MayRun(k) /\ ~ Busy(t, k)
          /\ check' = c
          /\ autos' = [autos EXCEPT ![k] = @ + 1]
          /\ pc' = [pc EXCEPT ![t] = "auto"]
          /\ job' = [job EXCEPT ![t] = [JobOf(k, s[k].occ, NoProposal)
                                        EXCEPT !.quiet = Quiet(s[k])]]
          /\ UNCHANGED <<attempts, prop, about, asked, doc, queue>>
       \/ /\ auto /\ MayRun(k)
          /\ check' = c
          /\ attempts' = [attempts EXCEPT ![k] = @ + 1]
          /\ UNCHANGED autos
          /\ Decide(t, k, s[k].occ, Quiet(s[k]))

\* A situation ends: its timers are cancelled, its open questions withdrawn.
Resolve(t, k) ==
    /\ situ' = SetState(k, "over", "none")
    /\ prop' = Close(prop, OpenAbout(k, situ[k].occ))
    /\ check' = [check EXCEPT ![k] = "off"]
    /\ wake' = [wake EXCEPT ![k] = FALSE]
    /\ UNCHANGED <<about, asked, attempts, autos>>
    /\ Store(t, NoProposal)

-----------------------------------------------------------------------------
(* What starts a task.                                                      *)

\* async_process_signals: a door was opened or closed.
Observe(t, k) ==
    /\ pc[t] = "idle" /\ news[k] # "seen"
    /\ news' = [news EXCEPT ![k] = "seen"]
    /\ \/ /\ news[k] = "off" /\ situ[k].state \notin Ended
          /\ Resolve(t, k)
          /\ UNCHANGED born
       \* Nothing to end, or a repeated event that says nothing new.
       \/ /\ news[k] = "off" <=> situ[k].state \in Ended
          /\ UNCHANGED <<memory, timers, tasks, doc, queue, autos>>
       \/ /\ news[k] = "on" /\ situ[k].state \notin Ended
          /\ Evaluate(t, k, situ, check, situ[k].state # "active", TRUE)
          /\ UNCHANGED <<born, wake>>
       \/ /\ news[k] = "on" /\ situ[k].state \in Ended
          /\ born' = [born EXCEPT ![k] = @ + 1]
          /\ Evaluate(t, k, [situ EXCEPT ![k] = [occ |-> born[k] + 1,
                                                 state |-> "active", until |-> "none"]],
                      check, FALSE, TRUE)
          /\ UNCHANGED wake
    /\ UNCHANGED <<lights, live, changes, granted, lapsed, file, heard, revoked, started,
                   restarts>>

\* async_recheck, with the situations s and the timers c and w its caller
\* leaves: the live state decides.
Recheck(t, k, s, c, w, ripe, auto) ==
    \/ /\ s[k].state \in Ended \/ live[k] = "unknown"
       /\ situ' = s /\ check' = c /\ wake' = w
       /\ UNCHANGED <<prop, about, asked, attempts, tasks, doc, queue, autos>>
    \/ /\ s[k].state \notin Ended /\ live[k] = "off"
       /\ Resolve(t, k)
    \/ /\ s[k].state \notin Ended /\ live[k] = "on"
       /\ wake' = w
       /\ Evaluate(t, k, IF s[k].state = "snoozed" /\ s[k].until # "ahead"
                         THEN SetState(k, "active", "none") ELSE s, c, ripe, auto)

\* The duration is reached, or a restart wants the situation looked at.
CheckFires(t, k) ==
    /\ pc[t] = "idle" /\ check[k] # "off"
    /\ Recheck(t, k, situ, [check EXCEPT ![k] = "off"], wake,
               check[k] = "on", check[k] = "on")
    /\ UNCHANGED <<world, born, granted, lapsed, file, heard, revoked, started, restarts>>

\* The time the user asked for is over.
WakeFires(t, k) ==
    /\ pc[t] = "idle" /\ wake[k]
    /\ Recheck(t, k, IF situ[k].state = "snoozed"
                     THEN SetState(k, "snoozed", "past") ELSE situ,
               check, [wake EXCEPT ![k] = FALSE], TRUE, FALSE)
    /\ UNCHANGED <<world, born, granted, lapsed, file, heard, revoked, started, restarts>>

-----------------------------------------------------------------------------
(* Answers: async_apply_choice.                                             *)

\* A slip: the answer is looked up, and claimed only when it is finished.
Claimed_Slip(p) == prop
Claimed(p) == [prop EXCEPT ![p] = "executing"]

\* claim_for_execution, the live check and the run of the V10 pipeline up to
\* its first await.  A stale, refused or conflicting one ends here.
Accept(t, p) ==
    /\ pc[t] = "idle" /\ Open(p)
    /\ LET k == about[p].key
           alive == Current(p) /\ Subject(p).state \notin Ended /\ live[k] = "on"
       IN  \/ /\ alive /\ ~ Busy(t, k)
              /\ prop' = Claimed(p)
              /\ started' = [started EXCEPT ![p] = @ + 1]
              /\ pc' = [pc EXCEPT ![t] = "run"]
              /\ job' = [job EXCEPT ![t] = JobOf(k, about[p].occ, p)]
              /\ UNCHANGED <<situ, doc, queue>>
           \/ /\ situ' = IF alive THEN Acknowledged(k) ELSE situ
              /\ prop' = [prop EXCEPT ![p] = "closed"]
              /\ UNCHANGED <<attempts, started>>
              /\ Store(t, p)
    /\ UNCHANGED <<world, born, about, asked, attempts, granted, lapsed, timers, file,
                   heard, revoked, autos, restarts>>

\* The run returned, verified or not: _finish_execution.
RunEnds(t) ==
    /\ pc[t] = "run"
    /\ prop' = [prop EXCEPT ![job[t].prop] = IF @ = "executing" THEN "closed" ELSE @]
    /\ situ' = Acknowledged(job[t].key)
    /\ UNCHANGED attempts
    /\ Store(t, job[t].prop)
    /\ UNCHANGED <<world, born, about, asked, granted, lapsed, timers, file, counts,
                   restarts>>

Later(t, p) ==
    /\ pc[t] = "idle" /\ Open(p)
    /\ LET k == about[p].key
       IN  /\ prop' = [prop EXCEPT ![p] = "closed"]
           /\ IF Current(p)
              THEN /\ situ' = SetState(k, "snoozed", "ahead")
                   /\ check' = [check EXCEPT ![k] = "off"]
                   /\ wake' = [wake EXCEPT ![k] = TRUE]
              ELSE UNCHANGED <<situ, timers>>
    /\ UNCHANGED attempts
    /\ Store(t, p)
    /\ UNCHANGED <<world, born, about, asked, granted, lapsed, file, counts, restarts>>

\* "Nein" and "Ignorieren".
Refuse(t, p) ==
    /\ pc[t] = "idle" /\ Open(p)
    /\ LET k == about[p].key
       IN  /\ prop' = [prop EXCEPT ![p] = "closed"]
           /\ IF Current(p)
              THEN /\ situ' = Acknowledged(k)
                   /\ check' = [check EXCEPT ![k] = "off"]
              ELSE UNCHANGED <<situ, check>>
    /\ UNCHANGED <<attempts, wake>>
    /\ Store(t, p)
    /\ UNCHANGED <<world, born, about, asked, granted, lapsed, file, counts, restarts>>

\* A slip: the document is built before the permissions are taken away.
Revoke_Slip(t) ==
    /\ pc[t] = "idle" /\ granted # {}
    /\ granted' = {}
    /\ UNCHANGED <<situ, prop, attempts>>
    /\ Save(t, [NoJob EXCEPT !.revoke = granted], granted)
    /\ UNCHANGED <<world, born, about, asked, lapsed, timers, file, counts, restarts>>
\* "Widerrufe alle Daueranweisungen": a run under way goes on.
Revoke(t) ==
    /\ pc[t] = "idle" /\ granted # {}
    /\ granted' = {}
    /\ UNCHANGED <<situ, prop, attempts>>
    /\ Save(t, [NoJob EXCEPT !.revoke = granted], {})
    /\ UNCHANGED <<world, born, about, asked, lapsed, timers, file, counts, restarts>>

\* Its expires_at passes; whoever reads it then takes it for closed.
Lapse(p) ==
    /\ Open(p)
    /\ lapsed' = lapsed \cup {p}
    /\ UNCHANGED <<world, memory, timers, tasks, disk, counts, restarts>>

-----------------------------------------------------------------------------
(* Awaits that return.                                                      *)

\* The deliveries to all recipients, one after the other, have returned.
Delivered(t) ==
    /\ pc[t] = "deliver"
    /\ \/ situ' = Communicated(job[t].key) /\ UNCHANGED prop
       \/ prop' = Close(prop, {job[t].prop}) /\ UNCHANGED situ
    /\ UNCHANGED attempts
    /\ Store(t, NoProposal)
    /\ UNCHANGED <<world, born, about, asked, attempts, granted, lapsed, timers, file,
                   counts, restarts>>

\* A slip: only verified runs count.
Attempted_Slip(k, verified) ==
    [attempts EXCEPT ![k] = IF verified THEN @ + 1 ELSE @]
\* record_attempt counts every run under a permission.
Attempted(k, verified) == [attempts EXCEPT ![k] = @ + 1]

\* A run that was not verified is followed by the question, about what was
\* read before the run.
AutoVerified(t) ==
    /\ pc[t] = "auto"
    /\ attempts' = Attempted(job[t].key, TRUE)
    /\ UNCHANGED situ
    /\ Silent(t)
    /\ UNCHANGED <<world, born, granted, lapsed, timers, file, counts, restarts>>

AutoFailed(t) ==
    /\ pc[t] = "auto"
    /\ attempts' = Attempted(job[t].key, FALSE)
    /\ UNCHANGED situ
    /\ Decide(t, job[t].key, job[t].occ, job[t].quiet)
    /\ UNCHANGED <<world, born, granted, lapsed, timers, file, counts, restarts>>

Place(t) == {i \in 1 .. Len(queue) : queue[i] = t}
\* A slip: whichever thread comes last wins.
Write_Slip(t) ==
    /\ file' = doc[t]
    /\ queue' = SelectSeq(queue, LAMBDA u : u # t)
    /\ doc' = [doc EXCEPT ![t] = Empty]
\* The thread: a write no newer generation has overtaken replaces the file,
\* and those that it overtakes will do nothing any more.
Write(t) ==
    \/ /\ Place(t) = {}
       /\ doc' = [doc EXCEPT ![t] = Empty]
       /\ UNCHANGED <<queue, file>>
    \/ \E i \in Place(t) :
          /\ file' = doc[t]
          /\ queue' = SubSeq(queue, i + 1, Len(queue))
          /\ doc' = [u \in Task |-> IF \E j \in 1 .. i : queue[j] = u THEN Empty
                                    ELSE doc[u]]
Fail(t) ==
    /\ \/ Place(t) = {} /\ UNCHANGED queue
       \/ \E i \in Place(t) : queue' = RemoveAt(queue, i)
    /\ doc' = [doc EXCEPT ![t] = Empty]
    /\ UNCHANGED file

Finish(t) ==
    /\ pc' = [pc EXCEPT ![t] = "idle"]
    /\ job' = [job EXCEPT ![t] = NoJob]

\* Only now the answer is spoken or pushed.
Written(t) ==
    /\ pc[t] = "save"
    /\ Write(t)
    /\ Finish(t)
    /\ heard' = heard \cup ({job[t].prop} \ {NoProposal})
    /\ revoked' = revoked \cup job[t].revoke
    /\ UNCHANGED <<world, memory, lapsed, timers, started, autos, restarts>>

\* The disk refuses: the call raises and the caller hears nothing of it.
NotWritten(t) ==
    /\ pc[t] = "save"
    /\ Fail(t)
    /\ Finish(t)
    /\ UNCHANGED <<world, memory, lapsed, timers, counts, restarts>>

-----------------------------------------------------------------------------
(* The world.                                                               *)

\* A door changes; the next change comes after a handler saw this one.
Change(k) ==
    /\ changes < MaxChanges /\ news[k] = "seen"
    /\ \E v \in Values(k) \ {live[k]} :
          /\ live' = [live EXCEPT ![k] = v]
          /\ news' = [news EXCEPT ![k] = Event(v)]
    /\ changes' = changes + 1
    /\ UNCHANGED <<lights, memory, lapsed, timers, tasks, disk, counts, restarts>>

\* async_restore: what the file says, held against the doors as they are now.
Revalidated(s) ==
    [k \in Key |-> IF s[k].state \notin Ended /\ live'[k] = "off"
                   THEN [s[k] EXCEPT !.state = "over", !.until = "none"] ELSE s[k]]
Backed(p, s) ==
    /\ p \notin lapsed
    /\ s[about[p].key].occ = about[p].occ
    /\ s[about[p].key].state \notin Ended

\* A slip: snoozes are restored, their timers are not.
Wakes_Slip(s) == [k \in Key |-> FALSE]
Wakes(s) == [k \in Key |-> s[k].state = "snoozed"]

Restart(t) ==
    /\ restarts < MaxRestarts
    /\ restarts' = restarts + 1
    /\ \/ UNCHANGED <<live, changes>>
       \/ /\ changes < MaxChanges /\ changes' = changes + 1
          /\ \E k \in Key : \E v \in Values(k) \ {live[k]} :
                live' = [live EXCEPT ![k] = v]
    /\ news' = [k \in Key |-> "seen"]
    /\ situ' = Revalidated(file.situ)
    /\ prop' = Close(file.prop, {p \in Proposal : ~ Backed(p, situ')})
    /\ attempts' = file.attempts
    /\ granted' = file.granted
    /\ check' = [k \in Key |-> IF situ'[k].state = "active" THEN "restored" ELSE "off"]
    /\ wake' = Wakes(situ')
    /\ pc' = [u \in Task |-> IF u = t THEN "save" ELSE "idle"]
    /\ job' = [u \in Task |-> NoJob]
    /\ doc' = [u \in Task |-> IF u # t THEN Empty
                              ELSE [situ |-> situ', prop |-> prop',
                                    attempts |-> attempts', granted |-> granted']]
    /\ queue' = <<t>>
    /\ started' = [p \in Proposal |-> IF p \in heard THEN started[p] ELSE 0]
    /\ autos' = [k \in Key |-> 0]
    /\ UNCHANGED <<lights, born, about, asked, lapsed, file, heard, revoked>>

-----------------------------------------------------------------------------
Start(t) == \E k \in Key : Observe(t, k) \/ CheckFires(t, k) \/ WakeFires(t, k)
Answer(t) ==
    \/ \E p \in Proposal : Accept(t, p) \/ Later(t, p) \/ Refuse(t, p)
    \/ Revoke(t)
Return(t) ==
    \/ Delivered(t) \/ RunEnds(t) \/ AutoVerified(t) \/ AutoFailed(t)
    \/ Written(t) \/ NotWritten(t)

Next ==
    \/ \E t \in Task : Start(t) \/ Answer(t) \/ Return(t) \/ Restart(t)
    \/ \E k \in Key : Change(k)
    \/ \E p \in Proposal : Lapse(p)

Spec == Init /\ [][Next]_vars

-----------------------------------------------------------------------------
(* Properties.                                                              *)

\* Every store, task, document and the file keep their shape; a situation has
\* a time to come back exactly while it is snoozed.
TypeOK ==
    /\ lights \subseteq Key
    /\ granted \subseteq Key
    /\ revoked \subseteq Key
    /\ live \in [Key -> Live]
    /\ news \in [Key -> {"on", "off", "seen"}]
    /\ situ \in [Key -> Situation]
    /\ born \in [Key -> Nat]
    /\ prop \in [Proposal -> ProposalState]
    /\ about \in [Proposal -> Occurrence]
    /\ asked \in 0 .. MaxProposals
    /\ lapsed \subseteq Proposal
    /\ attempts \in [Key -> Nat]
    /\ check \in [Key -> {"off", "on", "restored"}]
    /\ wake \in [Key -> BOOLEAN]
    /\ pc \in [Task -> Await]
    /\ job \in [Task -> Job]
    /\ doc \in [Task -> Document]
    /\ queue \in Seq(Task)
    /\ file \in Document
    /\ heard \subseteq Proposal
    /\ started \in [Proposal -> Nat]
    /\ autos \in [Key -> Nat]
    /\ changes \in Nat
    /\ restarts \in Nat

\* A question that can still be answered is about the occurrence that is
\* going on, and there is one for each; but a run under a permission that
\* fails may ask about an occurrence that ended under it.  (Replacing in
\* ProposalStore.create, withdrawing in _on_resolved, async_restore.)
OpenIsCurrent ==
    /\ \A p \in Proposal :
          Open(p) /\ autos[about[p].key] = 0 =>
              Current(p) /\ Subject(p).state \notin Ended
    /\ \A p, q \in Proposal : Open(p) /\ Open(q) /\ about[p] = about[q] => p = q

\* A snooze whose time is still ahead has its timer, also after a restart and
\* however many messages, answers and ends of the situation came between.
SnoozesReturn == \A k \in Key : situ[k].until = "ahead" => wake[k]

\* A proposal starts at most one run between two restarts, and once its
\* outcome was told at most one in all: taps and words that come together or
\* after a restart do not run it again (claim_for_execution, the generations
\* of the file).
RunsOnce == \A p \in Proposal : started[p] <= 1

\* A standing permission starts at most so many runs a day, failing ones too,
\* whichever events and timers come together (attempts_today).
AutoBudget == \A k \in Key : autos[k] <= MaxAttempts

\* Questions keep the promise of AnswerOnce.
Promise == INSTANCE AnswerOnce WITH asked <- 1 .. asked, life <- prop
KeepsPromise == Promise!Spec

\* After a user was told that a permission is revoked no run starts under it,
\* whatever was being written at that time and whatever a restart reads.
RevokedStays ==
    [][\A k \in Key : autos'[k] > autos[k] => k \notin revoked]_vars
=============================================================================
