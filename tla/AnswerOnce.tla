---------------------------- MODULE AnswerOnce ----------------------------
(* What the proactive context promises about its questions: each is asked   *)
(* once, an answer that acts claims it, only a claimed question is          *)
(* finished, a closed one stays closed, and once the user was told what     *)
(* became of a question not even a restart brings it back.                  *)
(* ProactiveContext implements it.                                          *)
CONSTANT Proposal

VARIABLES
    asked,   \* the questions there have been
    life,    \* "none" (also: forgotten), "pending", "executing" or "closed"
    heard    \* the questions whose outcome the user was told

Life == {"none", "pending", "executing", "closed"}

Init ==
    /\ asked = {}
    /\ life = [p \in Proposal |-> "none"]
    /\ heard = {}

\* What one step may make of a question.
Moves(p) ==
    \/ life'[p] = life[p]
    \/ life[p] = "none" /\ p \notin asked /\ p \in asked' /\ life'[p] = "pending"
    \/ life[p] = "pending" /\ life'[p] \in {"executing", "closed"}
    \/ life[p] = "executing" /\ life'[p] = "closed"
    \/ life[p] # "none" /\ life'[p] = "none"

Step ==
    /\ \A p \in Proposal : Moves(p)
    /\ \A p \in heard' \ heard : life[p] \in {"none", "closed"}
    /\ heard \subseteq heard' /\ heard' \subseteq Proposal
    /\ asked \subseteq asked' /\ asked' \subseteq Proposal

\* A restart goes back to what was stored: a question may be open again or
\* be forgotten, but never one whose outcome was told, and none is new.
Restart ==
    /\ life' \in [Proposal -> Life]
    /\ \A p \in heard : life'[p] \in {"none", "closed"}
    /\ \A p \in Proposal \ asked : life'[p] = "none"
    /\ UNCHANGED <<asked, heard>>

Spec == Init /\ [][Step \/ Restart]_<<asked, life, heard>>
=============================================================================
