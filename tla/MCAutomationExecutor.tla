------------------------ MODULE MCAutomationExecutor ------------------------
(* Small instances of AutomationExecutor for TLC: the requests users make in *)
(* each run, and the phases in which another program may write the file.     *)
EXTENDS AutomationExecutor

CONSTANTS a1, a2, x1, b1, b2

Ask(k, i, at, limit, once, b) ==
  [kind |-> k, id |-> i, at |-> at, limit |-> limit, once |-> once, body |-> b]
Plain(k, i) == Ask(k, i, 0, 0, FALSE, b1)

CreateBounded(i) == Ask("create", i, 0, 2, FALSE, b1)
CreateOneShot(i) == Ask("create", i, 1, 0, TRUE, b1)
Limit(i, n) == Ask("set_max_runs", i, 0, n, FALSE, b1)
Move(i, t) == Ask("reschedule", i, t, 0, FALSE, b1)
Rewrite(k, i) == Ask(k, i, 0, 0, FALSE, b2)

(* One automation of each sort, and what changes file and metadata alike. *)
LifecycleRequests ==
  {CreateBounded(a1), CreateOneShot(a2), Plain("delete", a1),
   Plain("expire", a2), Limit(a1, 3), Move(a2, 2)}

(* One automation through its changes, and the undo of the last one. *)
ChangeRequests ==
  {CreateBounded(a1), Plain("delete", a1), Plain("disable", a1),
   Plain("enable", a1), Rewrite("replace_actions", a1),
   Rewrite("replace_section", a1), Plain("rollback", a1)}

(* Changes that roll everything back when one of their steps fails. *)
GuardedRequests ==
  {CreateBounded(a1), CreateOneShot(a2), Plain("delete", a1),
   Plain("disable", a1), Rewrite("replace_actions", a1), Limit(a1, 3),
   Move(a2, 2), Plain("rollback", a1)}

UndatedRequests == {r \in GuardedRequests : r.id # a2}
EditedRequests == {r \in ChangeRequests : r.kind # "rollback"}
ExpiryRequests == {CreateOneShot(a2), Plain("expire", a2)}
UndoRequests == {CreateBounded(a1), Plain("rollback", a1)}

(* Everywhere but between the digest check and the write it guards. *)
GuardedPhases == (Pcs \ {"write", "undo_write", "reconcile"})
                   \cup {"boot", "stuck"}
AllPhases == GuardedPhases \cup {"write", "undo_write"}
=============================================================================
