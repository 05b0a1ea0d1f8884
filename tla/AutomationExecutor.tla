-------------------------- MODULE AutomationExecutor --------------------------
(***************************************************************************)
(* automation_executor.py: the journalled transaction every HomeIntent     *)
(* change to automations.yaml runs through, its rollback, the recovery and *)
(* reconciliation at start-up, the expiry of missed one-shots and the undo *)
(* of the last change - against crashes, failing calls and another program *)
(* writing the same file.                                                  *)
(*                                                                         *)
(* One asyncio.Lock serialises the operations, so one transaction is in    *)
(* flight at a time and pc says where its holder stands ("free": nobody    *)
(* holds it).  Each value of pc is a point where the code has written      *)
(* something durable or where another program may touch the file.          *)
(***************************************************************************)
EXTENDS Naturals, Sequences, FiniteSets

CONSTANTS
  Ids,           \* ids HomeIntent gives to automations
  ExtIds,        \* ids of automations other programs own
  Bodies,        \* what an automation does, and the text it came from
  Absent,        \* no automation, or no metadata, under an id
  NoTx,          \* no transaction (an empty journal)
  NoReq,         \* no request in progress
  Requests,      \* the requests users make
  MaxTime,       \* bound of the clock
  MaxRuns,       \* bound of a run limit
  MaxTx,         \* bound: transactions begun
  MaxFaults,     \* bound: calls that fail
  MaxCrashes,    \* bound: restarts of Home Assistant
  MaxEdits,      \* bound: writes to the file by others
  FaultPoints,   \* the calls that may fail
  EditPoints,    \* the phases in which others may write
  HandWritten,   \* may a file be written in a form HomeIntent's dump changes?
  HistoryLimit   \* AutomationHistoryStore.limit

UpdateKinds == {"reschedule", "set_max_runs", "replace_actions",
                "replace_section"}
Kinds == {"create", "delete", "enable", "disable", "expire", "rollback"}
            \cup UpdateKinds
StartupKinds == {"recover", "reconcile", "cleanup"}

Points == {"write", "journal", "history", "reload", "category", "meta",
           "expire_meta", "clear", "undo_write", "undo_meta"}

(* A user's request; the fields its kind does not use are ignored.  Besides *)
(* these there are the start-up steps and the deletion after a final run.   *)
Request == [kind : Kinds, id : Ids, at : 0..MaxTime, limit : 0..MaxRuns,
            once : BOOLEAN, body : Bodies]
StartupRequest(k) == [kind |-> k]
Deletion(i) == [kind |-> "delete", id |-> i]
AnyRequest == Request \cup {StartupRequest(k) : k \in StartupKinds}
                      \cup {Deletion(i) : i \in Ids}

ASSUME ExecutorAssumption ==
  /\ MaxTime \in Nat /\ MaxRuns \in Nat /\ MaxTx \in Nat /\ MaxFaults \in Nat
  /\ MaxCrashes \in Nat /\ MaxEdits \in Nat /\ HistoryLimit \in Nat \ {0}
  /\ Requests \subseteq Request
  /\ \A r \in Requests : r.kind = "reschedule" => r.at # 0
  /\ FaultPoints \subseteq Points
  /\ HandWritten \in BOOLEAN
  /\ Ids \cap ExtIds = {}

AllIds == Ids \cup ExtIds

(* One list entry of automations.yaml: initial_state, the guarded one-shot *)
(* time (0: none), the run limit of its housekeeping action (0: none).     *)
Automation == [on : BOOLEAN, at : 0..MaxTime, limit : 0..MaxRuns, body : Bodies]

Catalogs == [AllIds -> Automation \cup {Absent}]

(* The file's bytes, which is what its digest identifies: the entries and *)
(* whether the bytes are the ones HomeIntent's YAML dump would produce.   *)
File == [autos : Catalogs, form : {"dump", "hand"}]
Dump(c) == [autos |-> c, form |-> "dump"]

(* AutomationMetadata of the sidecar file. *)
Meta == [once : BOOLEAN, at : 0..MaxTime, limit : 0..MaxRuns,
         count : 0..MaxRuns, src : Bodies]
Metas == [Ids -> Meta \cup {Absent}]

(* No record is confused with the values that stand for none. *)
ASSUME NullAssumption ==
  /\ Absent \notin Automation \cup Meta
  /\ NoReq \notin AnyRequest

(* AutomationTransaction: created_at, before_digest and before_automations, *)
(* after_digest.                                                            *)
Tx == [op : Kinds, stamp : 1..MaxTx, before : File, after : File]

(* One entry of the version history. *)
HistoryEntry == [stamp : 1..MaxTx, autos : Catalogs, meta : Metas]

ASSUME NoTxAssumption == NoTx \notin Tx

VARIABLES
  yaml,      \* automations.yaml
  meta,      \* the metadata sidecar file
  journal,   \* the transaction journal file
  history,   \* the bounded history file, oldest first
  live,      \* the automations Home Assistant runs
  entity,    \* entity registry: no entry, an entry, one in the category
  pc,        \* where the holder of the lock stands
  req,       \* the request it works on
  tx,        \* its in-memory transaction
  failedAt,  \* the step whose failure started the rollback
  todo,      \* ids whose metadata it still has to write
  boot,      \* the start-up task: recover, reconcile, cleanup, done/aborted
  outcome,   \* what the last user request was told
  owed,      \* bounded automations whose final run asks for their deletion
  issued,    \* ids already given out (uuid4 never repeats one)
  now, txs, faults, crashes, edits,   \* clock and counters
  handmade   \* ghost: what other programs last left under their ids

durable == <<yaml, meta, journal, history>>
registry == <<live, entity>>
locals == <<pc, req, tx, failedAt, todo>>
told == <<boot, outcome, owed>>
ghosts == <<issued, handmade>>
counters == <<now, txs, faults, crashes, edits>>
vars == <<durable, registry, locals, told, ghosts, counters>>

Entities == {"none", "entry", "homeintent"}

Pcs == {"free", "check", "write", "verify", "write_error", "abort", "history",
        "reload", "record", "expire", "complete", "pop", "undo_check",
        "undo_write", "undo_verify", "undo_clear", "undo_pop", "undo_meta",
        "undo_reload", "recover_reload", "reconcile"}

TypeOK ==
  /\ yaml \in File
  /\ meta \in Metas
  /\ journal \in Tx \cup {NoTx}
  /\ history \in Seq(HistoryEntry)
  /\ live \in Catalogs
  /\ entity \in [Ids -> Entities]
  /\ pc \in Pcs
  /\ req \in AnyRequest \cup {NoReq}
  /\ tx \in Tx \cup {NoTx}
  /\ failedAt \in {"-", "history", "reload", "record"}
  /\ todo \subseteq Ids
  /\ boot \in {"recover", "reconcile", "cleanup", "done", "aborted"}
  /\ outcome \in {"-", "ok", "error"}
  /\ owed \subseteq Ids /\ issued \subseteq Ids
  /\ now \in 0..MaxTime /\ txs \in 0..MaxTx
  /\ faults \in 0..MaxFaults /\ crashes \in 0..MaxCrashes
  /\ edits \in 0..MaxEdits
  /\ handmade \in [ExtIds -> Automation \cup {Absent}]

NoAutos == [i \in AllIds |-> Absent]
NoMetas == [i \in Ids |-> Absent]
Forms == IF HandWritten THEN {"dump", "hand"} ELSE {"dump"}

Init ==
  /\ \E f \in Forms : yaml = [autos |-> NoAutos, form |-> f]
  /\ meta = NoMetas
  /\ journal = NoTx /\ history = <<>>
  /\ live = NoAutos /\ entity = [i \in Ids |-> "none"]
  /\ pc = "free" /\ req = NoReq /\ tx = NoTx /\ failedAt = "-" /\ todo = {}
  /\ boot = "done" /\ outcome = "-" /\ owed = {} /\ issued = {}
  /\ now = 0 /\ txs = 0 /\ faults = 0 /\ crashes = 0 /\ edits = 0
  /\ handmade = [x \in ExtIds |-> Absent]

-------------------------------------------------------------------------------
(* How an operation moves on *)

Fault(p) ==
  /\ p \in FaultPoints
  /\ faults < MaxFaults
  /\ faults' = faults + 1

NoFault == UNCHANGED faults

Goto(p) == pc' = p /\ UNCHANGED <<req, tx, failedAt, todo, told>>

(* The caller's except branch calls _async_rollback_transaction. *)
Undo(step) ==
  /\ pc' = "undo_check" /\ failedAt' = step
  /\ UNCHANGED <<req, tx, todo, told>>

(* One id of a loop is dealt with. *)
Next1(i) == todo' = todo \ {i} /\ UNCHANGED <<pc, req, tx, failedAt, told>>

(* The lock is released.  A start-up step hands over to the next one or    *)
(* abandons the rest of the start-up task; a user is told the result.      *)
Finish(result) ==
  /\ pc' = "free" /\ req' = NoReq /\ tx' = NoTx
  /\ failedAt' = "-" /\ todo' = {}
  /\ boot' = CASE req.kind = "recover" ->
                    (IF result = "ok" THEN "reconcile" ELSE "aborted")
               [] req.kind = "reconcile" ->
                    (IF result = "ok" THEN "cleanup" ELSE "aborted")
               [] req.kind = "cleanup" -> "done"
               [] OTHER -> boot
  /\ outcome' = IF req.kind \in StartupKinds THEN outcome ELSE result
  /\ owed' = IF req.kind = "delete" THEN owed \ {req.id} ELSE owed

(* Home Assistant loads a catalogue: each automation gets a registry entry, *)
(* which stays when the automation goes.                                    *)
Load(c) ==
  /\ live' = c
  /\ entity' = [i \in Ids |-> IF c[i] # Absent /\ entity[i] = "none"
                              THEN "entry" ELSE entity[i]]

(* automation.reload either loads the file as it is now or fails; a failed *)
(* reload may have been applied or not.                                    *)
Reloaded == Load(yaml.autos) /\ NoFault
ReloadFails == (Load(yaml.autos) \/ UNCHANGED registry) /\ Fault("reload")

-------------------------------------------------------------------------------
(* What each operation asks for *)

Known(i) == meta[i] # Absent
Listed(i) == yaml.autos[i] # Absent

(* One-shots whose scheduled moment has passed; a restart must not let *)
(* them fire on a later day.                                           *)
Overdue == {i \in Ids : /\ Known(i)
                        /\ meta[i].once
                        /\ meta[i].at # 0
                        /\ meta[i].at < now}

(* The checks an operation makes before it touches anything; failing one *)
(* raises ValueError and changes nothing.                                *)
Allowed(r) ==
  CASE r.kind = "create" -> r.id \notin issued
    [] r.kind \in {"delete", "enable", "disable"} -> Listed(r.id)
    [] r.kind = "reschedule" ->
         /\ Known(r.id) /\ meta[r.id].once /\ meta[r.id].at # 0
         /\ Listed(r.id) /\ yaml.autos[r.id].at # 0
    [] r.kind = "set_max_runs" ->
         r.limit >= 2 /\ Known(r.id) /\ ~meta[r.id].once /\ Listed(r.id)
    [] r.kind = "replace_section" ->
         Known(r.id) /\ ~meta[r.id].once /\ Listed(r.id)
    [] r.kind = "replace_actions" -> Known(r.id) /\ Listed(r.id)
    [] r.kind \in {"expire", "cleanup"} -> \E i \in Overdue : Listed(i)
    [] r.kind = "rollback" -> history # <<>>

(* The list of automations each one wants to write. *)
(* Fault: a change drops the automations it is not about. *)
With_Alone(i, v) == [NoAutos EXCEPT ![i] = v]
With(i, v) == [yaml.autos EXCEPT ![i] = v]

Created(r) == With(r.id, [on |-> TRUE, at |-> r.at, limit |-> r.limit,
                          body |-> r.body])
Deleted(r) == With(r.id, Absent)
Switched(r) == With(r.id, [yaml.autos[r.id] EXCEPT !.on = (r.kind = "enable")])
Rescheduled(r) == With(r.id, [yaml.autos[r.id] EXCEPT !.at = r.at])
Limited(r) == With(r.id, [yaml.autos[r.id] EXCEPT !.limit = r.limit])
Rewritten(r) == With(r.id, [yaml.autos[r.id] EXCEPT !.body = r.body])
Remaining == [i \in AllIds |-> IF i \in Overdue THEN Absent ELSE yaml.autos[i]]

Updated(r) ==
  CASE r.kind = "create" -> Created(r)
    [] r.kind = "delete" -> Deleted(r)
    [] r.kind \in {"enable", "disable"} -> Switched(r)
    [] r.kind = "reschedule" -> Rescheduled(r)
    [] r.kind = "set_max_runs" -> Limited(r)
    [] r.kind \in {"replace_actions", "replace_section"} -> Rewritten(r)
    [] r.kind \in {"expire", "cleanup"} -> Remaining
    [] r.kind = "rollback" -> history[Len(history)].autos

(* Fault: the start-up clean-up is journalled under its own name. *)
JournalOp_Unmapped(r) == r.kind
JournalOp(r) == IF r.kind = "cleanup" THEN "expire" ELSE r.kind

-------------------------------------------------------------------------------
(* Beginning a transaction *)

(* Snapshot, precondition checks and the prepared journal record.  The lock *)
(* keeps journal, metadata and history still, so only the file can change   *)
(* before the next step.                                                    *)
Begin(r) ==
  /\ pc = "free" /\ txs < MaxTx
  /\ journal = NoTx
  /\ Allowed(r)
  /\ journal' = [op |-> JournalOp(r), stamp |-> txs + 1,
                 before |-> yaml, after |-> Dump(Updated(r))]
  /\ tx' = journal'
  /\ req' = r
  /\ todo' = IF r.kind \in {"expire", "cleanup"} THEN Overdue ELSE {}
  /\ issued' = IF r.kind = "create" THEN issued \cup {r.id} ELSE issued
  /\ txs' = txs + 1
  /\ pc' = "check" /\ outcome' = "-"
  /\ UNCHANGED <<yaml, meta, history, registry, failedAt, boot, owed, handmade,
                 now, faults, crashes, edits>>

UserRequest == \E r \in Requests : Begin(r)

(* async_record_automation_run at the limit asks for the deletion. *)
FinalRunDelete == \E i \in owed : Begin(Deletion(i))

(* Fault: the digest is not compared. *)
DigestMatches_Always == TRUE
DigestMatches == yaml = tx.before

(* _write_content_if_unchanged compares the digest first: a file somebody *)
(* else changed since the snapshot is not overwritten.                    *)
CheckDigest ==
  /\ pc = "check"
  /\ Goto(IF DigestMatches THEN "write" ELSE "abort")
  /\ UNCHANGED <<durable, registry, ghosts, counters>>

(* Nothing was written, so the prepared record has nothing to recover. *)
Abort ==
  /\ pc = "abort"
  /\ \/ journal' = NoTx /\ NoFault
     \/ UNCHANGED journal /\ Fault("clear")
  /\ Finish("error")
  /\ UNCHANGED <<yaml, meta, history, registry, ghosts, now, txs, crashes,
                 edits>>

WriteYaml ==
  /\ pc = "write"
  /\ \/ yaml' = tx.after /\ Goto("verify") /\ NoFault
     \/ UNCHANGED yaml /\ Goto("write_error") /\ Fault("write")
  /\ UNCHANGED <<meta, journal, history, registry, ghosts, now, txs, crashes,
                 edits>>

(* Any error of the write: only an untouched file lets the journal go. *)
WriteError ==
  /\ pc = "write_error"
  /\ IF yaml = tx.before THEN Goto("abort") ELSE Finish("error")
  /\ UNCHANGED <<durable, registry, ghosts, counters>>

(* The written bytes are read back; their digest goes into the journal's  *)
(* second record.  A failure to write that record is not handled.         *)
VerifyWrite ==
  /\ pc = "verify"
  /\ \/ /\ yaml \in {tx.after, tx.before}
        /\ tx' = [tx EXCEPT !.after = yaml]
        /\ journal' = tx'
        /\ pc' = IF req.kind = "rollback" THEN "reload" ELSE "history"
        /\ UNCHANGED <<req, failedAt, todo, told, faults>>
     \/ /\ yaml \in {tx.after, tx.before}
        /\ UNCHANGED journal /\ Finish("error") /\ Fault("journal")
     \/ /\ yaml \notin {tx.after, tx.before}
        /\ UNCHANGED journal /\ Goto("write_error") /\ NoFault
  /\ UNCHANGED <<yaml, meta, history, registry, ghosts, now, txs, crashes,
                 edits>>

(* Fault: the history keeps the state after the change. *)
Remembered_After ==
  Append(history, [stamp |-> tx.stamp, autos |-> tx.after.autos, meta |-> meta])
(* entries[-limit:] after appending the state from before the change *)
Remembered ==
  LET h == Append(history, [stamp |-> tx.stamp, autos |-> tx.before.autos,
                            meta |-> meta])
  IN IF Len(h) > HistoryLimit THEN Tail(h) ELSE h

(* Fault: metadata is dropped before Home Assistant reloads. *)
AppendHistory_SkipsReload ==
  /\ pc = "history"
  /\ history' = Remembered
  /\ Goto(IF req.kind = "expire" THEN "expire" ELSE "reload")
  /\ UNCHANGED <<yaml, meta, journal, registry, ghosts, counters>>
(* Fault: a failing history write does not roll the file back. *)
AppendHistory_NoRollback ==
  /\ pc = "history"
  /\ \/ history' = Remembered /\ Goto("reload") /\ NoFault
     \/ UNCHANGED history /\ Finish("error") /\ Fault("history")
  /\ UNCHANGED <<yaml, meta, journal, registry, ghosts, now, txs, crashes,
                 edits>>
AppendHistory ==
  /\ pc = "history"
  /\ \/ history' = Remembered /\ Goto("reload") /\ NoFault
     \/ UNCHANGED history /\ Undo("history") /\ Fault("history")
  /\ UNCHANGED <<yaml, meta, journal, registry, ghosts, now, txs, crashes,
                 edits>>

-------------------------------------------------------------------------------
(* Reload, category and metadata *)

(* Fault: a creation is complete once it is reloaded. *)
AfterReload_NoRecord(k) ==
  CASE k \in {"create", "enable", "disable"} -> "complete"
    [] k \in {"expire", "cleanup"} -> "expire"
    [] OTHER -> "record"
AfterReload(k) ==
  CASE k \in {"enable", "disable"} -> "complete"
    [] k \in {"expire", "cleanup"} -> "expire"
    [] OTHER -> "record"

Reload ==
  /\ pc = "reload"
  /\ \/ Reloaded /\ Goto(AfterReload(req.kind))
     \/ ReloadFails /\ Undo("reload")
  /\ UNCHANGED <<durable, ghosts, now, txs, crashes, edits>>

(* The metadata an operation leaves behind. *)
Recorded(r) ==
  CASE r.kind = "create" ->
         [meta EXCEPT ![r.id] = [once |-> r.once, at |-> r.at,
                                 limit |-> r.limit, count |-> 0,
                                 src |-> r.body]]
    [] r.kind = "delete" -> [meta EXCEPT ![r.id] = Absent]
    [] r.kind = "reschedule" -> [meta EXCEPT ![r.id].at = r.at]
    [] r.kind = "set_max_runs" ->
         [meta EXCEPT ![r.id].limit = r.limit, ![r.id].count = 0]
    [] r.kind \in {"replace_actions", "replace_section"} ->
         [meta EXCEPT ![r.id].src = r.body]
    [] r.kind = "rollback" -> history[Len(history)].meta

(* Only a created automation is put into the category, and only if the *)
(* reload gave it a registry entry.                                    *)
HasEntity(i) == entity[i] # "none"
(* Fault: the category is never assigned. *)
Categorised_Never(r) == entity
Categorised(r) ==
  IF r.kind = "create" THEN [entity EXCEPT ![r.id] = "homeintent"] ELSE entity

MetaFails == UNCHANGED meta /\ Undo("record") /\ Fault("meta")

Record ==
  /\ pc = "record"
  /\ \/ /\ req.kind = "create" => HasEntity(req.id)
        /\ entity' = Categorised(req)
        /\ \/ meta' = Recorded(req) /\ Goto("complete") /\ NoFault
           \/ MetaFails
     \/ /\ req.kind = "create" /\ ~HasEntity(req.id)
        /\ UNCHANGED <<entity, meta>> /\ Undo("record") /\ NoFault
     \/ /\ req.kind = "create" /\ HasEntity(req.id)
        /\ UNCHANGED <<entity, meta>> /\ Undo("record") /\ Fault("category")
  /\ UNCHANGED <<yaml, journal, history, live, ghosts, now, txs, crashes, edits>>

(* async_cleanup_expired_scheduled_automations deletes the metadata one by *)
(* one and rolls nothing back when that fails.                             *)
ExpireMetadata ==
  /\ pc = "expire" /\ todo # {}
  /\ \/ \E i \in todo : meta' = [meta EXCEPT ![i] = Absent] /\ Next1(i) /\ NoFault
     \/ UNCHANGED meta /\ Finish("error") /\ Fault("expire_meta")
  /\ UNCHANGED <<yaml, journal, history, registry, ghosts, now, txs, crashes,
                 edits>>

(* Overdue metadata without an automation needs no transaction: no journal *)
(* record is asked for or checked.                                         *)
ExpireOrphans(r) ==
  /\ pc = "free" /\ r.kind \in {"expire", "cleanup"}
  /\ Overdue # {} /\ ~\E i \in Overdue : Listed(i)
  /\ req' = r /\ todo' = Overdue /\ pc' = "expire" /\ outcome' = "-"
  /\ UNCHANGED <<durable, registry, tx, failedAt, boot, owed, ghosts, counters>>

UserExpireOrphans == \E r \in Requests : ExpireOrphans(r)

EndExpire ==
  /\ pc = "expire" /\ todo = {}
  /\ IF tx = NoTx THEN Finish("ok") ELSE Goto("complete")
  /\ UNCHANGED <<durable, registry, ghosts, counters>>

(* The journal is cleared: this is where a change becomes final.  A deleted *)
(* automation's registry entry goes with it; an undo still has to drop the  *)
(* history entry it used.                                                   *)
Complete ==
  /\ pc = "complete"
  /\ \/ /\ journal' = NoTx /\ NoFault
        /\ entity' = IF req.kind = "delete"
                     THEN [entity EXCEPT ![req.id] = "none"] ELSE entity
        /\ IF req.kind = "rollback" THEN Goto("pop") ELSE Finish("ok")
     \/ UNCHANGED <<journal, entity>> /\ Finish("error") /\ Fault("clear")
  /\ UNCHANGED <<yaml, meta, history, live, ghosts, now, txs, crashes, edits>>

Front(s) == SubSeq(s, 1, Len(s) - 1)

PopHistory ==
  /\ pc = "pop"
  /\ history' = IF history = <<>> THEN history ELSE Front(history)
  /\ Finish("ok")
  /\ UNCHANGED <<yaml, meta, journal, registry, ghosts, counters>>

-------------------------------------------------------------------------------
(* Rolling a transaction back: _async_rollback_transaction *)

UndoCheck ==
  /\ pc = "undo_check"
  /\ IF yaml = tx.after THEN Goto("undo_write") ELSE Finish("error")
  /\ UNCHANGED <<durable, registry, ghosts, counters>>

(* Fault: the rollback takes the newest history entry for its own snapshot. *)
Restored_FromHistory ==
  IF history = <<>> THEN Dump(tx.before.autos)
                    ELSE Dump(history[Len(history)].autos)
Restored == Dump(tx.before.autos)

UndoWrite ==
  /\ pc = "undo_write"
  /\ \/ yaml' = Restored /\ Goto("undo_verify") /\ NoFault
     \/ UNCHANGED yaml /\ Finish("error") /\ Fault("undo_write")
  /\ UNCHANGED <<meta, journal, history, registry, ghosts, now, txs, crashes,
                 edits>>

UndoVerify ==
  /\ pc = "undo_verify"
  /\ IF yaml \in {Restored, tx.after}
     THEN Goto("undo_clear") ELSE Finish("error")
  /\ UNCHANGED <<durable, registry, ghosts, counters>>

UndoClear ==
  /\ pc = "undo_clear"
  /\ \/ journal' = NoTx /\ Goto("undo_pop") /\ NoFault
     \/ UNCHANGED journal /\ Finish("error") /\ Fault("clear")
  /\ UNCHANGED <<yaml, meta, history, registry, ghosts, now, txs, crashes,
                 edits>>

(* The caller's handling of the error after its rollback. *)
AfterUndo(k, step) ==
  CASE k = "recover" -> "recover_reload"
    [] k = "create" /\ step = "record" -> "undo_meta"
    [] k = "delete" /\ step = "record" -> "undo_reload"
    [] k \in UpdateKinds \cup {"rollback"} /\ step # "history" -> "undo_reload"
    [] OTHER -> "free"

(* pop_if_created_at: only the entry this transaction appended is dropped. *)
UndoPop ==
  /\ pc = "undo_pop"
  /\ history' = IF /\ tx.op # "rollback" /\ history # <<>>
                   /\ history[Len(history)].stamp = tx.stamp
                THEN Front(history) ELSE history
  /\ IF AfterUndo(req.kind, failedAt) = "free"
     THEN Finish("error") ELSE Goto(AfterUndo(req.kind, failedAt))
  /\ UNCHANGED <<yaml, meta, journal, registry, ghosts, counters>>

(* A failed creation also removes the metadata it may have saved. *)
UndoMeta ==
  /\ pc = "undo_meta"
  /\ \/ meta' = [meta EXCEPT ![req.id] = Absent] /\ Goto("undo_reload") /\ NoFault
     \/ UNCHANGED meta /\ Finish("error") /\ Fault("undo_meta")
  /\ UNCHANGED <<yaml, journal, history, registry, ghosts, now, txs, crashes,
                 edits>>

UndoReload ==
  /\ pc = "undo_reload"
  /\ Reloaded \/ ReloadFails
  /\ Finish("error")
  /\ UNCHANGED <<durable, ghosts, now, txs, crashes, edits>>

-------------------------------------------------------------------------------
(* Start-up: recover, reconcile, clean up *)

(* Fault: an interrupted deletion is rolled back like any other change. *)
Forward_ExpireOnly == {"expire"}
(* Operations whose metadata may already be gone: never undone by a restart. *)
Forward == {"delete", "expire"}

(* async_recover_incomplete_transaction: forward for deletions, back for *)
(* everything else, and hands off a file somebody changed meanwhile.     *)
(* Fault: a record prepared before the file was written is not recognised. *)
Untouched_IfEmpty == journal = NoTx
Untouched == journal = NoTx \/ (journal # NoTx /\ yaml = journal.before)

RecoverNothing ==
  /\ Untouched
  /\ journal' = NoTx /\ boot' = "reconcile"
  /\ UNCHANGED locals

RecoverForward ==
  /\ journal # NoTx /\ yaml # journal.before /\ yaml = journal.after
  /\ journal.op \in Forward
  /\ journal' = NoTx
  /\ pc' = "recover_reload" /\ req' = StartupRequest("recover")
  /\ UNCHANGED <<boot, tx, failedAt, todo>>

RecoverBack ==
  /\ journal # NoTx /\ yaml # journal.before /\ yaml = journal.after
  /\ journal.op \notin Forward
  /\ pc' = "undo_check" /\ req' = StartupRequest("recover") /\ tx' = journal
  /\ UNCHANGED <<journal, boot, failedAt, todo>>

RecoverConflict ==
  /\ journal # NoTx /\ yaml \notin {journal.before, journal.after}
  /\ boot' = "aborted"
  /\ UNCHANGED <<journal, locals>>

Recover ==
  /\ pc = "free" /\ boot = "recover"
  /\ RecoverNothing \/ RecoverForward \/ RecoverBack \/ RecoverConflict
  /\ UNCHANGED <<yaml, meta, history, registry, outcome, owed, ghosts, counters>>

RecoverReload ==
  /\ pc = "recover_reload"
  /\ \/ Reloaded /\ Finish("ok")
     \/ ReloadFails /\ Finish("error")
  /\ UNCHANGED <<durable, ghosts, now, txs, crashes, edits>>

(* async_reconcile_homeintent_state works on one snapshot of the file. *)
BeginReconcile ==
  /\ pc = "free" /\ boot = "reconcile"
  /\ req' = StartupRequest("reconcile")
  /\ todo' = {i \in Ids : Known(i)}
  /\ pc' = "reconcile"
  /\ UNCHANGED <<durable, registry, tx, failedAt, told, ghosts, counters>>

(* The one-shot time and the run limit follow the file. *)
Repaired(m, a) ==
  [m EXCEPT !.at = IF m.at # 0 /\ a.at # 0 THEN a.at ELSE @,
            !.limit = a.limit,
            !.count = IF m.limit # a.limit THEN 0 ELSE @]

(* Orphans go first; then each known automation gets its category and its  *)
(* metadata repaired.  The file is not read again in between, so no other  *)
(* program is let in here.                                                 *)
DropOrphan(i) ==
  /\ ~Listed(i)
  /\ meta' = [meta EXCEPT ![i] = Absent]
  /\ UNCHANGED entity
  /\ Next1(i) /\ NoFault

RepairKnown(i) ==
  /\ \A j \in todo : Listed(j)
  /\ IF HasEntity(i)
     THEN /\ entity' = [entity EXCEPT ![i] = "homeintent"]
          /\ meta' = [meta EXCEPT ![i] = Repaired(@, yaml.autos[i])]
          /\ Next1(i)
     ELSE UNCHANGED <<meta, entity>> /\ Finish("error")
  /\ NoFault

Reconcile ==
  /\ pc = "reconcile" /\ todo # {}
  /\ \/ \E i \in todo : DropOrphan(i) \/ RepairKnown(i)
     \/ UNCHANGED <<meta, entity>> /\ Finish("error") /\ Fault("meta")
  /\ UNCHANGED <<yaml, journal, history, live, ghosts, now, txs, crashes, edits>>

EndReconcile ==
  /\ pc = "reconcile" /\ todo = {}
  /\ Finish("ok")
  /\ UNCHANGED <<durable, registry, ghosts, counters>>

(* The missed-schedule policy runs last; its errors are only logged. *)
CleanupRefused ==
  /\ \/ Overdue = {}
     \/ (journal # NoTx \/ txs = MaxTx) /\ \E i \in Overdue : Listed(i)
  /\ boot' = "done"
  /\ UNCHANGED <<durable, registry, locals, outcome, owed, ghosts, counters>>

StartupCleanup ==
  /\ pc = "free" /\ boot = "cleanup"
  /\ \/ Begin(StartupRequest("cleanup"))
     \/ ExpireOrphans(StartupRequest("cleanup"))
     \/ CleanupRefused

Startup == Recover \/ BeginReconcile \/ StartupCleanup

-------------------------------------------------------------------------------
(* The world around it *)

(* A bounded automation finished a run: the count goes up, or at the limit *)
(* its deletion is requested after the lock is released.  A failed deletion *)
(* is tried again by recording the run again.                               *)
RecordRun(i) ==
  /\ pc = "free"
  /\ Known(i) /\ meta[i].limit # 0
  /\ IF meta[i].count + 1 >= meta[i].limit
     THEN owed' = owed \cup {i} /\ UNCHANGED meta
     ELSE meta' = [meta EXCEPT ![i].count = @ + 1] /\ UNCHANGED owed
  /\ UNCHANGED <<yaml, journal, history, registry, locals, boot, outcome, ghosts,
                 counters>>

(* Home Assistant stops anywhere and starts again from the files. *)
Restart ==
  /\ crashes < MaxCrashes
  /\ crashes' = crashes + 1
  /\ Load(yaml.autos)
  /\ pc' = "free" /\ req' = NoReq /\ tx' = NoTx /\ failedAt' = "-" /\ todo' = {}
  /\ boot' = "recover" /\ outcome' = "-" /\ owed' = {}
  /\ UNCHANGED <<durable, ghosts, now, txs, faults, edits>>

(* Reloading the config entry runs the start-up task again. *)
ReloadEntry ==
  /\ boot \in {"done", "aborted"} /\ pc = "free"
  /\ boot' = "recover"
  /\ UNCHANGED <<durable, registry, locals, outcome, owed, ghosts, counters>>

(* Where an edit by another program meets HomeIntent. *)
Phase == CASE pc # "free" -> pc
           [] pc = "free" /\ boot \notin {"done", "aborted"} -> "boot"
           [] pc = "free" /\ boot \in {"done", "aborted"} /\ journal # NoTx ->
                "stuck"
           [] OTHER -> "free"

(* Another program rewrites the file.  The UI editor reloads afterwards, a *)
(* text editor does not and may leave other bytes than HomeIntent's dump.  *)
EditTo(c) ==
  /\ c # yaml.autos
  /\ \E f \in Forms : yaml' = [autos |-> c, form |-> f]
  /\ handmade' = [x \in ExtIds |-> c[x]]
  /\ Load(c) \/ UNCHANGED registry

(* It adds, changes or removes an automation of its own, or removes one of *)
(* HomeIntent's.                                                           *)
Foreign == [on : {TRUE}, at : {0}, limit : {0}, body : Bodies]

ExternalEdit ==
  /\ Phase \in EditPoints /\ edits < MaxEdits
  /\ \/ \E x \in ExtIds, v \in Foreign \cup {Absent} : EditTo([yaml.autos EXCEPT ![x] = v])
     \/ \E i \in Ids : EditTo([yaml.autos EXCEPT ![i] = Absent])
  /\ edits' = edits + 1
  /\ UNCHANGED <<meta, journal, history, locals, told, issued, now, txs, faults,
                 crashes>>

Tick ==
  /\ now < MaxTime
  /\ now' = now + 1
  /\ UNCHANGED <<durable, registry, locals, told, ghosts, txs, faults, crashes,
                 edits>>

Steps == \/ CheckDigest \/ Abort \/ WriteYaml \/ WriteError \/ VerifyWrite
         \/ AppendHistory \/ Reload \/ Record \/ ExpireMetadata \/ EndExpire
         \/ Complete \/ PopHistory \/ UndoCheck \/ UndoWrite \/ UndoVerify
         \/ UndoClear \/ UndoPop \/ UndoMeta \/ UndoReload \/ RecoverReload
         \/ Reconcile \/ EndReconcile

Next == \/ UserRequest \/ UserExpireOrphans \/ FinalRunDelete
        \/ Steps \/ Startup
        \/ \E i \in Ids : RecordRun(i)
        \/ Restart \/ ReloadEntry \/ ExternalEdit \/ Tick

Spec == Init /\ [][Next]_vars

(* The event loop keeps running a started operation and the start-up task. *)
FairSpec == Spec /\ WF_vars(Steps) /\ WF_vars(Startup)

-------------------------------------------------------------------------------
(* What must hold *)

(* A transaction an operation is still working on. *)
Working == pc # "free" /\ tx # NoTx /\ req.kind # "recover"

(* The catalogue a caller may rely on.  While the journal holds a record    *)
(* whose file is written, the old one still counts, because a crash or an   *)
(* error brings it back; a deletion that no operation works on any more is  *)
(* only ever finished.                                                      *)
Committed ==
  IF /\ journal # NoTx /\ yaml = journal.after
     /\ Working \/ journal.op \notin Forward
  THEN journal.before.autos ELSE yaml.autos

Catalog == INSTANCE AutomationCatalog WITH
             Ids <- AllIds, Autos <- Automation,
             Expirable <- {a \in Automation : a.at # 0},
             catalog <- Committed,
             restorable <- {history[k].autos : k \in DOMAIN history}

(* The journalled transaction with its rollback and recovery (begin, roll   *)
(* back, complete, recover, rollback_last_change) shows callers whole       *)
(* operations only, through crashes and failing calls.                      *)
CatalogPromise == Catalog!CatalogSpec

(* begin_transaction writes the journal before the file: as long as nobody *)
(* else writes the file, an open journal record knows what the file holds,  *)
(* so a restart can always decide.                                          *)
Recoverable ==
  journal # NoTx /\ edits = 0 =>
    yaml.autos \in {journal.before.autos, journal.after.autos}

(* _write_content_if_unchanged and the rollback that goes through it: what *)
(* another program wrote under its own ids is never lost.                   *)
EditsSurvive == \A x \in ExtIds : yaml.autos[x] = handmade[x]

(* The except branches of every operation: a user who is told that an      *)
(* operation failed finds the file as it was, and the next one may begin.  *)
FailureLeavesNoTrace ==
  [][ outcome # "error" /\ outcome' = "error" /\ tx # NoTx /\ edits = 0 =>
        yaml'.autos = tx.before.autos /\ journal' = NoTx ]_vars

(* Reload, then category and metadata, then completion: a user who is told  *)
(* that a change is done finds it in what Home Assistant runs, and a new    *)
(* automation also in the category and in the sidecar file.                 *)
SuccessIsEverywhere ==
  [][ outcome' = "ok" /\ pc \in {"complete", "pop"} /\ edits = 0 =>
        /\ live' = yaml'.autos
        /\ req.kind = "create" =>
             meta'[req.id] # Absent /\ entity'[req.id] = "homeintent" ]_vars

(* No operation and no start-up task is under way or had to give up. *)
Settled == pc = "free" /\ journal = NoTx /\ boot = "done"

(* Across crashes at every step, recovery and reconciliation bring the     *)
(* sidecar file back in line with automations.yaml: neither has an entry   *)
(* the other lacks, and the schedule and the run limit are the same.       *)
StoresAgree ==
  Settled /\ edits = 0 =>
    \A i \in Ids :
      /\ Known(i) <=> Listed(i)
      /\ Known(i) => /\ meta[i].at = yaml.autos[i].at
                     /\ meta[i].limit = yaml.autos[i].limit

(* async_reconcile_homeintent_state: every automation HomeIntent knows is  *)
(* in its category once the start-up is through.                            *)
KnownAreCategorised ==
  Settled => \A i \in Ids : Known(i) /\ Listed(i) => entity[i] = "homeintent"

(* The missed-schedule policy reloads before it forgets: a one-shot it has  *)
(* taken out of the file no longer runs in Home Assistant when its metadata *)
(* is dropped.  (Overdue metadata without a list entry reloads nothing.)    *)
ExpiredAreStopped ==
  pc = "expire" /\ tx # NoTx /\ edits = 0 => \A i \in todo : live[i] = Absent

(* Whatever started is finished or rolled back: no journal record blocks   *)
(* the next change for ever.                                                *)
JournalDrains == journal # NoTx ~> journal = NoTx

(* _async_reconcile_and_cleanup_automations: once no call fails any more,   *)
(* the start-up task runs to its end and never gives up.                    *)
StartupCompletes == boot = "recover" /\ faults = MaxFaults ~> boot = "done"
===============================================================================
