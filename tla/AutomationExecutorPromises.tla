--------------------- MODULE AutomationExecutorPromises ---------------------
(***************************************************************************)
(* What the automation executor promises those who call it, for every      *)
(* number of automations, every bound and every set of requests: that what *)
(* they may rely on changes by whole operations only, that who is told of  *)
(* a success finds it, that who is told of a failure finds nothing, and    *)
(* that a missed one-shot is stopped before it is forgotten.               *)
(*                                                                         *)
(* The strengthening of IInv says where an operation stands (Orderly),     *)
(* where it has put the file (InPlace), what it changes (Changes) and that *)
(* an id has a time in all records or in none (Natured).                   *)
(***************************************************************************)
EXTENDS AutomationExecutorProofs

-------------------------------------------------------------------------------
(* Where an operation stands *)

Undoing == {"undo_check", "undo_write", "undo_verify", "undo_clear"}
Expiring == pc = "expire" /\ tx # NoTx
InTx == pc \in Begun \/ Expiring

(* Which transaction the holder of the lock works on, and for whom. *)
Orderly ==
  /\ pc \in {"pop", "undo_pop", "undo_meta", "undo_reload", "recover_reload"} =>
       journal = NoTx
  /\ pc = "reconcile" => tx = NoTx
  /\ pc # "free" => (req.kind = "reconcile" <=> pc = "reconcile")
  /\ InTx => IF req.kind = "recover"
             THEN pc \in Undoing /\ tx.op \notin Forward
             ELSE req.kind \in Kinds \cup {"cleanup"} /\ tx.op = JournalOp(req)
  /\ pc = "history" => req.kind # "rollback"
  /\ pc = "pop" => req.kind = "rollback"
  /\ pc = "recover_reload" => req.kind = "recover"
  /\ pc = "expire" => req.kind \in {"expire", "cleanup"}
  /\ pc # "free" /\ req.kind = "cleanup" => boot = "cleanup"

(* As long as nobody else writes the file, it holds one of the two lists of *)
(* the transaction, and after its reload Home Assistant runs the new one.   *)
InPlace ==
  edits = 0 =>
    /\ pc \in {"check", "write", "write_error", "abort"} => yaml = tx.before
    /\ pc \in {"verify", "history", "reload", "record", "complete",
               "undo_check", "undo_write"} \/ Expiring => yaml = tx.after
    /\ pc \in {"undo_verify", "undo_clear"} => yaml = Restored
    /\ pc \in {"undo_pop", "undo_meta", "undo_reload"} => yaml.autos = tx.before.autos
    /\ pc \in {"record", "complete", "pop"} \/ Expiring => live = yaml.autos

-------------------------------------------------------------------------------
(* What a transaction changes *)

(* A change to one automation, or the removal of dated ones. *)
Whole(t) ==
  LET old == t.before.autos
      new == t.after.autos
  IN  /\ t.op \notin {"expire", "rollback"} =>
           \E i \in AllIds : \A j \in AllIds : j # i => new[j] = old[j]
      /\ t.op = "expire" =>
           \A i \in AllIds : new[i] # old[i] => old[i] # Absent /\ old[i].at # 0
      /\ t.op \in Forward => \A i \in AllIds : new[i] \in {old[i], Absent}
      /\ t.op \notin Forward \cup {"rollback"} =>
           \A i \in AllIds : old[i] # Absent => new[i] # Absent

(* The change is the one that was asked for. *)
Asked(t, r) ==
  LET old == t.before.autos
      new == t.after.autos
  IN  /\ r.kind \in Kinds \ {"expire", "rollback"} =>
           \A j \in AllIds : j # r.id => new[j] = old[j]
      /\ r.kind = "create" =>
           /\ old[r.id] = Absent /\ new[r.id] # Absent
           /\ new[r.id].at = r.at /\ new[r.id].limit = r.limit
      /\ r.kind = "delete" => new[r.id] = Absent
      /\ r.kind \in {"enable", "disable"} \cup UpdateKinds =>
           /\ old[r.id] # Absent /\ new[r.id] # Absent
           /\ new[r.id].at = IF r.kind = "reschedule" THEN r.at ELSE old[r.id].at
           /\ new[r.id].limit = IF r.kind = "set_max_runs" THEN r.limit
                                ELSE old[r.id].limit
      /\ r.kind = "rollback" => \E k \in DOMAIN history : new = history[k].autos

Changes ==
  edits = 0 =>
    /\ journal # NoTx => Whole(journal)
    /\ pc \in Applying \cup {"complete"} => Asked(tx, req)
    /\ pc \in Begun \cup {"undo_pop", "undo_meta"} /\ req.kind = "create" =>
         tx.before.autos[req.id] = Absent
    /\ pc \in {"undo_pop", "undo_meta"} /\ req.kind = "create" =>
         yaml.autos[req.id] = Absent
    /\ pc \in Applying /\ req.kind \in {"expire", "cleanup"} =>
         \A i \in AllIds : tx.after.autos[i] = IF i \in todo THEN Absent
                                               ELSE tx.before.autos[i]
    /\ pc = "expire" => \A i \in todo : ~Listed(i)

(* Everything that is or was said of an id says alike whether it has a time. *)
Fits(c, dated) ==
  \A i \in Ids : c[i] # Absent => i \in issued /\ (c[i].at # 0 <=> i \in dated)
FitsTx(t, dated) == Fits(t.before.autos, dated) /\ Fits(t.after.autos, dated)
AllFit(dated) ==
  /\ Fits(yaml.autos, dated) /\ Fits(meta, dated)
  /\ journal # NoTx => FitsTx(journal, dated)
  /\ tx # NoTx => FitsTx(tx, dated)
  /\ \A k \in DOMAIN history :
       Fits(history[k].autos, dated) /\ Fits(history[k].meta, dated)
Natured == edits = 0 => \E dated \in SUBSET Ids : AllFit(dated)

(* All of it. *)
Told == Orderly /\ InPlace /\ Changes /\ Natured

-------------------------------------------------------------------------------
(* The steps of an operation come in order *)

(* Nothing is under way at first. *)
LEMMA OrderlyInit == Init => Orderly
BY DEF Init, Orderly, InTx, Begun, Expiring

(* A transaction begins under the name of its request. *)
LEMMA OrderlyBegin ==
  ASSUME IInv, Orderly, NEW r, r.kind \in Kinds \cup {"cleanup"}, Begin(r),
         r.kind = "cleanup" => boot = "cleanup"
  PROVE  Orderly'
<1>1. /\ pc' = "check" /\ req' = r /\ tx'.op = JournalOp(r) /\ tx' = journal'
      /\ boot' = boot
  BY DEF Begin
<1>2. r.kind \notin {"recover", "reconcile"}
  BY DEF Kinds, UpdateKinds
<1> QED
  BY <1>1, <1>2 DEF Orderly, InTx, Begun, Expiring

(* The end of an operation leaves nothing to say. *)
LEMMA OrderlyFinish ==
  ASSUME pc' = "free"
  PROVE  Orderly'
BY DEF Orderly, InTx, Begun, Expiring

(* A step within an operation keeps its request and its transaction. *)
LEMMA OrderlySteps == IInv /\ Orderly /\ Steps => Orderly'
<1> SUFFICES ASSUME IInv, Orderly, Steps PROVE Orderly'
  OBVIOUS
<1>1. CASE pc' = "free"
  BY <1>1, OrderlyFinish
<1>2. ASSUME pc' # "free", \/ CheckDigest \/ Abort \/ WriteYaml \/ WriteError \/ AppendHistory
      PROVE  Orderly'
  BY <1>2 DEF CheckDigest, Abort, WriteYaml, WriteError, AppendHistory, Goto, Undo, Finish,
     durable, told, Orderly, InTx, Begun, Expiring, Undoing
<1>3. ASSUME pc' # "free", VerifyWrite
      PROVE  Orderly'
  <2>1. tx \in Tx /\ tx' \in {tx, [tx EXCEPT !.after = yaml]}
    BY <1>3 DEF VerifyWrite, Goto, Finish, IInv, InFlight, Journalled, Begun, TypeOK
  <2>2. tx'.op = tx.op
    BY <2>1 DEF Tx
  <2> QED
    BY <1>3, <2>2 DEF VerifyWrite, Goto, Finish, told, Orderly, InTx, Begun, Expiring,
       Undoing, JournalOp
<1>4. ASSUME pc' # "free", Reload \/ Record
      PROVE  Orderly'
  BY <1>4 DEF Reload, Record, AfterReload, MetaFails, Goto, Undo, durable, told, Orderly,
     InTx, Begun, Expiring, Undoing
<1>5. ASSUME pc' # "free", ExpireMetadata \/ EndExpire \/ Complete \/ PopHistory
      PROVE  Orderly'
  BY <1>5 DEF ExpireMetadata, EndExpire, Complete, PopHistory, Next1, Goto, Finish, durable,
     told, Orderly, InTx, Begun, Expiring, Undoing
<1>6. ASSUME pc' # "free", UndoCheck \/ UndoWrite \/ UndoVerify \/ UndoClear
      PROVE  Orderly'
  BY <1>6 DEF UndoCheck, UndoWrite, UndoVerify, UndoClear, Goto, Finish, durable,
     told, Orderly, InTx, Begun, Expiring, Undoing
<1>7. ASSUME pc' # "free", UndoPop
      PROVE  Orderly'
  BY <1>7 DEF UndoPop, AfterUndo, Goto, Finish, told, Orderly, InTx, Begun, Expiring,
     Undoing
<1>8. ASSUME pc' # "free", \/ UndoMeta \/ UndoReload \/ RecoverReload \/ Reconcile \/ EndReconcile
      PROVE  Orderly'
  BY <1>8 DEF UndoMeta, UndoReload, RecoverReload, Reconcile, EndReconcile, DropOrphan,
     RepairKnown, Next1, Goto, Finish, durable, told, Orderly, InTx, Begun, Expiring,
     Undoing
<1> QED
  BY <1>1, <1>2, <1>3, <1>4, <1>5, <1>6, <1>7, <1>8 DEF Steps

(* The requests of users and of final runs, and those of the start-up. *)
LEMMA Beginnings ==
  ASSUME IInv
  PROVE  /\ UserRequest \/ FinalRunDelete =>
              \E r \in AnyRequest : r.kind \in Kinds /\ Begin(r)
         /\ UserRequest => \E r \in Requests : r \in Request /\ r \in AnyRequest /\ Begin(r)
         /\ FinalRunDelete => \E i \in Ids : Begin(Deletion(i))
         /\ StartupRequest("cleanup") \in AnyRequest
         /\ StartupRequest("cleanup").kind = "cleanup"
<1>1. \A r \in Requests : r \in Request /\ r \in AnyRequest /\ r.kind \in Kinds
  BY ExecutorAssumption DEF AnyRequest, Request
<1>2. \A i \in owed : i \in Ids /\ Deletion(i) \in AnyRequest /\ Deletion(i).kind \in Kinds
  BY DEF AnyRequest, Deletion, Kinds, IInv, TypeOK
<1>3. /\ StartupRequest("cleanup") \in AnyRequest
      /\ StartupRequest("cleanup").kind = "cleanup"
  BY DEF AnyRequest, StartupRequest, StartupKinds
<1> QED
  BY <1>1, <1>2, <1>3 DEF UserRequest, FinalRunDelete

(* Every step keeps the order. *)
LEMMA OrderlyNext == IInv /\ Orderly /\ [Next]_vars => Orderly'
<1> SUFFICES ASSUME IInv, Orderly, [Next]_vars PROVE Orderly'
  OBVIOUS
<1>1. CASE UserRequest \/ FinalRunDelete
  <2>1. PICK r \in AnyRequest : r.kind \in Kinds /\ Begin(r)
    BY <1>1, Beginnings
  <2>2. r.kind # "cleanup"
    BY <2>1 DEF Kinds, UpdateKinds
  <2> QED
    BY <2>1, <2>2, OrderlyBegin
<1>2. CASE Steps
  BY <1>2, OrderlySteps
<1>3. CASE UserExpireOrphans
  <2>1. PICK r \in Requests : r.kind \in Kinds /\ ExpireOrphans(r)
    BY <1>3, ExecutorAssumption DEF UserExpireOrphans, Request
  <2>2. r.kind # "cleanup"
    BY <2>1 DEF Kinds, UpdateKinds
  <2> QED
    BY <2>1, <2>2 DEF ExpireOrphans, durable, IInv, InFlight, Orderly, InTx, Begun, Expiring
<1>4. CASE StartupCleanup
  <2>1. CASE Begin(StartupRequest("cleanup"))
    BY <1>4, <2>1, Beginnings, OrderlyBegin DEF StartupCleanup
  <2>2. CASE ExpireOrphans(StartupRequest("cleanup"))
    BY <1>4, <2>2 DEF StartupCleanup, ExpireOrphans, StartupRequest, durable, IInv, InFlight,
       Orderly, InTx, Begun, Expiring
  <2>3. CASE CleanupRefused
    BY <1>4, <2>3 DEF StartupCleanup, CleanupRefused, locals, durable, Orderly, InTx, Begun,
       Expiring
  <2> QED
    BY <1>4, <2>1, <2>2, <2>3 DEF StartupCleanup
<1>5. CASE Recover
  BY <1>5 DEF Recover, RecoverNothing, RecoverForward, RecoverBack, RecoverConflict,
     StartupRequest, locals, IInv, InFlight, Orderly, InTx, Begun, Expiring, Undoing
<1>6. CASE BeginReconcile
  BY <1>6 DEF BeginReconcile, StartupRequest, durable, IInv, InFlight, Orderly, InTx, Begun,
     Expiring
<1>7. CASE Restart \/ ReloadEntry \/ \E i \in Ids : RecordRun(i)
  BY <1>7, OrderlyFinish DEF Restart, ReloadEntry, RecordRun, locals
<1>8. CASE ExternalEdit \/ Tick \/ UNCHANGED vars
  BY <1>8 DEF ExternalEdit, Tick, vars, locals, told, durable, Orderly, InTx, Begun,
     Expiring
<1> QED
  BY <1>1, <1>2, <1>3, <1>4, <1>5, <1>6, <1>7, <1>8 DEF Next, Startup

-------------------------------------------------------------------------------
(* The file is where the transaction has put it *)

(* Nothing of it matters to the one who holds no lock. *)
LEMMA InPlaceFinish ==
  ASSUME pc' = "free"
  PROVE  InPlace'
BY DEF InPlace, Expiring

(* Without other writers every comparison succeeds. *)
LEMMA InPlaceSteps == IInv /\ Orderly /\ InPlace /\ Steps => InPlace'
<1> SUFFICES ASSUME IInv, Orderly, InPlace, Steps, edits' = 0 PROVE InPlace'
  BY DEF InPlace
<1>0. edits = 0
  BY DEF Steps, CheckDigest, Abort, WriteYaml, WriteError, VerifyWrite, AppendHistory, Reload,
     Record, ExpireMetadata, EndExpire, Complete, PopHistory, UndoCheck, UndoWrite, UndoVerify,
     UndoClear, UndoPop, UndoMeta, UndoReload, RecoverReload, Reconcile, EndReconcile, counters
<1>1. CASE pc' = "free"
  BY <1>1, InPlaceFinish
<1>2. ASSUME pc' # "free", \/ CheckDigest \/ Abort \/ WriteYaml \/ WriteError \/ AppendHistory
      PROVE  InPlace'
  BY <1>0, <1>2 DEF CheckDigest, DigestMatches, Abort, WriteYaml, WriteError, AppendHistory,
     Goto, Undo, Finish, durable, InPlace, Expiring
<1>3. ASSUME pc' # "free", VerifyWrite
      PROVE  InPlace'
  <2>1. tx \in Tx
    BY <1>3 DEF VerifyWrite, IInv, InFlight, Journalled, Begun, TypeOK
  <2>2. yaml = tx.after /\ [tx EXCEPT !.after = yaml] = tx
    BY <1>0, <1>3, <2>1 DEF VerifyWrite, InPlace, Tx
  <2> QED
    BY <1>0, <1>3, <2>2 DEF VerifyWrite, Goto, Finish, InPlace, Expiring
<1>4. ASSUME pc' # "free", Reload
      PROVE  InPlace'
  BY <1>0, <1>4 DEF Reload, AfterReload, Reloaded, ReloadFails, Load, Goto, Undo, durable,
     InPlace, Expiring
<1>5. ASSUME pc' # "free", Record
      PROVE  InPlace'
  BY <1>0, <1>5 DEF Record, MetaFails, Goto, Undo, InPlace, Expiring
<1>6. ASSUME pc' # "free", ExpireMetadata \/ EndExpire \/ Complete \/ PopHistory
      PROVE  InPlace'
  BY <1>0, <1>6 DEF ExpireMetadata, EndExpire, Complete, PopHistory, Next1, Goto, Finish,
     durable, registry, InPlace, Expiring
<1>7. ASSUME pc' # "free", UndoCheck \/ UndoWrite \/ UndoVerify \/ UndoClear
      PROVE  InPlace'
  BY <1>0, <1>7 DEF UndoCheck, UndoWrite, UndoVerify, UndoClear, Restored, Dump, Goto, Finish,
     durable, InPlace, Expiring
<1>8. ASSUME pc' # "free", \/ UndoPop \/ UndoMeta \/ UndoReload \/ RecoverReload \/ Reconcile
                           \/ EndReconcile
      PROVE  InPlace'
  BY <1>0, <1>8 DEF UndoPop, AfterUndo, UndoMeta, UndoReload, RecoverReload, Reconcile,
     EndReconcile, DropOrphan, RepairKnown, Next1, Goto, Finish, InPlace, Expiring
<1> QED
  BY <1>1, <1>2, <1>3, <1>4, <1>5, <1>6, <1>7, <1>8 DEF Steps

(* Every step keeps the file in place. *)
LEMMA InPlaceNext == IInv /\ Orderly /\ InPlace /\ [Next]_vars => InPlace'
<1> SUFFICES ASSUME IInv, Orderly, InPlace, [Next]_vars PROVE InPlace'
  OBVIOUS
<1>1. CASE UserRequest \/ FinalRunDelete \/ Begin(StartupRequest("cleanup"))
  <2>1. PICK r : Begin(r)
    BY <1>1 DEF UserRequest, FinalRunDelete
  <2>2. pc' = "check" /\ tx'.before = yaml /\ yaml' = yaml
    BY <2>1 DEF Begin
  <2> QED
    BY <2>2 DEF InPlace, Expiring
<1>2. CASE Steps
  BY <1>2, InPlaceSteps
<1>3. CASE UserExpireOrphans \/ ExpireOrphans(StartupRequest("cleanup"))
  BY <1>3 DEF UserExpireOrphans, ExpireOrphans, IInv, InFlight, InPlace, Expiring
<1>4. CASE Recover
  BY <1>4 DEF Recover, RecoverNothing, RecoverForward, RecoverBack, RecoverConflict, counters,
     locals, InPlace, Expiring
<1>5. CASE ExternalEdit
  <2>1. edits' # 0
    BY <1>5, ExecutorAssumption DEF ExternalEdit, IInv, TypeOK
  <2> QED
    BY <2>1 DEF InPlace
<1>6. CASE \/ BeginReconcile \/ CleanupRefused \/ Restart \/ ReloadEntry
           \/ \E i \in Ids : RecordRun(i)
  BY <1>6 DEF BeginReconcile, CleanupRefused, Restart, ReloadEntry, RecordRun, locals,
     durable, registry, counters, InPlace, Expiring, Restored
<1>7. CASE Tick \/ UNCHANGED vars
  BY <1>7 DEF Tick, vars, locals, durable, registry, counters, InPlace, Expiring, Restored
<1> QED
  BY <1>1, <1>2, <1>3, <1>4, <1>5, <1>6, <1>7 DEF Next, Startup, StartupCleanup

-------------------------------------------------------------------------------
(* A transaction changes what it was asked to change *)

(* What each request does to the list, id by id. *)
LEMMA UpdatedAt ==
  ASSUME IInv, NEW r \in AnyRequest, r.kind \in Kinds \cup {"cleanup"}, Allowed(r)
  PROVE  /\ r.kind \in Kinds \ {"expire", "rollback"} =>
              \A j \in AllIds : j # r.id => Updated(r)[j] = yaml.autos[j]
         /\ r.kind = "create" =>
              /\ Updated(r)[r.id] # Absent
              /\ Updated(r)[r.id].at = r.at /\ Updated(r)[r.id].limit = r.limit
         /\ r.kind = "delete" => Updated(r)[r.id] = Absent
         /\ r.kind \in {"enable", "disable"} \cup UpdateKinds =>
              /\ Listed(r.id) /\ Updated(r)[r.id] # Absent
              /\ Updated(r)[r.id].at = IF r.kind = "reschedule" THEN r.at
                                       ELSE yaml.autos[r.id].at
              /\ Updated(r)[r.id].limit = IF r.kind = "set_max_runs" THEN r.limit
                                          ELSE yaml.autos[r.id].limit
         /\ r.kind \in {"expire", "cleanup"} =>
              \A i \in AllIds : Updated(r)[i] = IF i \in Overdue THEN Absent
                                                ELSE yaml.autos[i]
         /\ r.kind = "rollback" =>
              history # <<>> /\ Updated(r) = history[Len(history)].autos
<1>1. /\ r.kind \in Kinds => r.id \in Ids /\ r.id \in AllIds
      /\ r.kind \in Kinds \ {"delete"} => r \in Request
  BY RequestShape DEF AllIds
<1>2. yaml.autos \in Catalogs
  BY AutoType DEF IInv
<1>3. \A v, i : /\ \A j \in AllIds : j # i => With(i, v)[j] = yaml.autos[j]
                /\ i \in AllIds => With(i, v)[i] = v
  BY <1>2 DEF With, Catalogs
<1>4. CASE r.kind = "create"
  <2> DEFINE v == [on |-> TRUE, at |-> r.at, limit |-> r.limit, body |-> r.body]
  <2>0. r \in Request
    BY <1>1, <1>4 DEF Kinds
  <2>1. v \in Automation /\ v.at = r.at /\ v.limit = r.limit
    BY <2>0 DEF Request, Automation
  <2>3. v # Absent
    BY <2>1, NullAssumption
  <2>2. Updated(r) = With(r.id, v)
    BY <1>4 DEF Updated, Created
  <2> HIDE DEF v
  <2> QED
    BY <1>1, <1>3, <1>4, <2>1, <2>2, <2>3 DEF Kinds, UpdateKinds
<1>5. CASE r.kind = "delete"
  <2>1. Updated(r) = With(r.id, Absent)
    BY <1>5 DEF Updated, Deleted
  <2> QED
    BY <1>1, <1>3, <1>5, <2>1 DEF Kinds, UpdateKinds
<1>6. CASE r.kind \in {"enable", "disable"} \cup UpdateKinds
  <2> DEFINE a == yaml.autos[r.id]
             v == CASE r.kind \in {"enable", "disable"} -> [a EXCEPT !.on = (r.kind = "enable")]
                    [] r.kind = "reschedule" -> [a EXCEPT !.at = r.at]
                    [] r.kind = "set_max_runs" -> [a EXCEPT !.limit = r.limit]
                    [] r.kind \in {"replace_actions", "replace_section"} ->
                         [a EXCEPT !.body = r.body]
  <2>1. Listed(r.id)
    BY <1>6 DEF Allowed, UpdateKinds
  <2>2. a \in Automation /\ r \in Request
    BY <1>1, <1>6, <2>1, AutoType DEF IInv, Listed, Kinds, UpdateKinds
  <2>3. v \in Automation
    BY <1>6, <2>2 DEF Automation, Request, UpdateKinds
  <2>4. /\ v.at = IF r.kind = "reschedule" THEN r.at ELSE a.at
        /\ v.limit = IF r.kind = "set_max_runs" THEN r.limit ELSE a.limit
    BY <1>6, <2>2 DEF Automation, Request, UpdateKinds
  <2>5. Updated(r) = With(r.id, v)
    BY <1>6 DEF Updated, Switched, Rescheduled, Limited, Rewritten, UpdateKinds
  <2>6. v # Absent
    BY <2>3, NullAssumption
  <2> HIDE DEF v
  <2> QED
    BY <1>1, <1>3, <1>6, <2>1, <2>4, <2>5, <2>6 DEF Kinds, UpdateKinds
<1>7. CASE r.kind \in {"expire", "cleanup"}
  <2>1. Updated(r) = Remaining
    BY <1>7 DEF Updated, UpdateKinds
  <2> QED
    BY <1>7, <2>1 DEF Remaining, Kinds, UpdateKinds
<1>8. CASE r.kind = "rollback"
  BY <1>8 DEF Updated, Allowed, UpdateKinds
<1> QED
  BY <1>4, <1>5, <1>6, <1>7, <1>8 DEF Kinds

(* A new transaction changes what was asked, one automation or the dated ones. *)
LEMMA ChangesBegin ==
  ASSUME IInv, Natured, edits = 0, NEW r \in AnyRequest,
         r.kind \in Kinds \cup {"cleanup"}, Begin(r)
  PROVE  /\ Whole(tx') /\ Asked(tx', r)
         /\ r.kind = "create" => yaml.autos[r.id] = Absent
         /\ r.kind \in {"expire", "cleanup"} =>
              \A i \in AllIds : tx'.after.autos[i] = IF i \in Overdue THEN Absent
                                                     ELSE yaml.autos[i]
<1>1. /\ tx'.op = JournalOp(r) /\ tx'.before = yaml /\ tx'.after.autos = Updated(r)
      /\ Allowed(r)
      /\ r.kind = "create" => r.id \notin issued
  BY DEF Begin, Dump, Allowed
<1>2. /\ r.kind \in Kinds => r.id \in Ids /\ r.id \in AllIds
      /\ yaml.autos \in Catalogs
  BY RequestShape, AutoType DEF IInv, AllIds
<1>3. PICK dated \in SUBSET Ids : AllFit(dated)
  BY DEF Natured
<1>4. r.kind = "create" => yaml.autos[r.id] = Absent
  <2>1. Fits(yaml.autos, dated)
    BY <1>3 DEF AllFit
  <2>2. r.kind = "create" => r.id \in Ids
    BY <1>2 DEF Kinds
  <2> QED
    BY <1>1, <2>1, <2>2 DEF Fits
<1>5. \A i \in Overdue : Listed(i) => yaml.autos[i].at # 0
  BY <1>3 DEF AllFit, Fits, Overdue, Known, Listed
<1> DEFINE new == Updated(r)
<1>6. /\ r.kind \in Kinds \ {"expire", "rollback"} =>
           \A j \in AllIds : j # r.id => new[j] = yaml.autos[j]
      /\ r.kind = "create" => new[r.id] # Absent /\ new[r.id].at = r.at
                              /\ new[r.id].limit = r.limit
      /\ r.kind = "delete" => new[r.id] = Absent
      /\ r.kind \in {"enable", "disable"} \cup UpdateKinds =>
           /\ Listed(r.id) /\ new[r.id] # Absent
           /\ new[r.id].at = IF r.kind = "reschedule" THEN r.at ELSE yaml.autos[r.id].at
           /\ new[r.id].limit = IF r.kind = "set_max_runs" THEN r.limit
                                ELSE yaml.autos[r.id].limit
      /\ r.kind \in {"expire", "cleanup"} =>
           \A i \in AllIds : new[i] = IF i \in Overdue THEN Absent ELSE yaml.autos[i]
      /\ r.kind = "rollback" => history # <<>> /\ new = history[Len(history)].autos
  BY <1>1, UpdatedAt
<1>7. tx'.after.autos = new
  BY <1>1
<1> HIDE DEF new
<1>8. history' = history
  BY DEF Begin
<1>9. Asked(tx', r)
  <2>1. r.kind = "rollback" => Len(history) \in DOMAIN history
    BY <1>6 DEF IInv, TypeOK
  <2> QED
    BY <1>1, <1>4, <1>6, <1>7, <1>8, <2>1 DEF Asked, Kinds, Listed
<1>10. Whole(tx')
  <2>1. CASE r.kind \in {"expire", "cleanup"}
    BY <1>1, <1>5, <1>6, <1>7, <2>1 DEF Whole, JournalOp, Forward, Listed, AllIds
  <2>2. CASE r.kind = "rollback"
    BY <1>1, <2>2 DEF Whole, JournalOp, Forward
  <2>3. CASE r.kind \in Kinds \ {"expire", "rollback"}
    <3>1. tx'.op = r.kind /\ r.kind \notin {"expire", "rollback"}
      BY <1>1, <2>3 DEF JournalOp, Kinds, UpdateKinds
    <3>2. \A i \in AllIds : /\ r.kind = "delete" => new[i] \in {yaml.autos[i], Absent}
                            /\ r.kind # "delete" /\ yaml.autos[i] # Absent => new[i] # Absent
      BY <1>4, <1>6, <2>3 DEF Kinds
    <3> QED
      BY <1>1, <1>2, <1>6, <1>7, <2>3, <3>1, <3>2 DEF Whole, Forward
  <2> QED
    BY <2>1, <2>2, <2>3
<1> QED
  BY <1>1, <1>4, <1>6, <1>7, <1>9, <1>10

(* Outside an operation only the journal record matters. *)
LEMMA ChangesFinish ==
  ASSUME Changes, edits' = edits, journal' \in {journal, NoTx},
         pc' \notin Begun \cup {"undo_pop", "undo_meta", "expire"}
  PROVE  Changes'
<1>1. pc' \notin Applying \cup {"complete"}
  BY DEF Applying, Begun
<1> QED
  BY <1>1 DEF Changes, Whole

(* Between two steps of an operation the transaction stays what it was. *)
LEMMA ChangesWithin ==
  ASSUME Changes, edits' = edits, journal' = journal, tx' = tx, req' = req, todo' = todo,
         history' = history,
         pc \in Applying, pc' \in Begun \ {"undo_check"}
  PROVE  Changes'
<1>1. /\ pc \in Begun \cup {"undo_pop", "undo_meta"} /\ pc' \notin {"undo_pop", "undo_meta", "expire"}
      /\ pc \in Applying \cup {"complete"}
  BY DEF Applying, Begun
<1> QED
  BY <1>1 DEF Changes, Whole, Asked

(* What can still be undone is what was there before. *)
LEMMA ChangesUndoing ==
  ASSUME Changes, edits' = edits, journal' \in {journal, NoTx}, tx' = tx, req' = req,
         pc \in Begun, pc' \in {"write_error", "abort"} \cup Undoing
  PROVE  Changes'
<1>1. pc' \notin Applying \cup {"complete", "undo_pop", "undo_meta", "expire"}
  BY DEF Applying, Undoing
<1> QED
  BY <1>1 DEF Changes, Whole

(* Every step of an operation works on the change it began with. *)
LEMMA ChangesSteps == IInv /\ Orderly /\ InPlace /\ Changes /\ Steps => Changes'
<1> SUFFICES ASSUME IInv, Orderly, InPlace, Changes, Steps, edits' = 0 PROVE Changes'
  BY DEF Changes
<1>0. edits = 0
  BY DEF Steps, CheckDigest, Abort, WriteYaml, WriteError, VerifyWrite, AppendHistory, Reload,
     Record, ExpireMetadata, EndExpire, Complete, PopHistory, UndoCheck, UndoWrite, UndoVerify,
     UndoClear, UndoPop, UndoMeta, UndoReload, RecoverReload, Reconcile, EndReconcile, counters
<1>1. CASE CheckDigest \/ WriteYaml
  BY <1>0, <1>1, ChangesWithin DEF CheckDigest, WriteYaml, Goto, durable, Applying, Begun
<1>2. CASE \/ Abort \/ WriteError \/ PopHistory \/ UndoReload \/ RecoverReload \/ Reconcile
           \/ EndReconcile
  BY <1>0, <1>2, ChangesFinish, ChangesUndoing DEF Abort, WriteError, PopHistory, UndoReload,
     RecoverReload, Reconcile, EndReconcile, DropOrphan, RepairKnown, Finish, Goto, Next1,
     durable, Begun, Undoing
<1>3. CASE VerifyWrite
  <2>1. tx \in Tx /\ journal = tx
    BY <1>3 DEF VerifyWrite, IInv, InFlight, Journalled, Begun, TypeOK
  <2>2. yaml = tx.after /\ [tx EXCEPT !.after = yaml] = tx
    BY <1>0, <1>3, <2>1 DEF VerifyWrite, InPlace, Tx
  <2>3. CASE pc' = "free"
    BY <1>0, <1>3, <2>1, <2>2, <2>3, ChangesFinish DEF VerifyWrite, Finish, Goto, Begun
  <2>4. CASE pc' # "free"
    BY <1>0, <1>3, <2>1, <2>2, <2>4, ChangesWithin DEF VerifyWrite, Finish, Goto, Applying,
       Begun
  <2> QED
    BY <2>3, <2>4
<1>4. CASE AppendHistory
  <2>1. pc = "history" /\ req.kind # "rollback"
    BY <1>4 DEF AppendHistory, Orderly
  <2>2. CASE Goto("reload")
    BY <1>0, <1>4, <2>1, <2>2 DEF AppendHistory, Goto, Changes, Whole, Asked, Applying, Begun
  <2>3. CASE Undo("history")
    BY <1>0, <1>4, <2>3, ChangesUndoing DEF AppendHistory, Undo, Begun, Undoing
  <2> QED
    BY <1>4, <2>2, <2>3 DEF AppendHistory
<1>5. CASE Reload
  <2>1. pc = "reload" /\ yaml = tx.after /\ yaml' = yaml
    BY <1>0, <1>5 DEF Reload, InPlace, durable
  <2>2. CASE Undo("reload")
    BY <1>0, <1>5, <2>2, ChangesUndoing DEF Reload, Undo, Begun, Undoing, durable
  <2>3. CASE Goto(AfterReload(req.kind)) /\ AfterReload(req.kind) # "expire"
    BY <1>0, <1>5, <2>1, <2>3, ChangesWithin DEF Reload, Goto, AfterReload, Applying, Begun,
       durable
  <2>4. CASE Goto("expire") /\ AfterReload(req.kind) = "expire"
    <3>1. req.kind \in {"expire", "cleanup"}
      BY <2>4 DEF AfterReload
    <3>2. \A i \in todo : i \in AllIds /\ tx.after.autos[i] = Absent
      BY <1>0, <2>1, <3>1 DEF Changes, Applying, IInv, TypeOK, AllIds
    <3>3. (\A i \in todo : ~Listed(i))'
      BY <1>5, <2>1, <2>4, <3>2 DEF Goto, Listed
    <3>4. pc' = "expire" /\ journal' = journal
      BY <1>5, <2>4 DEF Reload, Goto, durable
    <3> QED
      BY <1>0, <3>3, <3>4 DEF Changes, Whole, Applying, Begun
  <2> QED
    BY <1>5, <2>2, <2>3, <2>4 DEF Reload
<1>6. CASE Record
  <2>1. CASE Undo("record")
    BY <1>0, <1>6, <2>1, ChangesUndoing DEF Record, Undo, Begun, Undoing
  <2>2. CASE Goto("complete")
    BY <1>0, <1>6, <2>2, ChangesWithin DEF Record, Goto, Applying, Begun
  <2> QED
    BY <1>6, <2>1, <2>2 DEF Record, MetaFails
<1>7. CASE ExpireMetadata
  <2>1. CASE pc' = "free"
    BY <1>0, <1>7, <2>1, ChangesFinish DEF ExpireMetadata, Begun
  <2>2. CASE pc' # "free"
    BY <1>0, <1>7, <2>2 DEF ExpireMetadata, Next1, Finish, Changes, Whole, Listed, Applying, Begun
  <2> QED
    BY <2>1, <2>2
<1>8. CASE EndExpire
  <2>1. CASE pc' = "free"
    BY <1>0, <1>8, <2>1, ChangesFinish DEF EndExpire, durable, Begun
  <2>2. CASE Goto("complete")
    <3>1. req.kind \in {"expire", "cleanup"}
      BY <1>8 DEF EndExpire, Orderly
    <3>2. (Asked(tx, req))'
      BY <2>2, <3>1 DEF Asked, Goto, Kinds, UpdateKinds
    <3> QED
      BY <1>0, <1>8, <2>2, <3>1, <3>2 DEF EndExpire, Goto, durable, Changes, Whole, Applying
  <2> QED
    BY <1>8, <2>1, <2>2 DEF EndExpire, Finish
<1>9. CASE Complete
  BY <1>0, <1>9, ChangesFinish DEF Complete, Goto, Finish, Begun
<1>10. CASE UndoCheck \/ UndoWrite \/ UndoVerify
  <2>1. CASE pc' = "free"
    BY <1>0, <1>10, <2>1, ChangesFinish DEF UndoCheck, UndoWrite, UndoVerify, durable, Begun
  <2>2. CASE pc' # "free"
    BY <1>0, <1>10, <2>2, ChangesUndoing DEF UndoCheck, UndoWrite, UndoVerify, Goto, Finish,
       durable, Begun, Undoing
  <2> QED
    BY <2>1, <2>2
<1>11. CASE UndoClear
  <2>1. CASE pc' = "free"
    BY <1>0, <1>11, <2>1, ChangesFinish DEF UndoClear, Begun
  <2>2. CASE Goto("undo_pop")
    BY <1>0, <1>11, <2>2 DEF UndoClear, Goto, InPlace, Restored, Dump, Changes, Whole, Applying,
       Begun
  <2> QED
    BY <1>11, <2>1, <2>2 DEF UndoClear, Finish
<1>12. CASE UndoPop \/ UndoMeta
  <2>1. CASE pc' # "undo_meta"
    BY <1>0, <1>12, <2>1, ChangesFinish DEF UndoPop, UndoMeta, AfterUndo, Goto, Finish, Begun
  <2>2. CASE UndoPop /\ pc' = "undo_meta"
    BY <1>0, <2>2 DEF UndoPop, Goto, Finish, Changes, Whole, Applying, Begun
  <2> QED
    BY <1>12, <2>1, <2>2 DEF UndoMeta, Goto, Finish
<1> QED
  BY <1>1, <1>2, <1>3, <1>4, <1>5, <1>6, <1>7, <1>8, <1>9, <1>10, <1>11, <1>12 DEF Steps

(* Every step keeps the changes in order. *)
LEMMA ChangesNext == IInv /\ Orderly /\ InPlace /\ Changes /\ Natured /\ [Next]_vars => Changes'
<1> SUFFICES ASSUME IInv, Orderly, InPlace, Changes, Natured, [Next]_vars PROVE Changes'
  OBVIOUS
<1>1. CASE UserRequest \/ FinalRunDelete \/ Begin(StartupRequest("cleanup"))
  <2>1. PICK r \in AnyRequest : r.kind \in Kinds \cup {"cleanup"} /\ Begin(r)
    BY <1>1, Beginnings
  <2>2. /\ pc' = "check" /\ req' = r /\ journal' = tx' /\ tx'.before = yaml
        /\ edits' = edits /\ history' = history
        /\ r.kind \in {"expire", "cleanup"} => todo' = Overdue
    BY <2>1 DEF Begin
  <2>3. edits = 0 => /\ Whole(tx') /\ Asked(tx', r)
                     /\ r.kind = "create" => yaml.autos[r.id] = Absent
                     /\ r.kind \in {"expire", "cleanup"} =>
                          \A i \in AllIds : tx'.after.autos[i] =
                                              IF i \in Overdue THEN Absent ELSE yaml.autos[i]
    BY <2>1, ChangesBegin
  <2> QED
    BY <2>2, <2>3 DEF Changes, Whole, Asked, Applying
<1>2. CASE Steps
  BY <1>2, ChangesSteps
<1>3. CASE UserExpireOrphans \/ ExpireOrphans(StartupRequest("cleanup"))
  <2>1. /\ pc' = "expire" /\ journal' = journal /\ edits' = edits
        /\ \A i \in todo' : yaml'.autos[i] = Absent
    BY <1>3 DEF UserExpireOrphans, ExpireOrphans, Listed, durable, counters
  <2> QED
    BY <2>1 DEF Changes, Whole, Listed, Applying, Begun
<1>4. CASE Recover
  BY <1>4, ChangesFinish DEF Recover, RecoverNothing, RecoverForward, RecoverBack,
     RecoverConflict, StartupRequest, counters, locals, Changes, Whole, Applying, Begun
<1>5. CASE ExternalEdit
  <2>1. edits' # 0
    BY <1>5, ExecutorAssumption DEF ExternalEdit, IInv, TypeOK
  <2> QED
    BY <2>1 DEF Changes
<1>6. CASE BeginReconcile \/ Restart \/ ReloadEntry \/ \E i \in Ids : RecordRun(i)
  BY <1>6, ChangesFinish DEF BeginReconcile, Restart, ReloadEntry, RecordRun, locals,
     durable, counters, Begun
<1>7. CASE CleanupRefused \/ Tick \/ UNCHANGED vars
  BY <1>7 DEF CleanupRefused, Tick, vars, locals, durable, registry, counters, Changes, Whole,
     Asked, Listed
<1> QED
  BY <1>1, <1>2, <1>3, <1>4, <1>5, <1>6, <1>7 DEF Next, Startup, StartupCleanup

-------------------------------------------------------------------------------
(* An id has a time in all records or in none *)

(* What each operation writes into the sidecar file, id by id. *)
LEMMA RecordedAt ==
  ASSUME IInv, pc = "record"
  PROVE  /\ req.kind \in {"create", "delete", "rollback"} \cup UpdateKinds
         /\ req.kind # "rollback" =>
              /\ req.id \in Ids
              /\ \A j \in Ids : j # req.id => Recorded(req)[j] = meta[j]
         /\ req.kind = "create" =>
              /\ Recorded(req)[req.id] # Absent
              /\ Recorded(req)[req.id].at = req.at
              /\ Recorded(req)[req.id].limit = req.limit
         /\ req.kind = "delete" => Recorded(req)[req.id] = Absent
         /\ req.kind \in UpdateKinds =>
              /\ Known(req.id)
              /\ Recorded(req)[req.id] # Absent
              /\ Recorded(req)[req.id].at = IF req.kind = "reschedule" THEN req.at
                                            ELSE meta[req.id].at
              /\ Recorded(req)[req.id].limit = IF req.kind = "set_max_runs" THEN req.limit
                                               ELSE meta[req.id].limit
         /\ req.kind = "rollback" =>
              history # <<>> /\ Recorded(req) = history[Len(history)].meta
<1>1. /\ req \in AnyRequest
      /\ req.kind \in {"create", "delete", "rollback"} \cup UpdateKinds
  BY DEF IInv, InFlight, TypeOK, Kinds, Applying
<1>2. /\ req.id \in Ids
      /\ req.kind # "delete" => req \in Request
      /\ 0 \in 0..MaxRuns
  BY <1>1, RequestShape, ExecutorAssumption DEF Kinds
<1>3. /\ meta \in [Ids -> Meta \cup {Absent}]
      /\ req.kind \in UpdateKinds => Known(req.id) /\ meta[req.id] \in Meta
  BY <1>1, <1>2, AutoType DEF IInv, InFlight, TypeOK, Applying, Metas
<1>4. CASE req.kind = "create"
  <2> DEFINE v == [once |-> req.once, at |-> req.at, limit |-> req.limit, count |-> 0,
                   src |-> req.body]
  <2>1. Recorded(req) = [meta EXCEPT ![req.id] = v] /\ v.at = req.at /\ v.limit = req.limit
    BY <1>4 DEF Recorded
  <2>2. Recorded(req) \in Metas /\ Recorded(req)[req.id] = v
    BY <1>2, <1>3, <2>1, RecordedType
  <2>3. v \in Meta
    BY <1>2, <1>4 DEF Request, Meta
  <2>4. v # Absent
    BY <2>3, NullAssumption
  <2> HIDE DEF v
  <2> QED
    BY <1>2, <1>3, <1>4, <2>1, <2>2, <2>4 DEF UpdateKinds
<1>5. CASE req.kind = "delete"
  BY <1>2, <1>3, <1>5 DEF Recorded, UpdateKinds
<1>6. CASE req.kind \in UpdateKinds
  <2> DEFINE m == meta[req.id]
             v == CASE req.kind = "reschedule" -> [m EXCEPT !.at = req.at]
                    [] req.kind = "set_max_runs" -> [m EXCEPT !.limit = req.limit, !.count = 0]
                    [] req.kind \in {"replace_actions", "replace_section"} ->
                         [m EXCEPT !.src = req.body]
  <2>1. Recorded(req) = [meta EXCEPT ![req.id] = v]
    <3>1. CASE req.kind = "set_max_runs"
      <4>1. Recorded(req) =
              [meta EXCEPT ![req.id].limit = req.limit, ![req.id].count = 0]
        BY <3>1 DEF Recorded
      <4>2. @ = [meta EXCEPT ![req.id] = [m EXCEPT !.limit = req.limit, !.count = 0]]
        BY <1>2, <1>3
      <4> QED
        BY <3>1, <4>1, <4>2
    <3>2. CASE req.kind # "set_max_runs"
      BY <1>6, <3>2 DEF Recorded, UpdateKinds
    <3> QED
      BY <3>1, <3>2
  <2>2. /\ v.at = IF req.kind = "reschedule" THEN req.at ELSE m.at
        /\ v.limit = IF req.kind = "set_max_runs" THEN req.limit ELSE m.limit
    BY <1>3, <1>6 DEF Meta, UpdateKinds
  <2>3. req.at \in 0..MaxTime /\ req.limit \in 0..MaxRuns /\ req.body \in Bodies
    BY <1>2, <1>6 DEF Request, UpdateKinds
  <2>4. v \in Meta
    BY <1>2, <1>3, <1>6, <2>3 DEF Meta, UpdateKinds
  <2>5. v # Absent
    BY <2>4, NullAssumption
  <2> HIDE DEF v
  <2> QED
    BY <1>2, <1>3, <1>6, <2>1, <2>2, <2>5 DEF UpdateKinds
<1>7. CASE req.kind = "rollback"
  <2>1. history # <<>>
    BY <1>7 DEF IInv, InFlight, Applying
  <2> QED
    BY <1>7, <2>1 DEF Recorded, UpdateKinds
<1> QED
  BY <1>1, <1>4, <1>5, <1>6, <1>7

(* Appending to the bounded history adds the list and the metadata of now. *)
LEMMA RememberedOnly ==
  ASSUME IInv, tx \in Tx, NEW k \in DOMAIN Remembered
  PROVE  \/ \E j \in DOMAIN history : Remembered[k] = history[j]
         \/ Remembered[k] = [stamp |-> tx.stamp, autos |-> tx.before.autos, meta |-> meta]
<1> DEFINE e == [stamp |-> tx.stamp, autos |-> tx.before.autos, meta |-> meta]
           h == Append(history, e)
<1>1. e \in HistoryEntry /\ history \in Seq(HistoryEntry)
  BY DEF IInv, TypeOK, Tx, File, HistoryEntry
<1> HIDE DEF e
<1>2. /\ h \in Seq(HistoryEntry) /\ Len(h) = Len(history) + 1
      /\ \A j \in DOMAIN h : (j \in DOMAIN history /\ h[j] = history[j]) \/ h[j] = e
  BY <1>1
<1>3. Remembered = h \/ (Remembered = Tail(h) /\ Len(h) > 0)
  BY <1>2, ExecutorAssumption DEF Remembered, e
<1>4. \E j \in DOMAIN h : Remembered[k] = h[j]
  <2>1. CASE Remembered = h
    BY <2>1
  <2>2. CASE Remembered = Tail(h) /\ Len(h) > 0
    <3>1. k \in 1 .. Len(h) - 1 /\ Tail(h)[k] = h[k + 1]
      BY <1>2, <2>2
    <3>2. k + 1 \in DOMAIN h
      BY <1>2, <3>1
    <3> QED
      BY <2>2, <3>1, <3>2
  <2> QED
    BY <1>3, <2>1, <2>2
<1> QED
  BY <1>2, <1>4 DEF e

(* Dropping the newest entry leaves the others where they are. *)
LEMMA FrontOnly ==
  ASSUME IInv, history # <<>>, NEW k \in DOMAIN Front(history)
  PROVE  k \in DOMAIN history /\ Front(history)[k] = history[k]
BY DEF IInv, TypeOK, Front

(* What a step may do without disturbing the times. *)
LEMMA NaturedMoves ==
  ASSUME NEW dated \in SUBSET Ids, AllFit(dated), issued' = issued,
         Fits(yaml'.autos, dated), Fits(meta', dated),
         journal' \in {journal, NoTx, tx}, tx' \in {tx, NoTx, journal},
         \A k \in DOMAIN history' : \/ k \in DOMAIN history /\ history'[k] = history[k]
                                    \/ Fits(history'[k].autos, dated) /\ Fits(history'[k].meta, dated)
  PROVE  Natured'
<1>1. /\ journal' # NoTx => FitsTx(journal', dated)
      /\ tx' # NoTx => FitsTx(tx', dated)
      /\ \A k \in DOMAIN history' : Fits(history'[k].autos, dated) /\ Fits(history'[k].meta, dated)
  BY DEF AllFit
<1>2. AllFit(dated)'
  BY <1>1 DEF AllFit, FitsTx, Fits
<1> QED
  BY <1>2 DEF Natured

(* The metadata an operation leaves behind fits its transaction. *)
LEMMA RecordedFits ==
  ASSUME IInv, Changes, edits = 0, pc = "record", NEW dated \in SUBSET Ids, AllFit(dated)
  PROVE  Fits(Recorded(req), dated)
<1>1. /\ Fits(meta, dated) /\ Fits(tx.after.autos, dated) /\ Fits(tx.before.autos, dated)
      /\ \A k \in DOMAIN history : Fits(history[k].meta, dated)
  BY DEF AllFit, FitsTx, IInv, InFlight, Journalled, Begun
<1>2. Asked(tx, req)
  BY DEF Changes, Applying
<1>3. CASE req.kind = "rollback"
  <2>1. history # <<>> /\ Recorded(req) = history[Len(history)].meta
    BY <1>3, RecordedAt
  <2>2. Len(history) \in DOMAIN history
    BY <2>1 DEF IInv, TypeOK
  <2> QED
    BY <1>1, <2>1, <2>2
<1>4. CASE req.kind # "rollback"
  <2>1. /\ req.kind \in {"create", "delete"} \cup UpdateKinds /\ req.id \in Ids
        /\ \A j \in Ids : j # req.id => Recorded(req)[j] = meta[j]
    BY <1>4, RecordedAt
  <2>2. \A j \in Ids : j # req.id /\ Recorded(req)[j] # Absent =>
          j \in issued /\ (Recorded(req)[j].at # 0 <=> j \in dated)
    BY <1>1, <2>1 DEF Fits
  <2>3. Recorded(req)[req.id] # Absent =>
          req.id \in issued /\ (Recorded(req)[req.id].at # 0 <=> req.id \in dated)
    <3>1. CASE req.kind = "create"
      BY <1>1, <1>2, <2>1, <3>1, RecordedAt DEF Asked, Fits
    <3>2. CASE req.kind = "delete"
      BY <3>2, RecordedAt
    <3>3. CASE req.kind = "reschedule"
      <4>1. /\ Recorded(req)[req.id].at = req.at
            /\ tx.after.autos[req.id] # Absent /\ tx.after.autos[req.id].at = req.at
        BY <1>2, <3>3, RecordedAt DEF Asked, UpdateKinds
      <4> QED
        BY <1>1, <2>1, <4>1 DEF Fits
    <3>4. CASE req.kind \in UpdateKinds /\ req.kind # "reschedule"
      <4>1. Known(req.id) /\ Recorded(req)[req.id].at = meta[req.id].at
        BY <3>4, RecordedAt
      <4> QED
        BY <1>1, <2>1, <4>1 DEF Fits, Known
    <3> QED
      BY <2>1, <3>1, <3>2, <3>3, <3>4
  <2> QED
    BY <2>2, <2>3 DEF Fits
<1> QED
  BY <1>3, <1>4

(* A dropped record disturbs no time. *)
LEMMA DroppedFits ==
  ASSUME NEW dated \in SUBSET Ids, Fits(meta, dated), meta \in Metas, NEW i
  PROVE  Fits([meta EXCEPT ![i] = Absent], dated)
BY DEF Fits, Metas

(* A repaired one has a time if it had one before. *)
LEMMA RepairedFits ==
  ASSUME IInv, NEW dated \in SUBSET Ids, AllFit(dated), NEW i \in Ids, Known(i), Listed(i)
  PROVE  Fits([meta EXCEPT ![i] = Repaired(@, yaml.autos[i])], dated)
<1> DEFINE m == meta[i]
           a == yaml.autos[i]
           v == Repaired(m, a)
<1>1. m \in Meta /\ a \in Automation /\ meta \in [Ids -> Meta \cup {Absent}]
  BY AutoType DEF IInv, TypeOK, Metas, Listed
<1>2. /\ i \in issued
      /\ m.at # 0 <=> i \in dated
      /\ a.at # 0 <=> i \in dated
  BY DEF AllFit, Fits, Known, Listed
<1>3. v.at = IF m.at # 0 /\ a.at # 0 THEN a.at ELSE m.at
  BY <1>1 DEF Repaired, Meta
<1>4. v.at # 0 <=> i \in dated
  BY <1>2, <1>3
<1> HIDE DEF v
<1>5. Fits([meta EXCEPT ![i] = v], dated)
  BY <1>1, <1>2, <1>4 DEF AllFit, Fits
<1> QED
  BY <1>5 DEF v

(* The steps of an operation keep the times. *)
LEMMA NaturedSteps ==
  IInv /\ Orderly /\ InPlace /\ Changes /\ Natured /\ Steps => Natured'
<1> SUFFICES ASSUME IInv, Orderly, InPlace, Changes, Natured, Steps, edits' = 0 PROVE Natured'
  BY DEF Natured
<1>0. edits = 0 /\ issued' = issued
  BY DEF Steps, CheckDigest, Abort, WriteYaml, WriteError, VerifyWrite, AppendHistory, Reload,
     Record, ExpireMetadata, EndExpire, Complete, PopHistory, UndoCheck, UndoWrite, UndoVerify,
     UndoClear, UndoPop, UndoMeta, UndoReload, RecoverReload, Reconcile, EndReconcile, counters,
     ghosts
<1>1. PICK dated \in SUBSET Ids : AllFit(dated)
  BY <1>0 DEF Natured
<1>2. /\ Fits(yaml.autos, dated) /\ Fits(meta, dated) /\ meta \in Metas
      /\ tx # NoTx => Fits(tx.before.autos, dated) /\ Fits(tx.after.autos, dated)
      /\ history \in Seq(HistoryEntry)
  BY <1>1 DEF AllFit, FitsTx, IInv, TypeOK
<1>3. CASE \/ CheckDigest \/ Abort \/ WriteError \/ Reload \/ EndExpire \/ Complete \/ UndoCheck
           \/ UndoVerify \/ UndoClear \/ UndoReload \/ RecoverReload \/ EndReconcile
  <2>1. /\ yaml' = yaml /\ meta' = meta /\ history' = history
        /\ journal' \in {journal, NoTx} /\ tx' \in {tx, NoTx}
    BY <1>3 DEF CheckDigest, Abort, WriteError, Reload, EndExpire, Complete, UndoCheck,
       UndoVerify, UndoClear, UndoReload, RecoverReload, EndReconcile, Goto, Finish, Undo, durable
  <2> QED
    BY <1>0, <1>1, <1>2, <2>1, NaturedMoves
<1>4. CASE WriteYaml \/ UndoWrite
  <2>1. /\ tx # NoTx /\ meta' = meta /\ history' = history /\ journal' = journal
        /\ tx' \in {tx, NoTx}
        /\ yaml'.autos \in {yaml.autos, tx.before.autos, tx.after.autos}
    BY <1>4 DEF WriteYaml, UndoWrite, Restored, Dump, Goto, Finish, IInv, InFlight, Journalled,
       Begun
  <2> QED
    BY <1>0, <1>1, <1>2, <2>1, NaturedMoves
<1>5. CASE VerifyWrite
  <2>1. tx \in Tx /\ journal = tx
    BY <1>5 DEF VerifyWrite, IInv, InFlight, Journalled, Begun, TypeOK
  <2>2. yaml = tx.after /\ [tx EXCEPT !.after = yaml] = tx
    BY <1>0, <1>5, <2>1 DEF VerifyWrite, InPlace, Tx
  <2>3. /\ yaml' = yaml /\ meta' = meta /\ history' = history
        /\ journal' = journal /\ tx' \in {tx, NoTx}
    BY <1>5, <2>1, <2>2 DEF VerifyWrite, Goto, Finish
  <2> QED
    BY <1>0, <1>1, <1>2, <2>3, NaturedMoves
<1>6. CASE AppendHistory
  <2>1. /\ yaml' = yaml /\ meta' = meta /\ journal' = journal /\ tx' = tx /\ tx \in Tx
        /\ history' \in {history, Remembered}
    BY <1>6 DEF AppendHistory, Goto, Undo, IInv, InFlight, Journalled, Begun, TypeOK
  <2>2. \A k \in DOMAIN Remembered :
          Fits(Remembered[k].autos, dated) /\ Fits(Remembered[k].meta, dated)
    <3>1. tx # NoTx
      BY <2>1, NoTxAssumption
    <3> QED
      BY <1>1, <1>2, <2>1, <3>1, RememberedOnly DEF AllFit
  <2> QED
    BY <1>0, <1>1, <1>2, <2>1, <2>2, NaturedMoves
<1>7. CASE Record
  <2>1. /\ yaml' = yaml /\ meta' \in {meta, Recorded(req)} /\ journal' = journal /\ tx' = tx
        /\ history' = history /\ pc = "record"
    BY <1>7 DEF Record, MetaFails, Goto, Undo
  <2> QED
    BY <1>0, <1>1, <1>2, <2>1, NaturedMoves, RecordedFits
<1>8. CASE ExpireMetadata \/ UndoMeta
  <2>1. /\ yaml' = yaml /\ journal' = journal /\ tx' \in {tx, NoTx} /\ history' = history
        /\ meta' = meta \/ \E i : meta' = [meta EXCEPT ![i] = Absent]
    BY <1>8 DEF ExpireMetadata, UndoMeta, Goto, Finish, Next1
  <2>2. Fits(meta', dated)
    BY <1>2, <2>1, DroppedFits
  <2> QED
    BY <1>0, <1>1, <1>2, <2>1, <2>2, NaturedMoves
<1>9. CASE PopHistory \/ UndoPop
  <2>1. /\ yaml' = yaml /\ journal' = journal /\ tx' \in {tx, NoTx} /\ meta' = meta
        /\ history' = history \/ (history # <<>> /\ history' = Front(history))
    BY <1>9 DEF PopHistory, UndoPop, Goto, Finish
  <2>2. \A k \in DOMAIN history' : k \in DOMAIN history /\ history'[k] = history[k]
    BY <2>1, FrontOnly
  <2> QED
    BY <1>0, <1>1, <1>2, <2>1, <2>2, NaturedMoves
<1>10. CASE Reconcile
  <2>1. /\ yaml' = yaml /\ journal' = journal /\ tx' \in {tx, NoTx} /\ history' = history
    BY <1>10 DEF Reconcile, DropOrphan, RepairKnown, Finish, Next1
  <2>2. \/ meta' = meta
        \/ \E i \in todo : meta' = [meta EXCEPT ![i] = Absent]
        \/ \E i \in todo : Listed(i) /\ meta' = [meta EXCEPT ![i] = Repaired(@, yaml.autos[i])]
    BY <1>10 DEF Reconcile, DropOrphan, RepairKnown
  <2>3. \A i \in todo : i \in Ids /\ Known(i)
    BY <1>10 DEF Reconcile, IInv, InFlight, TypeOK
  <2>4. Fits(meta', dated)
    BY <1>1, <1>2, <2>2, <2>3, DroppedFits, RepairedFits
  <2> QED
    BY <1>0, <1>1, <1>2, <2>1, <2>4, NaturedMoves
<1> QED
  BY <1>3, <1>4, <1>5, <1>6, <1>7, <1>8, <1>9, <1>10 DEF Steps

(* A new id may get a time or none; whoever has one keeps having one. *)
LEMMA NaturedBegin ==
  ASSUME IInv, Natured, edits = 0, NEW r \in AnyRequest,
         r.kind \in Kinds \cup {"cleanup"}, Begin(r), r.kind = "reschedule" => r.at # 0
  PROVE  Natured'
<1>1. PICK dated \in SUBSET Ids : AllFit(dated)
  BY DEF Natured
<1>2. /\ Whole(tx') /\ Asked(tx', r)
      /\ r.kind = "create" => yaml.autos[r.id] = Absent
      /\ r.kind \in {"expire", "cleanup"} =>
           \A i \in AllIds : tx'.after.autos[i] = IF i \in Overdue THEN Absent
                                                  ELSE yaml.autos[i]
  BY ChangesBegin
<1>3. /\ tx'.before = yaml /\ journal' = tx' /\ yaml' = yaml /\ meta' = meta
      /\ history' = history /\ Allowed(r) /\ tx'.op = JournalOp(r)
      /\ issued' = IF r.kind = "create" THEN issued \cup {r.id} ELSE issued
  BY DEF Begin
<1>4. /\ r.kind \in Kinds => r.id \in Ids /\ r.id \in AllIds
      /\ \A i \in Ids : i \in AllIds
  BY RequestShape DEF AllIds
<1>5. CASE r.kind # "create"
  <2>1. Fits(yaml.autos, dated) /\ \A k \in DOMAIN history : Fits(history[k].autos, dated)
    BY <1>1 DEF AllFit
  <2>2. Fits(tx'.after.autos, dated)
    <3>1. CASE r.kind \in {"expire", "cleanup"}
      BY <1>2, <1>4, <2>1, <3>1 DEF Fits
    <3>2. CASE r.kind = "rollback"
      BY <1>2, <2>1, <3>2 DEF Asked
    <3>3. CASE r.kind \in Kinds \ {"expire", "rollback", "create"}
      <4>1. r.id \in Ids /\ \A j \in Ids : j # r.id => tx'.after.autos[j] = yaml.autos[j]
        BY <1>2, <1>3, <1>4, <3>3 DEF Asked
      <4>2. \/ tx'.after.autos[r.id] = Absent
            \/ /\ yaml.autos[r.id] # Absent
               /\ tx'.after.autos[r.id].at # 0 <=> yaml.autos[r.id].at # 0
        <5>1. r.kind = "reschedule" => yaml.autos[r.id].at # 0
          BY <1>3 DEF Allowed
        <5> QED
          BY <1>2, <1>3, <3>3, <5>1 DEF Asked, Kinds
      <4> QED
        BY <2>1, <4>1, <4>2 DEF Fits
    <3> QED
      BY <1>5, <3>1, <3>2, <3>3
  <2>3. AllFit(dated)'
    BY <1>1, <1>3, <1>5, <2>1, <2>2 DEF AllFit, Fits, FitsTx
  <2> QED
    BY <2>3 DEF Natured
<1>6. CASE r.kind = "create"
  <2> DEFINE next == (dated \ {r.id}) \cup (IF r.at # 0 THEN {r.id} ELSE {})
  <2>1. /\ r.id \in Ids /\ r.id \notin issued /\ issued' = issued \cup {r.id}
        /\ next \in SUBSET Ids
        /\ \A i \in Ids : i # r.id => (i \in next <=> i \in dated)
        /\ r.id \in next <=> r.at # 0
    BY <1>3, <1>4, <1>6 DEF Allowed, Kinds
  <2> HIDE DEF next
  <2>2. ASSUME NEW c, Fits(c, dated)
        PROVE  \A i \in Ids : c[i] # Absent => i \in issued' /\ (c[i].at # 0 <=> i \in next)
    BY <2>1, <2>2 DEF Fits
  <2>3. \A i \in Ids : tx'.after.autos[i] # Absent =>
          i \in issued' /\ (tx'.after.autos[i].at # 0 <=> i \in next)
    <3>1. Fits(yaml.autos, dated)
      BY <1>1 DEF AllFit
    <3>2. /\ \A i \in Ids : i # r.id => tx'.after.autos[i] = yaml.autos[i]
          /\ tx'.after.autos[r.id].at = r.at
      BY <1>2, <1>3, <1>4, <1>6 DEF Asked, Kinds
    <3> QED
      BY <2>1, <2>2, <3>1, <3>2
  <2>4. AllFit(next)'
    BY <1>1, <1>3, <2>2, <2>3 DEF AllFit, Fits, FitsTx
  <2> QED
    BY <2>1, <2>4 DEF Natured
<1> QED
  BY <1>5, <1>6

(* Every step keeps the times. *)
LEMMA NaturedNext ==
  IInv /\ Orderly /\ InPlace /\ Changes /\ Natured /\ [Next]_vars => Natured'
<1> SUFFICES ASSUME IInv, Orderly, InPlace, Changes, Natured, [Next]_vars, edits' = 0
             PROVE  Natured'
  BY DEF Natured
<1>0. edits = 0
  <2>1. ~ExternalEdit
    BY ExecutorAssumption DEF ExternalEdit, IInv, TypeOK
  <2> QED
    BY <2>1 DEF Next, UserRequest, FinalRunDelete, Begin, UserExpireOrphans, ExpireOrphans,
       Startup, StartupCleanup, CleanupRefused, BeginReconcile, Recover, RecordRun, Restart,
       ReloadEntry, Tick, vars, counters, Steps, CheckDigest, Abort, WriteYaml, WriteError,
       VerifyWrite, AppendHistory, Reload, Record, ExpireMetadata, EndExpire, Complete,
       PopHistory, UndoCheck, UndoWrite, UndoVerify, UndoClear, UndoPop, UndoMeta, UndoReload,
       RecoverReload, Reconcile, EndReconcile
<1>1. CASE UserRequest
  <2>1. PICK r \in Requests : r \in Request /\ r \in AnyRequest /\ Begin(r)
    BY <1>1, Beginnings
  <2> QED
    BY <1>0, <2>1, NaturedBegin, ExecutorAssumption DEF Request
<1>2. CASE FinalRunDelete
  <2>1. PICK i \in Ids : Begin(Deletion(i))
    BY <1>2, Beginnings
  <2>2. Deletion(i) \in AnyRequest /\ Deletion(i).kind = "delete"
    BY DEF Deletion, AnyRequest
  <2> QED
    BY <1>0, <2>1, <2>2, NaturedBegin DEF Kinds
<1>3. CASE Begin(StartupRequest("cleanup"))
  BY <1>0, <1>3, Beginnings, NaturedBegin
<1>4. CASE Steps
  BY <1>4, NaturedSteps
<1>5. CASE \/ UserExpireOrphans \/ ExpireOrphans(StartupRequest("cleanup")) \/ CleanupRefused
           \/ Recover \/ BeginReconcile \/ Restart \/ ReloadEntry \/ Tick \/ UNCHANGED vars
           \/ \E i \in Ids : RecordRun(i)
  <2>1. PICK dated \in SUBSET Ids : AllFit(dated)
    BY <1>0 DEF Natured
  <2>2. /\ yaml' = yaml /\ issued' = issued /\ history' = history
        /\ journal' \in {journal, NoTx} /\ tx' \in {tx, NoTx, journal}
    BY <1>5 DEF UserExpireOrphans, ExpireOrphans, CleanupRefused, Recover, RecoverNothing,
       RecoverForward, RecoverBack, RecoverConflict, BeginReconcile, Restart, ReloadEntry, Tick,
       vars, RecordRun, durable, locals, ghosts
  <2>3. Fits(yaml'.autos, dated)
    BY <2>1, <2>2 DEF AllFit
  <2>4. Fits(meta', dated)
    <3>1. meta' = meta \/ \E i \in Ids : Known(i) /\ meta' = [meta EXCEPT ![i].count = @ + 1]
      BY <1>5 DEF UserExpireOrphans, ExpireOrphans, CleanupRefused, Recover, BeginReconcile,
         Restart, ReloadEntry, Tick, vars, RecordRun, durable
    <3>2. Fits(meta, dated)
      BY <2>1 DEF AllFit
    <3>3. CASE \E i \in Ids : Known(i) /\ meta' = [meta EXCEPT ![i].count = @ + 1]
      <4>1. PICK i \in Ids : Known(i) /\ meta' = [meta EXCEPT ![i].count = @ + 1]
        BY <3>3
      <4>2. meta[i] \in Meta /\ meta \in [Ids -> Meta \cup {Absent}]
        BY <4>1, AutoType DEF IInv, TypeOK, Metas
      <4>3. \A j \in Ids : /\ meta'[j] # Absent => meta[j] # Absent
                           /\ meta[j] # Absent => meta'[j].at = meta[j].at
        BY <4>1, <4>2 DEF Known, Meta
      <4> QED
        BY <3>2, <4>3 DEF Fits
    <3> QED
      BY <3>1, <3>2, <3>3
  <2> QED
    BY <2>1, <2>2, <2>3, <2>4, NaturedMoves
<1>6. ~ExternalEdit
  BY ExecutorAssumption DEF ExternalEdit, IInv, TypeOK
<1> QED
  BY <1>1, <1>2, <1>3, <1>4, <1>5, <1>6 DEF Next, Startup, StartupCleanup

(* Together they are kept through every step. *)
LEMMA ToldNext == IInv /\ Told /\ [Next]_vars => Told'
BY OrderlyNext, InPlaceNext, ChangesNext, NaturedNext DEF Told

(* They hold at first. *)
LEMMA ToldInit == Init => Told
<1> SUFFICES ASSUME Init PROVE Told
  OBVIOUS
<1>1. Orderly
  BY OrderlyInit
<1>2. InPlace /\ Changes
  BY DEF Init, InPlace, Changes, Expiring, Begun, Applying
<1>3. AllFit({})
  BY DEF Init, AllFit, Fits, NoAutos, NoMetas, AllIds
<1> QED
  BY <1>1, <1>2, <1>3 DEF Told, Natured

(* The strengthened invariant holds always. *)
LEMMA ToldHolds == Spec => [](IInv /\ Told)
BY InitHolds, ToldInit, NextKeeps, ToldNext, PTL DEF Spec

-------------------------------------------------------------------------------
(* What users are told is so *)

(* Nobody is told anything before the end, and what a creation is about to  *)
(* report is there.                                                          *)
Untold ==
  /\ pc \in Applying \cup {"complete", "pop"} \/ Expiring => outcome = "-"
  /\ pc = "complete" /\ req.kind = "create" =>
       Known(req.id) /\ entity[req.id] = "homeintent"

(* It says nothing of those who go back. *)
LEMMA UntoldFinish ==
  ASSUME pc' \notin Applying \cup {"complete", "pop", "expire"}
  PROVE  Untold'
BY DEF Untold, Expiring

(* The steps of an operation tell nobody before its end. *)
LEMMA UntoldSteps == IInv /\ Orderly /\ Untold /\ Steps => Untold'
<1> SUFFICES ASSUME IInv, Orderly, Untold, Steps PROVE Untold'
  OBVIOUS
<1>1. CASE pc' \notin Applying \cup {"complete", "pop", "expire"}
  BY <1>1, UntoldFinish
<1>2. ASSUME pc' \in Applying \cup {"complete", "pop", "expire"},
             CheckDigest \/ WriteYaml \/ VerifyWrite \/ AppendHistory
      PROVE  Untold'
  BY <1>2 DEF CheckDigest, WriteYaml, VerifyWrite, AppendHistory, Goto, Undo, Finish, told,
     Untold, Applying, Expiring
<1>3. ASSUME pc' \in Applying \cup {"complete", "pop", "expire"}, Reload
      PROVE  Untold'
  BY <1>3 DEF Reload, AfterReload, Goto, Undo, told, durable, Untold, Applying, Expiring
<1>4. ASSUME pc' \in Applying \cup {"complete", "pop", "expire"}, Record
      PROVE  Untold'
  <2>1. /\ pc = "record" /\ pc' = "complete" /\ req' = req /\ outcome' = outcome
        /\ meta' = Recorded(req) /\ entity' = Categorised(req)
    BY <1>4 DEF Record, MetaFails, Goto, Undo, told, Applying
  <2>2. outcome = "-"
    BY <2>1 DEF Untold, Applying
  <2>3. ASSUME req.kind = "create"
        PROVE  meta'[req.id] # Absent /\ entity'[req.id] = "homeintent"
    <3>1. req.id \in Ids /\ Recorded(req)[req.id] # Absent
      BY <2>1, <2>3, RecordedAt
    <3> QED
      BY <2>1, <2>3, <3>1 DEF Categorised, IInv, TypeOK
  <2> QED
    BY <2>1, <2>2, <2>3 DEF Untold, Known
<1>5. ASSUME pc' \in Applying \cup {"complete", "pop", "expire"},
             ExpireMetadata \/ EndExpire \/ Complete \/ PopHistory \/ Reconcile \/ EndReconcile
      PROVE  Untold'
  <2>1. CASE EndExpire
    <3>1. pc = "expire" /\ pc' = "complete" /\ req' = req /\ outcome' = "-"
      BY <1>5, <2>1 DEF EndExpire, Goto, Finish, told, Untold, Expiring, Applying
    <3>2. req.kind # "create"
      BY <3>1 DEF Orderly
    <3> QED
      BY <3>1, <3>2 DEF Untold
  <2>2. CASE ~EndExpire
    BY <1>5, <2>2 DEF ExpireMetadata, Complete, PopHistory, Reconcile, EndReconcile, DropOrphan,
       RepairKnown, Next1, Goto, Finish, told, Untold, Applying, Expiring
  <2> QED
    BY <2>1, <2>2
<1>6. ASSUME pc' \in Applying \cup {"complete", "pop", "expire"},
             \/ Abort \/ WriteError \/ UndoCheck \/ UndoWrite \/ UndoVerify \/ UndoClear
             \/ UndoPop \/ UndoMeta \/ UndoReload \/ RecoverReload
      PROVE  FALSE
  BY <1>6 DEF Abort, WriteError, UndoCheck, UndoWrite, UndoVerify, UndoClear, UndoPop, UndoMeta,
     UndoReload, RecoverReload, AfterUndo, Goto, Finish, Applying
<1> QED
  BY <1>1, <1>2, <1>3, <1>4, <1>5, <1>6 DEF Steps

(* Nor does any other step. *)
LEMMA UntoldNext == IInv /\ Orderly /\ Untold /\ [Next]_vars => Untold'
<1> SUFFICES ASSUME IInv, Orderly, Untold, [Next]_vars PROVE Untold'
  OBVIOUS
<1>1. CASE UserRequest \/ FinalRunDelete \/ Begin(StartupRequest("cleanup"))
  <2>1. pc' = "check" /\ outcome' = "-"
    BY <1>1 DEF UserRequest, FinalRunDelete, Begin
  <2> QED
    BY <2>1 DEF Untold
<1>2. CASE Steps
  BY <1>2, UntoldSteps
<1>3. CASE UserExpireOrphans \/ ExpireOrphans(StartupRequest("cleanup"))
  BY <1>3 DEF UserExpireOrphans, ExpireOrphans, Untold, Applying
<1>4. CASE Recover \/ BeginReconcile \/ Restart \/ ReloadEntry \/ \E i \in Ids : RecordRun(i)
  BY <1>4, UntoldFinish DEF Recover, RecoverNothing, RecoverForward, RecoverBack, RecoverConflict,
     BeginReconcile, Restart, ReloadEntry, RecordRun, locals, Applying
<1>5. CASE CleanupRefused \/ Tick \/ UNCHANGED vars
  BY <1>5 DEF CleanupRefused, Tick, vars, locals, told, durable, registry, Untold, Known,
     Expiring
<1>6. CASE ExternalEdit
  <2>1. /\ pc' = pc /\ req' = req /\ tx' = tx /\ outcome' = outcome /\ meta' = meta
    BY <1>6 DEF ExternalEdit, locals, told
  <2>2. \A i \in Ids : entity[i] = "homeintent" => entity'[i] = "homeintent"
    <3>1. (\E c : Load(c)) \/ entity' = entity
      BY <1>6 DEF ExternalEdit, EditTo, registry
    <3> QED
      BY <3>1 DEF Load
  <2>3. pc = "complete" /\ req.kind = "create" => req.id \in Ids
    BY RequestShape DEF IInv, InFlight, TypeOK, Kinds
  <2> QED
    BY <2>1, <2>2, <2>3 DEF Untold, Known, Expiring
<1> QED
  BY <1>1, <1>2, <1>3, <1>4, <1>5, <1>6 DEF Next, Startup, StartupCleanup

(* So it holds always. *)
LEMMA UntoldHolds == Spec => [](IInv /\ Told /\ Untold)
<1>1. Init => Untold
  BY DEF Init, Untold, Applying, Expiring
<1> QED
  BY <1>1, ToldHolds, UntoldNext, PTL DEF Spec, Told

(* A user who is told that a change is done finds the list that Home        *)
(* Assistant runs to be the one in the file, and a new automation in the    *)
(* category and in the sidecar file.                                         *)
THEOREM SuccessIsTrue == Spec => SuccessIsEverywhere
<1> DEFINE Everywhere ==
      outcome' = "ok" /\ pc \in {"complete", "pop"} /\ edits = 0 =>
        /\ live' = yaml'.autos
        /\ req.kind = "create" =>
             meta'[req.id] # Absent /\ entity'[req.id] = "homeintent"
<1>1. ASSUME IInv, Told, Untold, [Next]_vars PROVE Everywhere
  <2> SUFFICES ASSUME outcome' = "ok", pc \in {"complete", "pop"}, edits = 0
               PROVE  /\ live' = yaml'.autos
                      /\ req.kind = "create" =>
                           meta'[req.id] # Absent /\ entity'[req.id] = "homeintent"
    OBVIOUS
  <2>1. outcome = "-"
    BY <1>1 DEF Untold
  <2>2. CASE Complete \/ PopHistory
    <3>1. live' = live /\ yaml' = yaml /\ meta' = meta
      BY <2>2 DEF Complete, PopHistory, registry
    <3>2. live = yaml.autos
      BY <1>1 DEF Told, InPlace
    <3>3. ASSUME req.kind = "create"
          PROVE  meta[req.id] # Absent /\ entity'[req.id] = "homeintent"
      <4>1. pc = "complete"
        BY <1>1, <3>3 DEF Told, Orderly
      <4> QED
        BY <1>1, <2>2, <3>3, <4>1 DEF Complete, PopHistory, Untold, Known
    <3> QED
      BY <3>1, <3>2, <3>3
  <2>3. CASE ~(Complete \/ PopHistory)
    <3>1. outcome' \in {outcome, "-"}
      BY <1>1, <2>3 DEF Next, UserRequest, FinalRunDelete, Begin, UserExpireOrphans,
         ExpireOrphans, Startup, StartupCleanup, CleanupRefused, BeginReconcile, Recover,
         RecordRun, Restart, ReloadEntry, Tick, ExternalEdit, vars, told, Steps, CheckDigest,
         Abort, WriteYaml, WriteError, VerifyWrite, AppendHistory, Reload, Record,
         ExpireMetadata, EndExpire, UndoCheck, UndoWrite, UndoVerify, UndoClear, UndoPop,
         UndoMeta, UndoReload, RecoverReload, Reconcile, EndReconcile
    <3> QED
      BY <2>1, <3>1
  <2> QED
    BY <2>2, <2>3
<1> QED
  BY <1>1, UntoldHolds, PTL DEF Spec, SuccessIsEverywhere

(* A one-shot that the missed-schedule policy has taken out of the file no  *)
(* longer runs in Home Assistant when its metadata is dropped.               *)
THEOREM ExpiredOnesAreStopped == Spec => []ExpiredAreStopped
<1>1. IInv /\ Told => ExpiredAreStopped
  BY DEF IInv, TypeOK, Told, InPlace, Changes, Expiring, ExpiredAreStopped, Listed
<1> QED
  BY <1>1, ToldHolds, PTL

(* The calls after which a failed operation leaves something behind: those   *)
(* that write or clear the journal, that put the file back, and that forget  *)
(* the one-shots already taken out of it.                                    *)
Untraced == FaultPoints \cap {"journal", "clear", "undo_write", "expire_meta"} = {}

(* A user who is told that an operation failed finds the file as it was, and *)
(* the next operation may begin, whatever else fails and wherever Home       *)
(* Assistant stops.                                                          *)
THEOREM FailuresAreUndone == ASSUME Untraced PROVE Spec => FailureLeavesNoTrace
<1> DEFINE NoTrace ==
      outcome # "error" /\ outcome' = "error" /\ tx # NoTx /\ edits = 0 =>
        yaml'.autos = tx.before.autos /\ journal' = NoTx
<1>1. ASSUME IInv, Told, [Next]_vars PROVE NoTrace
  <2> SUFFICES ASSUME outcome # "error", outcome' = "error", tx # NoTx, edits = 0
               PROVE  yaml'.autos = tx.before.autos /\ journal' = NoTx
    OBVIOUS
  <2>1. ~Fault("journal") /\ ~Fault("clear") /\ ~Fault("undo_write") /\ ~Fault("expire_meta")
    BY DEF Untraced, Fault
  <2>2. Orderly /\ InPlace
    BY <1>1 DEF Told
  <2>3. CASE Steps
    <3>1. CASE Abort
      BY <2>1, <2>2, <3>1 DEF Abort, InPlace
    <3>2. CASE UndoPop \/ UndoMeta \/ UndoReload
      BY <2>2, <3>2 DEF UndoPop, UndoMeta, UndoReload, Orderly, InPlace, durable
    <3>3. CASE \/ CheckDigest \/ WriteYaml \/ WriteError \/ VerifyWrite \/ AppendHistory
               \/ ExpireMetadata
      BY <2>1, <2>2, <3>3 DEF CheckDigest, WriteYaml, WriteError, VerifyWrite, AppendHistory,
         ExpireMetadata, InPlace, Goto, Undo, Next1, told
    <3>4. CASE Reload \/ Record \/ EndExpire \/ Complete \/ PopHistory
      BY <2>1, <3>4 DEF Reload, Record, MetaFails, EndExpire, Complete, PopHistory, Finish,
         Goto, Undo, told
    <3>5. CASE UndoCheck \/ UndoWrite \/ UndoVerify \/ UndoClear
      BY <2>1, <2>2, <3>5 DEF UndoCheck, UndoWrite, UndoVerify, UndoClear, InPlace, Goto, told
    <3>6. CASE RecoverReload \/ Reconcile \/ EndReconcile
      BY <2>2, <3>6 DEF RecoverReload, Reconcile, EndReconcile, DropOrphan, RepairKnown, Next1,
         Orderly, Finish, StartupKinds, told
    <3> QED
      BY <2>3, <3>1, <3>2, <3>3, <3>4, <3>5, <3>6 DEF Steps
  <2>4. CASE ~Steps
    <3>1. outcome' \in {outcome, "-"}
      BY <1>1, <2>4 DEF Next, UserRequest, FinalRunDelete, Begin, UserExpireOrphans,
         ExpireOrphans, Startup, StartupCleanup, CleanupRefused, BeginReconcile, Recover,
         RecordRun, Restart, ReloadEntry, Tick, ExternalEdit, vars, told
    <3> QED
      BY <3>1
  <2> QED
    BY <2>3, <2>4
<1> QED
  BY <1>1, ToldHolds, PTL DEF Spec, FailureLeavesNoTrace

-------------------------------------------------------------------------------
(* Callers see whole operations only *)

(* The lists an undo may put back. *)
Kept == {history[k].autos : k \in DOMAIN history}

(* A step that shows the list of the file while the old one counted. *)
LEMMA Lands ==
  ASSUME NEW t \in Tx, Whole(t), t.op # "rollback", Committed = t.before.autos,
         Committed' = t.after.autos, Kept' = Kept
  PROVE  Catalog!CatalogNext
<1>1. /\ Committed \in [AllIds -> Automation \cup {Absent}]
      /\ Committed' \in [AllIds -> Automation \cup {Absent}]
  BY DEF Tx, File, Catalogs
<1>2. CASE t.op # "expire"
  <2>1. PICK i \in AllIds : \A j \in AllIds : j # i => Committed'[j] = Committed[j]
    BY <1>2 DEF Whole
  <2>2. Committed'[i] \in Automation \cup {Absent}
    BY <1>1
  <2>3. Committed' = [Committed EXCEPT ![i] = Committed'[i]]
    BY <1>1, <2>1
  <2>4. Catalog!Change(i, Committed'[i])
    BY <2>3 DEF Catalog!Change, Kept
  <2> QED
    BY <2>2, <2>4 DEF Catalog!CatalogNext
<1>3. CASE t.op = "expire"
  <2> DEFINE S == {i \in AllIds : Committed'[i] # Committed[i]}
  <2>1. \A i \in S : Committed[i] \in Automation /\ Committed[i].at # 0 /\ Committed'[i] = Absent
    BY <1>1, <1>3 DEF Whole, Forward
  <2>2. Committed' = [i \in AllIds |-> IF i \in S THEN Absent ELSE Committed[i]]
    BY <1>1, <2>1
  <2>3. Catalog!Expire(S)
    BY <2>1, <2>2 DEF Catalog!Expire, Kept
  <2>4. S \in SUBSET AllIds
    OBVIOUS
  <2> QED
    BY <2>3, <2>4 DEF Catalog!CatalogNext
<1> QED
  BY <1>2, <1>3

(* An undo that lands puts back a list that was kept. *)
LEMMA LandsAgain ==
  ASSUME Committed' \in Kept, Kept' = Kept
  PROVE  Catalog!CatalogNext
BY DEF Catalog!CatalogNext, Catalog!Restore, Kept

(* What is kept comes from what callers could rely on. *)
LEMMA Remembers ==
  ASSUME Committed' = Committed, Kept' \subseteq Kept \cup {Committed}
  PROVE  Catalog!CatalogNext
BY DEF Catalog!CatalogNext, Catalog!Remember, Kept

(* A step that changes neither shows nothing. *)
LEMMA NothingShows ==
  ASSUME Committed' = Committed, history' = history
  PROVE  UNCHANGED Catalog!catalogVars
BY DEF Catalog!catalogVars

(* Where an operation stands, the old list counts until it completes. *)
OldCounts ==
  IInv /\ Told /\ edits = 0 /\ InTx =>
    /\ tx \in Tx /\ tx # NoTx /\ journal = tx /\ Whole(tx)
    /\ Committed = tx.before.autos
    /\ yaml.autos \in {tx.before.autos, tx.after.autos}
    /\ yaml # tx.after => yaml.autos = tx.before.autos

(* The invariant says so. *)
LEMMA TheOldCounts == OldCounts
<1> SUFFICES ASSUME IInv, Told, edits = 0, InTx
             PROVE  /\ tx \in Tx /\ tx # NoTx /\ journal = tx /\ Whole(tx)
                    /\ Committed = tx.before.autos
                    /\ yaml.autos \in {tx.before.autos, tx.after.autos}
                    /\ yaml # tx.after => yaml.autos = tx.before.autos
  BY DEF OldCounts
<1>1. tx \in Tx /\ tx # NoTx /\ journal = tx
  BY DEF InTx, Expiring, IInv, InFlight, Journalled, TypeOK
<1>2. pc # "free" /\ (req.kind = "recover" => tx.op \notin Forward)
  BY DEF Told, Orderly, InTx, Expiring, Begun
<1>3. Whole(tx)
  BY <1>1 DEF Told, Changes
<1>4. yaml = tx.after => Committed = tx.before.autos
  BY <1>1, <1>2 DEF Committed, Working
<1>5. yaml # tx.after => yaml.autos = tx.before.autos
  BY DEF Told, InPlace, InTx, Begun, Expiring, Restored, Dump
<1>6. yaml # tx.after => Committed = tx.before.autos
  BY <1>1, <1>5 DEF Committed
<1> QED
  BY <1>1, <1>3, <1>4, <1>5, <1>6

(* It also does after the step. *)
LEMMA TheOldStillCounts == OldCounts'
BY TheOldCounts, PTL

(* What a step of the executor looks like from outside. *)
Shows == Catalog!CatalogNext \/ UNCHANGED Catalog!catalogVars

(* Within an operation nothing shows but what is remembered. *)
LEMMA WithinShows ==
  ASSUME IInv, Told, edits = 0, InTx, IInv', Told', edits' = 0, InTx',
         tx'.before = tx.before, Kept' \subseteq Kept \cup {tx.before.autos}
  PROVE  Shows
BY TheOldCounts, TheOldStillCounts, Remembers DEF OldCounts, Shows

(* An operation that ends and leaves its record: a deletion has happened, *)
(* anything else has not.                                                  *)
LEMMA LeavingShows ==
  ASSUME IInv, Told, edits = 0, InTx, tx' = NoTx, yaml' = yaml, journal' = journal,
         history' = history
  PROVE  Shows
<1>1. /\ tx \in Tx /\ tx # NoTx /\ journal = tx /\ Whole(tx)
      /\ Committed = tx.before.autos
      /\ yaml # tx.after => yaml.autos = tx.before.autos
  BY TheOldCounts DEF OldCounts
<1>2. Kept' = Kept
  BY DEF Kept
<1>3. CASE yaml = tx.after /\ tx.op \in Forward
  <2>1. Committed' = tx.after.autos /\ tx.op # "rollback"
    BY <1>1, <1>3 DEF Committed, Working, Forward
  <2> QED
    BY <1>1, <1>2, <2>1, Lands DEF Shows
<1>4. CASE ~(yaml = tx.after /\ tx.op \in Forward)
  <2>1. Committed' = tx.before.autos
    BY <1>1, <1>4 DEF Committed, Working
  <2> QED
    BY <1>1, <2>1, NothingShows DEF Shows
<1> QED
  BY <1>3, <1>4

(* An operation that ends and takes its record along: what is in the file *)
(* counts now.                                                             *)
LEMMA EndingShows ==
  ASSUME IInv, Told, edits = 0, InTx, yaml' = yaml, journal' = NoTx, history' = history,
         \/ yaml.autos = tx.before.autos
         \/ tx.op # "rollback"
         \/ \E k \in DOMAIN history : tx.after.autos = history[k].autos
  PROVE  Shows
<1>1. /\ tx \in Tx /\ tx # NoTx /\ journal = tx /\ Whole(tx)
      /\ Committed = tx.before.autos /\ Committed' = yaml.autos
      /\ yaml.autos \in {tx.before.autos, tx.after.autos}
  BY TheOldCounts DEF OldCounts, Committed
<1>2. Kept' = Kept
  BY DEF Kept
<1>3. CASE yaml.autos = tx.before.autos
  BY <1>1, <1>3, NothingShows DEF Shows
<1>4. CASE yaml.autos = tx.after.autos /\ tx.op # "rollback"
  BY <1>1, <1>2, <1>4, Lands DEF Shows
<1>5. CASE yaml.autos = tx.after.autos /\ \E k \in DOMAIN history : tx.after.autos = history[k].autos
  <2>1. Committed' \in Kept
    BY <1>1, <1>5 DEF Kept
  <2> QED
    BY <1>2, <2>1, LandsAgain DEF Shows
<1> QED
  BY <1>1, <1>3, <1>4, <1>5

(* Without a transaction in memory, the file and the record decide. *)
LEMMA IdleShows ==
  ASSUME tx = NoTx, tx' = NoTx, yaml' = yaml, journal' = journal, history' = history
  PROVE  Shows
<1>1. Committed' = Committed
  BY DEF Committed, Working
<1> QED
  BY <1>1, NothingShows DEF Shows

(* Without a record, forgetting is all that can show. *)
LEMMA ClearShows ==
  ASSUME journal = NoTx, journal' = NoTx, yaml' = yaml, Kept' \subseteq Kept
  PROVE  Shows
<1>1. Committed' = Committed
  BY DEF Committed
<1> QED
  BY <1>1, Remembers DEF Shows

(* The steps of an operation show a whole change or nothing. *)
LEMMA StepsShow ==
  ASSUME IInv, Told, edits = 0, IInv', Told', edits' = 0, Steps
  PROVE  Shows
<1>1. CASE InTx /\ InTx'
  <2>1. tx'.before = tx.before
    <3>1. CASE VerifyWrite
      <4>1. tx \in Tx
        BY <1>1, TheOldCounts DEF OldCounts
      <4> QED
        BY <1>1, <3>1, <4>1 DEF VerifyWrite, Goto, Finish, InTx, Begun, Expiring, Tx
    <3>2. CASE ~VerifyWrite
      BY <1>1, <3>2 DEF Steps, CheckDigest, Abort, WriteYaml, WriteError, AppendHistory, Reload,
         Record, ExpireMetadata, EndExpire, Complete, PopHistory, UndoCheck, UndoWrite,
         UndoVerify, UndoClear, UndoPop, UndoMeta, UndoReload, RecoverReload, Reconcile,
         EndReconcile, MetaFails, DropOrphan, RepairKnown, Goto, Finish, Undo, Next1, InTx, Begun,
         Expiring
    <3> QED
      BY <3>1, <3>2
  <2>2. Kept' \subseteq Kept \cup {tx.before.autos}
    <3>1. CASE history' = Remembered
      BY <1>1, <3>1, RememberedOnly, TheOldCounts DEF OldCounts, Kept
    <3>2. CASE history' = history
      BY <3>2 DEF Kept
    <3>3. history' \in {history, Remembered}
      BY <1>1 DEF Steps, CheckDigest, Abort, WriteYaml, WriteError, VerifyWrite, AppendHistory,
         Reload, Record, ExpireMetadata, EndExpire, Complete, PopHistory, UndoCheck, UndoWrite,
         UndoVerify, UndoClear, UndoPop, UndoMeta, UndoReload, RecoverReload, Reconcile,
         EndReconcile, durable, InTx, Begun, Expiring
    <3> QED
      BY <3>1, <3>2, <3>3
  <2> QED
    BY <1>1, <2>1, <2>2, WithinShows
<1>2. CASE InTx /\ ~InTx'
  <2>1. yaml' = yaml /\ history' = history
    BY <1>2 DEF Steps, CheckDigest, Abort, WriteYaml, WriteError, VerifyWrite, AppendHistory,
       Reload, Record, ExpireMetadata, EndExpire, Complete, PopHistory, UndoCheck, UndoWrite,
       UndoVerify, UndoClear, UndoPop, UndoMeta, UndoReload, RecoverReload, Reconcile,
       EndReconcile, MetaFails, durable, Goto, Undo, InTx, Begun, Expiring, AfterReload, Next1
  <2>2. CASE journal' = journal
    <3>1. tx' = NoTx
      BY <1>2, <2>2, TheOldCounts DEF OldCounts, Steps, CheckDigest, Abort, WriteYaml,
         WriteError, VerifyWrite, AppendHistory, Reload, Record, ExpireMetadata, EndExpire,
         Complete, PopHistory, UndoCheck, UndoWrite, UndoVerify, UndoClear, UndoPop, UndoMeta,
         UndoReload, RecoverReload, Reconcile, EndReconcile, MetaFails, Goto, Finish, Undo, InTx,
         Begun, Expiring, AfterReload, Next1
    <3> QED
      BY <1>2, <2>1, <2>2, <3>1, LeavingShows
  <2>3. CASE journal' # journal
    <3>1. journal' = NoTx /\ (Abort \/ Complete \/ UndoClear)
      BY <1>2, <2>3 DEF Steps, CheckDigest, Abort, WriteYaml, WriteError, VerifyWrite,
         AppendHistory, Reload, Record, ExpireMetadata, EndExpire, Complete, PopHistory,
         UndoCheck, UndoWrite, UndoVerify, UndoClear, UndoPop, UndoMeta, UndoReload,
         RecoverReload, Reconcile, EndReconcile, durable, Goto, InTx, Begun
    <3>2. CASE Abort \/ UndoClear
      BY <1>2, <2>1, <3>1, <3>2, EndingShows DEF Abort, UndoClear, Told, InPlace, Restored, Dump
    <3>3. CASE Complete
      <4>1. pc = "complete" /\ tx.op = JournalOp(req) /\ Asked(tx, req)
        BY <1>2, <3>3 DEF Complete, Told, Orderly, Changes, Undoing
      <4>2. tx.op = "rollback" => \E k \in DOMAIN history : tx.after.autos = history[k].autos
        BY <4>1 DEF JournalOp, Asked
      <4> QED
        BY <1>2, <2>1, <3>1, <4>2, EndingShows
    <3> QED
      BY <3>1, <3>2, <3>3
  <2> QED
    BY <2>2, <2>3
<1>3. CASE ~InTx
  <2>1. CASE PopHistory \/ UndoPop
    <3>1. /\ journal = NoTx /\ journal' = NoTx /\ yaml' = yaml
          /\ history' = history \/ (history # <<>> /\ history' = Front(history))
      BY <2>1 DEF PopHistory, UndoPop, Told, Orderly
    <3>2. Kept' \subseteq Kept
      BY <3>1, FrontOnly DEF Kept
    <3> QED
      BY <3>1, <3>2, ClearShows
  <2>2. CASE UndoMeta \/ UndoReload \/ RecoverReload
    <3>1. /\ journal = NoTx /\ journal' = NoTx /\ yaml' = yaml /\ history' = history
      BY <2>2 DEF UndoMeta, UndoReload, RecoverReload, Told, Orderly, durable
    <3> QED
      BY <3>1, ClearShows DEF Kept
  <2>3. CASE \/ Reconcile \/ EndReconcile \/ ((ExpireMetadata \/ EndExpire) /\ tx = NoTx)
    <3>1. /\ tx = NoTx /\ tx' = NoTx /\ yaml' = yaml /\ journal' = journal /\ history' = history
      BY <2>3 DEF Reconcile, EndReconcile, DropOrphan, RepairKnown, ExpireMetadata, EndExpire,
         Finish, Goto, Next1, durable, Told, Orderly
    <3> QED
      BY <3>1, IdleShows
  <2> QED
    BY <1>3, <2>1, <2>2, <2>3 DEF Steps, CheckDigest, Abort, WriteYaml, WriteError, VerifyWrite,
       AppendHistory, Reload, Record, ExpireMetadata, EndExpire, Complete, UndoCheck, UndoWrite,
       UndoVerify, UndoClear, InTx, Begun, Expiring
<1> QED
  BY <1>1, <1>2, <1>3

(* So does every other step. *)
LEMMA NextShows ==
  ASSUME IInv, Told, edits = 0, IInv', Told', edits' = 0, [Next]_vars
  PROVE  Shows
<1>1. CASE UserRequest \/ FinalRunDelete \/ Begin(StartupRequest("cleanup"))
  <2>1. /\ journal = NoTx /\ yaml' = yaml /\ tx'.before = yaml /\ pc' = "check"
        /\ history' = history
    BY <1>1 DEF UserRequest, FinalRunDelete, Begin
  <2>2. InTx'
    BY <2>1 DEF InTx, Begun
  <2>3. Committed' = yaml.autos /\ Committed = yaml.autos
    BY <2>1, <2>2, TheOldStillCounts DEF OldCounts, Committed
  <2> QED
    BY <2>1, <2>3, NothingShows DEF Shows
<1>2. CASE Steps
  BY <1>2, StepsShow
<1>3. CASE Recover
  <2>1. /\ tx = NoTx /\ yaml' = yaml /\ history' = history
    BY <1>3 DEF Recover, IInv, InFlight
  <2>2. CASE RecoverNothing
    BY <1>3, <2>1, <2>2, NothingShows DEF RecoverNothing, Untouched, Committed, Working, Shows
  <2>3. CASE RecoverForward
    <3>1. Committed' = Committed
      BY <2>1, <2>3 DEF RecoverForward, Committed, Working
    <3> QED
      BY <2>1, <3>1, NothingShows DEF Shows
  <2>4. CASE RecoverBack
    <3>1. Committed' = Committed
      BY <2>1, <2>4 DEF RecoverBack, Committed, Working
    <3> QED
      BY <2>1, <3>1, NothingShows DEF Shows
  <2>5. CASE RecoverConflict
    BY <2>1, <2>5, IdleShows DEF RecoverConflict, locals
  <2> QED
    BY <1>3, <2>2, <2>3, <2>4, <2>5 DEF Recover
<1>4. CASE Restart
  <2>1. /\ tx' = NoTx /\ yaml' = yaml /\ journal' = journal /\ history' = history
    BY <1>4 DEF Restart, durable
  <2>2. CASE InTx
    BY <2>1, <2>2, LeavingShows
  <2>3. CASE ~InTx /\ tx = NoTx
    BY <2>1, <2>3, IdleShows
  <2>4. CASE ~InTx /\ tx # NoTx
    <3>1. journal = NoTx
      BY <2>4 DEF InTx, Begun, Expiring, Told, Orderly, IInv, InFlight, TypeOK, Pcs
    <3> QED
      BY <2>1, <3>1, ClearShows DEF Kept
  <2> QED
    BY <2>2, <2>3, <2>4
<1>5. CASE \/ UserExpireOrphans \/ ExpireOrphans(StartupRequest("cleanup")) \/ BeginReconcile
           \/ ReloadEntry \/ (\E i \in Ids : RecordRun(i))
  <2>1. /\ tx = NoTx /\ tx' = NoTx /\ yaml' = yaml /\ journal' = journal /\ history' = history
    BY <1>5 DEF UserExpireOrphans, ExpireOrphans, BeginReconcile, ReloadEntry, RecordRun, IInv,
       InFlight, durable, locals
  <2> QED
    BY <2>1, IdleShows
<1>6. CASE CleanupRefused \/ Tick \/ UNCHANGED vars
  BY <1>6, NothingShows DEF CleanupRefused, Tick, vars, durable, locals, Committed, Working, Shows
<1>7. ~ExternalEdit
  BY ExecutorAssumption DEF ExternalEdit, IInv, TypeOK
<1> QED
  BY <1>1, <1>2, <1>3, <1>4, <1>5, <1>6, <1>7 DEF Next, Startup, StartupCleanup

(* As long as no other program writes the file, the executor implements the  *)
(* catalogue of AutomationCatalog: through crashes, failing calls, rollback, *)
(* recovery and undo, callers see one automation change, dated ones expire   *)
(* together, or a list come back that counted before - never part of a       *)
(* change.                                                                    *)
THEOREM OnlyWholeOperations == ASSUME MaxEdits = 0 PROVE Spec => CatalogPromise
<1>1. Init => Catalog!CatalogInit
  <2> SUFFICES ASSUME Init PROVE Catalog!CatalogInit
    OBVIOUS
  <2>1. yaml.autos \in Catalogs /\ journal = NoTx /\ history = <<>>
    BY InitHolds, AutoType DEF Init, IInv
  <2>2. Committed \in [AllIds -> Automation \cup {Absent}]
    BY <2>1 DEF Committed, Catalogs
  <2>3. {history[k].autos : k \in DOMAIN history} = {}
    BY <2>1
  <2> QED
    BY <2>2, <2>3 DEF Catalog!CatalogInit, Catalog!Catalogs
<1>2. IInv => edits = 0
  BY DEF IInv, TypeOK
<1>3. IInv /\ Told /\ IInv' /\ Told' /\ [Next]_vars => [Catalog!CatalogNext]_(Catalog!catalogVars)
  <2> SUFFICES ASSUME IInv, Told, IInv', Told', [Next]_vars
               PROVE  Catalog!CatalogNext \/ UNCHANGED Catalog!catalogVars
    OBVIOUS
  <2>1. edits = 0 /\ edits' = 0
    BY DEF IInv, TypeOK
  <2> QED
    BY <2>1, NextShows DEF Shows
<1> QED
  BY <1>1, <1>3, ToldHolds, PTL DEF Spec, CatalogPromise, Catalog!CatalogSpec
=============================================================================
