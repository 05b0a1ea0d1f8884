---------------------- MODULE AutomationExecutorProofs ----------------------
(***************************************************************************)
(* What holds of the automation executor for every number of automations,  *)
(* every bound and every set of requests.                                  *)
(***************************************************************************)
EXTENDS AutomationExecutor, TLAPS

(* Where an operation stands between its journal record and the removal of *)
(* that record, and the part of it before anything can be rolled back.     *)
Begun == {"check", "write", "verify", "write_error", "abort", "history",
          "reload", "record", "complete", "undo_check", "undo_write",
          "undo_verify", "undo_clear"}
Applying == {"check", "write", "verify", "history", "reload", "record"}

(* The strengthening of TypeOK: what an operation found when it began still *)
(* holds when it gets to its metadata, and its journal record is the        *)
(* transaction it has in memory.                                            *)
Journalled == pc \in Begun \/ (pc = "expire" /\ tx # NoTx) =>
                tx # NoTx /\ journal = tx

InFlight ==
  /\ Journalled
  /\ pc = "free" => tx = NoTx
  /\ pc # "free" => req # NoReq
  /\ pc \in Applying => req.kind \in Kinds \cup {"cleanup"}
  /\ pc = "record" => req.kind \notin {"enable", "disable", "expire", "cleanup"}
  /\ pc \in Applying /\ req.kind \in UpdateKinds => Known(req.id)
  /\ pc \in Applying /\ req.kind = "rollback" => history # <<>>
  /\ pc = "undo_meta" => req.kind = "create"
  /\ pc = "reconcile" => \A i \in todo : Known(i)

IInv == TypeOK /\ InFlight

-------------------------------------------------------------------------------
(* Lemmas about requests, catalogues and the history *)

(* A request names an id when its kind is one of the operations. *)
LEMMA RequestShape ==
  ASSUME NEW r \in AnyRequest
  PROVE  /\ r.kind \in Kinds \cup StartupKinds
         /\ r.kind \in Kinds => r.id \in Ids
         /\ r.kind \in Kinds \ {"delete"} => r \in Request
BY DEF AnyRequest, Request, StartupRequest, Deletion, Kinds, UpdateKinds,
       StartupKinds

(* The newest history entry is well-formed. *)
LEMMA LastEntry ==
  ASSUME TypeOK, history # <<>>
  PROVE  history[Len(history)] \in HistoryEntry
BY DEF TypeOK

(* Appending to the bounded history keeps it well-formed and not empty. *)
LEMMA RememberedType ==
  ASSUME TypeOK, tx \in Tx
  PROVE  Remembered \in Seq(HistoryEntry) /\ Remembered # <<>>
<1> DEFINE e == [stamp |-> tx.stamp, autos |-> tx.before.autos, meta |-> meta]
           h == Append(history, e)
<1>1. e \in HistoryEntry
  BY DEF TypeOK, Tx, File, HistoryEntry
<1>2. h \in Seq(HistoryEntry) /\ Len(h) = Len(history) + 1
  BY <1>1 DEF TypeOK
<1>3. Len(h) > HistoryLimit =>
        Tail(h) \in Seq(HistoryEntry) /\ Len(Tail(h)) = Len(h) - 1
  BY <1>2, ExecutorAssumption
<1>4. Len(h) > HistoryLimit => Tail(h) # <<>>
  BY <1>2, <1>3, ExecutorAssumption
<1>5. h # <<>>
  <2> HIDE DEF h
  <2>1. Len(h) > 0
    BY <1>2 DEF TypeOK
  <2> QED
    BY <2>1
<1> QED
  BY <1>2, <1>3, <1>4, <1>5 DEF Remembered

(* Dropping the newest history entry keeps the history well-formed. *)
LEMMA FrontType ==
  ASSUME TypeOK, history # <<>>
  PROVE  Front(history) \in Seq(HistoryEntry)
BY DEF TypeOK, Front

(* The list in the file has one well-formed entry, or none, per id. *)
LEMMA AutoType ==
  ASSUME TypeOK
  PROVE  /\ yaml.autos \in Catalogs
         /\ \A i \in AllIds : yaml.autos[i] # Absent => yaml.autos[i] \in Automation
         /\ \A i \in Ids : i \in AllIds
         /\ \A i \in Ids : Known(i) => meta[i] \in Meta
<1>1. yaml.autos \in [AllIds -> Automation \cup {Absent}]
  BY DEF TypeOK, File, Catalogs
<1>2. meta \in [Ids -> Meta \cup {Absent}]
  BY DEF TypeOK, Metas
<1> QED
  BY <1>1, <1>2 DEF Catalogs, AllIds, Known

(* Every operation that is allowed plans a well-formed list. *)
LEMMA UpdatedType ==
  ASSUME TypeOK, NEW r \in AnyRequest, Allowed(r),
         r.kind \in Kinds \cup {"cleanup"}
  PROVE  Updated(r) \in Catalogs
<1>1. /\ r.kind \in Kinds => r.id \in Ids /\ r.id \in AllIds
      /\ r.kind \in Kinds \ {"delete"} => r \in Request
  BY RequestShape, AutoType
<1>2. yaml.autos \in Catalogs
  BY AutoType
<1>3. \A v \in Automation \cup {Absent}, i \in AllIds : With(i, v) \in Catalogs
  BY <1>2 DEF With, Catalogs
<1>4. CASE r.kind = "create"
  <2>1. [on |-> TRUE, at |-> r.at, limit |-> r.limit, body |-> r.body] \in Automation
    BY <1>1, <1>4 DEF Request, Automation, Kinds
  <2> QED
    BY <1>1, <1>3, <1>4, <2>1 DEF Updated, Created, Deleted, Switched,
         Rescheduled, Limited, Rewritten, Remaining, Kinds
<1>5. CASE r.kind = "delete"
  BY <1>1, <1>3, <1>5 DEF Updated, Created, Deleted, Switched,
         Rescheduled, Limited, Rewritten, Remaining, Kinds
<1>6. CASE r.kind \in {"enable", "disable"} \cup UpdateKinds
  <2>1. Listed(r.id)
    BY <1>6 DEF Allowed, UpdateKinds
  <2>2. yaml.autos[r.id] \in Automation
    BY <1>1, <1>6, <2>1, AutoType DEF Listed, Kinds
  <2>3. /\ [yaml.autos[r.id] EXCEPT !.on = (r.kind = "enable")] \in Automation
        /\ r \in Request => [yaml.autos[r.id] EXCEPT !.at = r.at] \in Automation
        /\ r \in Request => [yaml.autos[r.id] EXCEPT !.limit = r.limit] \in Automation
        /\ r \in Request => [yaml.autos[r.id] EXCEPT !.body = r.body] \in Automation
    BY <2>2 DEF Automation, Request
  <2> QED
    BY <1>1, <1>3, <1>6, <2>3 DEF Updated, Created, Deleted, Switched,
         Rescheduled, Limited, Rewritten, Remaining, Kinds, UpdateKinds
<1>7. CASE r.kind \in {"expire", "cleanup"}
  BY <1>2, <1>7 DEF Updated, Created, Deleted, Switched,
         Rescheduled, Limited, Rewritten, Remaining, Catalogs, UpdateKinds
<1>8. CASE r.kind = "rollback"
  BY <1>8, LastEntry DEF Updated, Created, Deleted, Switched,
         Rescheduled, Limited, Rewritten, Remaining, Allowed, HistoryEntry, UpdateKinds
<1> QED
  BY <1>4, <1>5, <1>6, <1>7, <1>8 DEF Kinds

(* Every operation that gets to its metadata writes well-formed ones. *)
LEMMA RecordedType ==
  ASSUME IInv, pc = "record"
  PROVE  Recorded(req) \in Metas
<1>1. /\ req \in AnyRequest
      /\ req.kind \in {"create", "delete", "rollback"} \cup UpdateKinds
  BY DEF IInv, InFlight, TypeOK, Kinds, Applying
<1>2. /\ req.id \in Ids
      /\ req.kind # "delete" => req \in Request
  BY <1>1, RequestShape DEF Kinds
<1>3. /\ meta \in Metas
      /\ req.kind \in UpdateKinds => meta[req.id] \in Meta
  BY <1>1, <1>2, AutoType DEF IInv, InFlight, TypeOK, Applying
<1>4. \A v \in Meta \cup {Absent} : [meta EXCEPT ![req.id] = v] \in Metas
  BY <1>2, <1>3 DEF Metas
<1>5. CASE req.kind = "create"
  <2>1. [once |-> req.once, at |-> req.at, limit |-> req.limit, count |-> 0,
         src |-> req.body] \in Meta
    BY <1>2, <1>5, ExecutorAssumption DEF Request, Meta
  <2> QED
    BY <1>4, <1>5, <2>1 DEF Recorded
<1>6. CASE req.kind = "delete"
  BY <1>4, <1>6 DEF Recorded
<1>7. CASE req.kind \in UpdateKinds
  <2>0. req.at \in 0..MaxTime /\ req.limit \in 0..MaxRuns /\ req.body \in Bodies
    BY <1>2, <1>7 DEF Request, UpdateKinds
  <2>. 0 \in 0..MaxRuns
    BY ExecutorAssumption
  <2>1. /\ [meta[req.id] EXCEPT !.at = req.at] \in Meta
        /\ [meta[req.id] EXCEPT !.limit = req.limit, !.count = 0] \in Meta
        /\ [meta[req.id] EXCEPT !.src = req.body] \in Meta
    BY <1>3, <1>7, <2>0 DEF Meta
  <2>2. CASE req.kind = "reschedule"
    BY <1>4, <2>1, <2>2 DEF Recorded, UpdateKinds
  <2>3. CASE req.kind = "set_max_runs"
    <3>1. Recorded(req) =
            [meta EXCEPT ![req.id].limit = req.limit, ![req.id].count = 0]
      BY <2>3 DEF Recorded, UpdateKinds
    <3>2. @ = [meta EXCEPT ![req.id] =
                 [meta[req.id] EXCEPT !.limit = req.limit, !.count = 0]]
      BY <1>2, <1>3 DEF Metas
    <3> QED
      BY <1>4, <2>1, <3>1, <3>2
  <2>4. CASE req.kind \in {"replace_actions", "replace_section"}
    BY <1>4, <2>1, <2>4 DEF Recorded, UpdateKinds
  <2> QED
    BY <1>7, <2>2, <2>3, <2>4 DEF UpdateKinds
<1>8. CASE req.kind = "rollback"
  <2>1. history # <<>>
    BY <1>8 DEF IInv, InFlight, Applying
  <2> QED
    BY <1>8, <2>1, LastEntry DEF Recorded, HistoryEntry, IInv, UpdateKinds
<1> QED
  BY <1>1, <1>5, <1>6, <1>7, <1>8

(* Reconciliation repairs metadata into metadata. *)
LEMMA RepairedType ==
  ASSUME NEW m \in Meta, NEW a \in Automation
  PROVE  Repaired(m, a) \in Meta
<1>1. 0 \in 0..MaxRuns
  BY ExecutorAssumption
<1>2. /\ (IF m.at # 0 /\ a.at # 0 THEN a.at ELSE m.at) \in 0..MaxTime
      /\ a.limit \in 0..MaxRuns
      /\ (IF m.limit # a.limit THEN 0 ELSE m.count) \in 0..MaxRuns
  BY <1>1 DEF Meta, Automation
<1> QED
  BY <1>2 DEF Repaired, Meta

-------------------------------------------------------------------------------
(* The invariant is kept *)

(* Giving the lock back clears what its holder knew. *)
LEMMA FinishType ==
  ASSUME IInv, NEW result \in {"ok", "error"}, Finish(result)
  PROVE  /\ pc' = "free" /\ req' = NoReq /\ tx' = NoTx
         /\ failedAt' = "-" /\ todo' = {}
         /\ boot' \in {"recover", "reconcile", "cleanup", "done", "aborted"}
         /\ outcome' \in {"-", "ok", "error"}
         /\ owed' \subseteq Ids
BY DEF Finish, IInv, TypeOK

(* Home Assistant loads well-formed automations and entries. *)
LEMMA LoadType ==
  ASSUME IInv, Load(yaml.autos) \/ UNCHANGED registry
  PROVE  live' \in Catalogs /\ entity' \in [Ids -> Entities]
BY AutoType DEF Load, registry, IInv, TypeOK, Entities

(* The count of failed calls stays within its bound. *)
LEMMA FaultType ==
  ASSUME IInv, NEW p, Fault(p) \/ NoFault
  PROVE  faults' \in 0..MaxFaults
BY ExecutorAssumption DEF Fault, NoFault, IInv, TypeOK

(* A transaction begins with a journal record and a request that fit. *)
LEMMA BeginKeeps ==
  ASSUME IInv, NEW r \in AnyRequest, r.kind \in Kinds \cup {"cleanup"}, Begin(r)
  PROVE  IInv'
<1> DEFINE t == [op |-> JournalOp(r), stamp |-> txs + 1, before |-> yaml,
                 after |-> Dump(Updated(r))]
<1>1. Dump(Updated(r)) \in File
  BY UpdatedType DEF Begin, Dump, File, IInv
<1>2. t \in Tx
  <2>1. JournalOp(r) \in Kinds
    BY DEF JournalOp, Kinds
  <2>2. txs + 1 \in 1..MaxTx
    BY ExecutorAssumption DEF Begin, IInv, TypeOK
  <2> QED
    BY <1>1, <2>1, <2>2 DEF Tx, IInv, TypeOK
<1>3. tx' = t /\ journal' = t /\ t # NoTx
  BY <1>2, NoTxAssumption DEF Begin
<1>4. todo' \subseteq Ids
  BY DEF Begin, Overdue
<1>5. issued' \subseteq Ids
  BY RequestShape DEF Begin, IInv, TypeOK, Kinds
<1>6. txs' \in 0..MaxTx
  BY ExecutorAssumption DEF Begin, IInv, TypeOK
<1>7. TypeOK'
  BY <1>2, <1>3, <1>4, <1>5, <1>6 DEF Begin, registry, IInv, TypeOK, Pcs
<1>8. r.kind \in UpdateKinds => Known(r.id)
  BY DEF Begin, Allowed, UpdateKinds
<1>9. r.kind = "rollback" => history # <<>>
  BY DEF Begin, Allowed, UpdateKinds
<1>10. r # NoReq
  BY NullAssumption
<1> QED
  BY <1>3, <1>7, <1>8, <1>9, <1>10
  DEF Begin, IInv, InFlight, Journalled, Begun, Applying, Known

(* Expiry of metadata without automation begins no transaction. *)
LEMMA ExpireOrphansKeeps ==
  ASSUME IInv, NEW r \in AnyRequest, ExpireOrphans(r)
  PROVE  IInv'
<1>1. TypeOK'
  BY DEF ExpireOrphans, Overdue, durable, registry, ghosts, counters, IInv,
         TypeOK, Pcs
<1>2. r # NoReq
  BY NullAssumption
<1> QED
  BY <1>1, <1>2 DEF ExpireOrphans, durable, IInv, InFlight, Journalled, Begun,
                    Applying, Known

(* Comparing the digest only decides where to go. *)
LEMMA CheckDigestKeeps == IInv /\ CheckDigest => IInv'
BY DEF CheckDigest, Goto, told, durable, registry, ghosts, counters, IInv,
       TypeOK, Pcs, InFlight, Journalled, Begun, Applying, Known

(* Giving up before the write clears the journal or leaves it. *)
LEMMA AbortKeeps == IInv /\ Abort => IInv'
BY FinishType, FaultType
DEF Abort, registry, ghosts, IInv, TypeOK, Pcs, InFlight, Journalled, Begun,
    Applying, Known

(* The file gets the list the transaction has planned. *)
LEMMA WriteYamlKeeps == IInv /\ WriteYaml => IInv'
BY FaultType, SMTT(30)
DEF WriteYaml, Goto, Tx, told, registry, ghosts, IInv, TypeOK, Pcs, InFlight,
    Journalled, Begun, Applying, Known

(* A failed write decides by what the file holds. *)
LEMMA WriteErrorKeeps == IInv /\ WriteError => IInv'
BY FinishType
DEF WriteError, Goto, told, durable, registry, ghosts, counters, IInv, TypeOK, Pcs,
    InFlight, Journalled, Begun, Applying, Known

(* The second journal record has the bytes that were read back. *)
LEMMA VerifyWriteKeeps == IInv /\ VerifyWrite => IInv'
<1> SUFFICES ASSUME IInv, VerifyWrite PROVE IInv'
  OBVIOUS
<1>1. tx \in Tx /\ yaml \in File
  BY DEF VerifyWrite, IInv, InFlight, Journalled, Begun, TypeOK
<1>2. [tx EXCEPT !.after = yaml] \in Tx
  BY <1>1 DEF Tx
<1>3. [tx EXCEPT !.after = yaml] # NoTx
  BY <1>2, NoTxAssumption
<1>4. CASE /\ tx' = [tx EXCEPT !.after = yaml] /\ journal' = tx'
           /\ pc' = IF req.kind = "rollback" THEN "reload" ELSE "history"
           /\ UNCHANGED <<req, failedAt, todo, told, faults>>
  <2>1. TypeOK'
    BY <1>2, <1>4 DEF VerifyWrite, told, registry, ghosts, IInv, TypeOK, Pcs
  <2> QED
    BY <1>3, <1>4, <2>1 DEF VerifyWrite, registry, IInv, InFlight, Journalled,
                            Begun, Applying, Known
<1>5. CASE UNCHANGED journal /\ Finish("error") /\ Fault("journal")
  BY <1>5, FinishType, FaultType
  DEF VerifyWrite, registry, ghosts, IInv, TypeOK, Pcs, InFlight, Journalled,
      Begun, Applying, Known
<1>6. CASE UNCHANGED journal /\ Goto("write_error") /\ NoFault
  BY <1>6, FaultType
  DEF VerifyWrite, Goto, told, registry, ghosts, IInv, TypeOK, Pcs, InFlight,
      Journalled, Begun, Applying, Known
<1> QED
  BY <1>4, <1>5, <1>6 DEF VerifyWrite

(* The history remembers the transaction that the lock holder has. *)
LEMMA AppendHistoryKeeps == IInv /\ AppendHistory => IInv'
BY FinishType, FaultType, RememberedType, SMTT(30)
DEF AppendHistory, Goto, Undo, told, registry, ghosts, IInv, TypeOK, Pcs, InFlight,
    Journalled, Begun, Applying, Known

(* A reload loads the file, or starts the rollback. *)
LEMMA ReloadKeeps == IInv /\ Reload => IInv'
BY FinishType, FaultType, LoadType, SMTT(30)
DEF Reload, Goto, Undo, told, durable, ghosts, Reloaded, ReloadFails, AfterReload,
    Kinds, IInv, TypeOK, Pcs, InFlight, Journalled, Begun, Applying, Known

(* Category and metadata are those of the request. *)
LEMMA RecordKeeps == IInv /\ Record => IInv'
BY FinishType, FaultType, RecordedType, RequestShape
DEF Record, Goto, Undo, MetaFails, Categorised, HasEntity, Entities, told, ghosts,
    IInv, TypeOK, Pcs, InFlight, Journalled, Begun, Applying, Known

(* The expiry drops one entry of metadata after the other. *)
LEMMA ExpireMetadataKeeps == IInv /\ ExpireMetadata => IInv'
BY FinishType, FaultType
DEF ExpireMetadata, Next1, Metas, told, registry, ghosts, IInv, TypeOK, Pcs, InFlight,
    Journalled, Begun, Applying, Known

(* The end of the expiry changes nothing yet. *)
LEMMA EndExpireKeeps == IInv /\ EndExpire => IInv'
BY FinishType
DEF EndExpire, Goto, told, durable, registry, ghosts, counters, IInv, TypeOK, Pcs,
    InFlight, Journalled, Begun, Applying, Known

(* Completing a transaction clears its journal record. *)
LEMMA CompleteKeeps == IInv /\ Complete => IInv'
BY FinishType, FaultType, RequestShape, SMTT(30)
DEF Complete, Goto, Entities, told, ghosts, IInv, TypeOK, Pcs, InFlight, Journalled,
    Begun, Applying, Known

(* An undone change leaves the history. *)
LEMMA PopHistoryKeeps == IInv /\ PopHistory => IInv'
BY FinishType, FrontType
DEF PopHistory, registry, ghosts, counters, IInv, TypeOK, Pcs, InFlight, Journalled,
    Begun, Applying, Known

(* Before a rollback the digest is compared again. *)
LEMMA UndoCheckKeeps == IInv /\ UndoCheck => IInv'
BY FinishType
DEF UndoCheck, Goto, told, durable, registry, ghosts, counters, IInv, TypeOK, Pcs,
    InFlight, Journalled, Begun, Applying, Known

(* A rollback writes the list of the journal record. *)
LEMMA UndoWriteKeeps == IInv /\ UndoWrite => IInv'
BY FinishType, FaultType, SMTT(30)
DEF UndoWrite, Goto, Restored, Dump, File, Tx, told, registry, ghosts, IInv, TypeOK, Pcs,
    InFlight, Journalled, Begun, Applying, Known

(* A rollback is read back like any write. *)
LEMMA UndoVerifyKeeps == IInv /\ UndoVerify => IInv'
BY FinishType
DEF UndoVerify, Goto, told, durable, registry, ghosts, counters, IInv, TypeOK, Pcs,
    InFlight, Journalled, Begun, Applying, Known

(* A finished rollback clears the journal, or fails to. *)
LEMMA UndoClearKeeps == IInv /\ UndoClear => IInv'
BY FinishType, FaultType, SMTT(30)
DEF UndoClear, Goto, told, registry, ghosts, IInv, TypeOK, Pcs, InFlight, Journalled,
    Begun, Applying, Known

(* A rolled back change leaves the history again. *)
LEMMA UndoPopKeeps == IInv /\ UndoPop => IInv'
BY FinishType, FrontType
DEF UndoPop, Goto, AfterUndo, told, registry, ghosts, counters, IInv, TypeOK, Pcs,
    InFlight, Journalled, Begun, Applying, Known

(* A rolled back creation leaves no metadata. *)
LEMMA UndoMetaKeeps == IInv /\ UndoMeta => IInv'
BY FinishType, FaultType, SMTT(30)
DEF UndoMeta, Goto, Metas, told, registry, ghosts, IInv, TypeOK, Pcs, InFlight,
    Journalled, Begun, Applying, Known

(* After a rollback Home Assistant loads the old list, or not. *)
LEMMA UndoReloadKeeps == IInv /\ UndoReload => IInv'
BY FinishType, FaultType, LoadType
DEF UndoReload, Reloaded, ReloadFails, durable, ghosts, IInv, TypeOK, Pcs, InFlight,
    Journalled, Begun, Applying, Known

(* Recovery ends with a reload. *)
LEMMA RecoverReloadKeeps == IInv /\ RecoverReload => IInv'
BY FinishType, FaultType, LoadType
DEF RecoverReload, Reloaded, ReloadFails, durable, ghosts, IInv, TypeOK, Pcs, InFlight,
    Journalled, Begun, Applying, Known

(* Recovery takes the transaction from the journal record. *)
LEMMA RecoverKeeps == IInv /\ Recover => IInv'
BY NullAssumption
DEF Recover, RecoverNothing, RecoverForward, RecoverBack, RecoverConflict,
    StartupRequest, AnyRequest, StartupKinds, registry, locals, ghosts,
    counters, IInv, TypeOK, Pcs, InFlight, Journalled, Begun, Applying, Known

(* Reconciliation sets out with the known ids. *)
LEMMA BeginReconcileKeeps == IInv /\ BeginReconcile => IInv'
BY NullAssumption
DEF BeginReconcile, StartupRequest, AnyRequest, StartupKinds, durable, registry, told, ghosts,
    counters, IInv, TypeOK, Pcs, InFlight, Journalled, Begun, Applying, Known

(* Reconciliation drops or repairs well-formed metadata. *)
LEMMA ReconcileKeeps == IInv /\ Reconcile => IInv'
BY FinishType, FaultType, RepairedType, AutoType
DEF Reconcile, DropOrphan, RepairKnown, Listed, HasEntity, Next1, Metas, NoFault,
    Entities, told, ghosts, IInv, TypeOK, Pcs, InFlight, Journalled, Begun,
    Applying, Known

(* The end of reconciliation changes no file. *)
LEMMA EndReconcileKeeps == IInv /\ EndReconcile => IInv'
BY FinishType
DEF EndReconcile, durable, registry, ghosts, counters, IInv, TypeOK, Pcs, InFlight,
    Journalled, Begun, Applying, Known

(* A clean-up that may not run only ends the start-up. *)
LEMMA CleanupRefusedKeeps ==
  IInv /\ pc = "free" /\ CleanupRefused => IInv'
BY DEF CleanupRefused, durable, registry, locals, ghosts, counters, IInv,
       TypeOK, Pcs, InFlight, Journalled, Begun, Applying, Known

(* A run is counted below its limit, or a deletion is owed. *)
LEMMA RecordRunKeeps ==
  ASSUME IInv, NEW i \in Ids, RecordRun(i)
  PROVE  IInv'
<1>1. meta[i] \in Meta
  BY AutoType DEF RecordRun, IInv
<1>2. ~(meta[i].count + 1 >= meta[i].limit) =>
        [meta[i] EXCEPT !.count = @ + 1] \in Meta
  <2>1. meta[i].count \in 0..MaxRuns /\ meta[i].limit \in 0..MaxRuns
    BY <1>1 DEF Meta
  <2>2. ~(meta[i].count + 1 >= meta[i].limit) =>
          meta[i].count + 1 \in 0..MaxRuns
    BY <2>1, ExecutorAssumption
  <2> QED
    BY <1>1, <2>2 DEF Meta
<1>3. meta' \in Metas
  BY <1>2 DEF RecordRun, Metas, IInv, TypeOK
<1> QED
  BY <1>3 DEF RecordRun, registry, locals, ghosts, counters, IInv, TypeOK, Pcs,
              InFlight, Journalled, Begun, Applying, Known

(* After a restart nobody holds the lock, and the files are as they were. *)
LEMMA RestartKeeps == IInv /\ Restart => IInv'
BY LoadType, ExecutorAssumption
DEF Restart, durable, ghosts, IInv, TypeOK, Pcs, InFlight, Journalled, Begun,
    Applying, Known

(* Reloading the entry starts the start-up task again. *)
LEMMA ReloadEntryKeeps == IInv /\ ReloadEntry => IInv'
BY DEF ReloadEntry, durable, registry, locals, ghosts, counters, IInv, TypeOK,
       Pcs, InFlight, Journalled, Begun, Applying, Known

(* Another program leaves a well-formed list. *)
LEMMA EditShape ==
  ASSUME IInv, ExternalEdit
  PROVE  \E i \in AllIds, v \in Automation \cup {Absent}, f \in Forms :
           LET c == [yaml.autos EXCEPT ![i] = v]
           IN  /\ yaml' = [autos |-> c, form |-> f]
               /\ handmade' = [x \in ExtIds |-> c[x]]
               /\ Load(c) \/ UNCHANGED registry
<1>1. 0 \in 0..MaxTime /\ 0 \in 0..MaxRuns
  BY ExecutorAssumption
<1>2. Foreign \subseteq Automation
  BY <1>1 DEF Foreign, Automation
<1>3. \E i \in AllIds, v \in Automation \cup {Absent} :
        EditTo([yaml.autos EXCEPT ![i] = v])
  <2>1. CASE \E x \in ExtIds, v \in Foreign \cup {Absent} :
               EditTo([yaml.autos EXCEPT ![x] = v])
    BY <1>2, <2>1 DEF AllIds
  <2>2. CASE \E i \in Ids : EditTo([yaml.autos EXCEPT ![i] = Absent])
    BY <2>2 DEF AllIds
  <2> QED
    BY <2>1, <2>2 DEF ExternalEdit
<1> QED
  BY <1>3 DEF EditTo

(* An edit by another program changes no HomeIntent state. *)
LEMMA ExternalEditKeeps == IInv /\ ExternalEdit => IInv'
<1> SUFFICES ASSUME IInv, ExternalEdit PROVE IInv'
  OBVIOUS
<1>1. PICK i \in AllIds, v \in Automation \cup {Absent}, f \in Forms :
        LET c == [yaml.autos EXCEPT ![i] = v]
        IN  /\ yaml' = [autos |-> c, form |-> f]
            /\ handmade' = [x \in ExtIds |-> c[x]]
            /\ Load(c) \/ UNCHANGED registry
  BY EditShape
<1> DEFINE c == [yaml.autos EXCEPT ![i] = v]
<1>2. c \in Catalogs
  BY AutoType DEF IInv, Catalogs
<1>3. yaml' \in File
  BY <1>1, <1>2 DEF File, Forms
<1>4. handmade' \in [ExtIds -> Automation \cup {Absent}]
  BY <1>1, <1>2 DEF Catalogs, AllIds
<1>5. live' \in Catalogs /\ entity' \in [Ids -> Entities]
  BY <1>1, <1>2 DEF Load, registry, IInv, TypeOK, Entities
<1>6. edits' \in 0..MaxEdits
  BY ExecutorAssumption DEF ExternalEdit, IInv, TypeOK
<1> QED
  BY <1>3, <1>4, <1>5, <1>6
  DEF ExternalEdit, locals, told, IInv, TypeOK, Pcs, InFlight, Journalled,
      Begun, Applying, Known

(* Time passes within its bound. *)
LEMMA TickKeeps == IInv /\ Tick => IInv'
BY ExecutorAssumption
DEF Tick, durable, registry, locals, told, ghosts, IInv, TypeOK, Pcs, InFlight,
    Journalled, Begun, Applying, Known

(* Nothing changes when nothing happens. *)
LEMMA StutterKeeps == IInv /\ UNCHANGED vars => IInv'
BY DEF vars, durable, registry, locals, told, ghosts, counters, IInv, TypeOK,
       InFlight, Journalled, Known

(* The invariant holds at first: empty files, nobody holds the lock. *)
LEMMA InitHolds == Init => IInv
<1> SUFFICES ASSUME Init PROVE IInv
  OBVIOUS
<1>1. /\ NoAutos \in Catalogs /\ NoMetas \in Metas
      /\ [i \in Ids |-> "none"] \in [Ids -> Entities]
      /\ [x \in ExtIds |-> Absent] \in [ExtIds -> Automation \cup {Absent}]
  BY DEF NoAutos, NoMetas, Catalogs, Metas, Entities
<1>2. yaml \in File
  <2>1. PICK f \in Forms : yaml = [autos |-> NoAutos, form |-> f]
    BY DEF Init
  <2> QED
    BY <1>1, <2>1 DEF Forms, File
<1>3. history \in Seq(HistoryEntry)
  BY DEF Init
<1>4. TypeOK
  BY <1>1, <1>2, <1>3, ExecutorAssumption DEF Init, TypeOK, Pcs
<1> QED
  BY <1>4 DEF Init, IInv, InFlight, Journalled, Begun, Applying

(* The steps of the lock holder together. *)
LEMMA StepsKeep == IInv /\ Steps => IInv'
BY CheckDigestKeeps, AbortKeeps, WriteYamlKeeps, WriteErrorKeeps,
   VerifyWriteKeeps, AppendHistoryKeeps, ReloadKeeps, RecordKeeps,
   ExpireMetadataKeeps, EndExpireKeeps, CompleteKeeps, PopHistoryKeeps,
   UndoCheckKeeps, UndoWriteKeeps, UndoVerifyKeeps, UndoClearKeeps,
   UndoPopKeeps, UndoMetaKeeps, UndoReloadKeeps, RecoverReloadKeeps,
   ReconcileKeeps, EndReconcileKeeps
DEF Steps

(* The beginnings of all requests together. *)
LEMMA RequestsKeep ==
  IInv /\ (UserRequest \/ UserExpireOrphans \/ FinalRunDelete) => IInv'
<1> SUFFICES ASSUME IInv, UserRequest \/ UserExpireOrphans \/ FinalRunDelete
             PROVE  IInv'
  OBVIOUS
<1>1. \A r \in Requests : r \in AnyRequest /\ r.kind \in Kinds
  BY ExecutorAssumption DEF AnyRequest, Request
<1>2. \A i \in owed : Deletion(i) \in AnyRequest /\ Deletion(i).kind \in Kinds
  BY DEF AnyRequest, Deletion, Kinds, IInv, TypeOK
<1> QED
  BY <1>1, <1>2, BeginKeeps, ExpireOrphansKeeps
  DEF UserRequest, UserExpireOrphans, FinalRunDelete

(* The steps of the start-up task together. *)
LEMMA StartupKeeps == IInv /\ Startup => IInv'
<1>1. /\ StartupRequest("cleanup") \in AnyRequest
      /\ StartupRequest("cleanup").kind = "cleanup"
  BY DEF AnyRequest, StartupRequest, StartupKinds
<1> QED
  BY <1>1, RecoverKeeps, BeginReconcileKeeps, BeginKeeps, ExpireOrphansKeeps,
     CleanupRefusedKeeps
  DEF Startup, StartupCleanup

(* The invariant is inductive. *)
LEMMA NextKeeps == IInv /\ [Next]_vars => IInv'
BY StepsKeep, RequestsKeep, StartupKeeps, RecordRunKeeps, RestartKeeps,
   ReloadEntryKeeps, ExternalEditKeeps, TickKeeps, StutterKeeps
DEF Next

(* The invariant that carries the proofs below: besides the types, an      *)
(* operation that gets to its metadata still finds what it checked when it  *)
(* began, and its journal record is its transaction.                        *)
THEOREM InvariantHolds == Spec => []IInv
BY InitHolds, NextKeeps, PTL DEF Spec

(* The executor's memory and its four files always have their type, so no  *)
(* operation works on an automation or on metadata that is not there.       *)
THEOREM TypeCorrect == Spec => []TypeOK
BY InvariantHolds, PTL DEF IInv

-------------------------------------------------------------------------------
(* An open journal record always knows what the file holds *)

(* Steps that touch neither the file nor the journal. *)
LEMMA RecoverableFrame ==
  ASSUME IInv, Recoverable, yaml' = yaml, journal' \in {journal, NoTx},
         edits' = edits
  PROVE  Recoverable'
BY DEF Recoverable

(* A fresh journal record holds the file as it is. *)
LEMMA BeginRecoverable ==
  ASSUME IInv, Recoverable, NEW r, Begin(r)
  PROVE  Recoverable'
<1>1. journal' # NoTx => yaml'.autos = journal'.before.autos
  BY DEF Begin
<1> QED
  BY <1>1 DEF Recoverable

(* Every step leaves the file as one of the two the journal knows. *)
LEMMA StepsRecoverable ==
  ASSUME IInv, Recoverable, Steps
  PROVE  Recoverable'
<1>1. CASE WriteYaml
  <2>1. tx # NoTx /\ journal = tx
    BY <1>1 DEF WriteYaml, IInv, InFlight, Journalled, Begun
  <2> QED
    BY <1>1, <2>1 DEF WriteYaml, Recoverable
<1>2. CASE VerifyWrite
  <2>1. tx \in Tx /\ journal = tx /\ yaml \in File
    BY <1>2 DEF VerifyWrite, IInv, InFlight, Journalled, Begun, TypeOK
  <2>2. CASE journal' = [tx EXCEPT !.after = yaml]
    BY <1>2, <2>1, <2>2 DEF VerifyWrite, Recoverable, Tx
  <2>3. CASE UNCHANGED journal
    BY <1>2, <2>3, RecoverableFrame DEF VerifyWrite
  <2> QED
    BY <1>2, <2>2, <2>3 DEF VerifyWrite
<1>3. CASE UndoWrite
  <2>1. tx # NoTx /\ journal = tx
    BY <1>3 DEF UndoWrite, IInv, InFlight, Journalled, Begun
  <2> QED
    BY <1>3, <2>1 DEF UndoWrite, Restored, Dump, Recoverable
<1>4. CASE \/ CheckDigest \/ Abort \/ WriteError \/ AppendHistory \/ Reload
           \/ Record \/ ExpireMetadata \/ EndExpire \/ Complete \/ PopHistory
           \/ UndoCheck \/ UndoVerify \/ UndoClear \/ UndoPop \/ UndoMeta
           \/ UndoReload \/ RecoverReload \/ Reconcile \/ EndReconcile
  <2>1. yaml' = yaml /\ journal' \in {journal, NoTx} /\ edits' = edits
    BY <1>4 DEF CheckDigest, Abort, WriteError, AppendHistory, Reload, Record,
       ExpireMetadata, EndExpire, Complete, PopHistory, UndoCheck, UndoVerify,
       UndoClear, UndoPop, UndoMeta, UndoReload, RecoverReload, Reconcile,
       EndReconcile, durable, counters
  <2> QED
    BY <2>1, RecoverableFrame
<1> QED
  BY <1>1, <1>2, <1>3, <1>4 DEF Steps

(* The strengthened invariant is inductive. *)
LEMMA NextRecoverable ==
  ASSUME IInv, Recoverable, [Next]_vars
  PROVE  Recoverable'
<1>1. CASE UserRequest \/ FinalRunDelete \/ Begin(StartupRequest("cleanup"))
  BY <1>1, BeginRecoverable DEF UserRequest, FinalRunDelete
<1>2. CASE Steps
  BY <1>2, StepsRecoverable
<1>3. CASE ExternalEdit
  <2>1. edits' # 0
    BY <1>3, ExecutorAssumption DEF ExternalEdit, IInv, TypeOK
  <2> QED
    BY <2>1 DEF Recoverable
<1>4. CASE \/ UserExpireOrphans \/ ExpireOrphans(StartupRequest("cleanup"))
           \/ CleanupRefused \/ Recover \/ BeginReconcile
           \/ (\E i \in Ids : RecordRun(i))
           \/ Restart \/ ReloadEntry \/ Tick \/ UNCHANGED vars
  <2>1. yaml' = yaml /\ journal' \in {journal, NoTx} /\ edits' = edits
    BY <1>4 DEF UserExpireOrphans, ExpireOrphans, CleanupRefused, Recover,
       RecoverNothing, RecoverForward, RecoverBack, RecoverConflict,
       BeginReconcile, RecordRun, Restart, ReloadEntry, Tick, vars, durable,
       counters
  <2> QED
    BY <2>1, RecoverableFrame
<1> QED
  BY <1>1, <1>2, <1>3, <1>4 DEF Next, Startup, StartupCleanup

(* However often Home Assistant crashes and whatever calls fail: as long as *)
(* no other program writes the file, an open journal record names what the  *)
(* file holds, so the recovery at the next start can decide.                *)
THEOREM AlwaysRecoverable == Spec => []Recoverable
<1>1. Init => Recoverable
  BY DEF Init, Recoverable
<1> QED
  BY <1>1, InvariantHolds, NextRecoverable, PTL DEF Spec

-------------------------------------------------------------------------------
(* Edits of other programs survive *)

(* Everybody's edits come outside the moments between a digest check and the *)
(* write it guards, and nobody asks for the last change to be undone.        *)
EditsGuarded ==
  /\ EditPoints \cap {"write", "undo_write"} = {}
  /\ \A r \in Requests : r.kind # "rollback"

SameForOthers(t) == \A x \in ExtIds : t.before.autos[x] = t.after.autos[x]

(* EditsSurvive, and why: a transaction changes nothing of others between   *)
(* its two snapshots, and writes only over the snapshot it has compared.    *)
EditInv ==
  /\ EditsSurvive
  /\ tx # NoTx => SameForOthers(tx)
  /\ journal # NoTx => SameForOthers(journal)
  /\ pc = "write" => yaml = tx.before
  /\ pc = "undo_write" => yaml = tx.after

(* No operation but the undo plans a change to what others own. *)
LEMMA UpdatedOthers ==
  ASSUME IInv, NEW r \in AnyRequest, Allowed(r),
         r.kind \in (Kinds \cup {"cleanup"}) \ {"rollback"},
         NEW x \in ExtIds
  PROVE  Updated(r)[x] = yaml.autos[x]
<1>1. r.kind \in Kinds => r.id # x
  BY RequestShape, ExecutorAssumption
<1>2. yaml.autos \in Catalogs
  BY AutoType DEF IInv
<1>3. \A i, v : i # x => With(i, v)[x] = yaml.autos[x]
  BY <1>2 DEF With, Catalogs, AllIds
<1>4. CASE r.kind \in Kinds \ {"expire"}
  <2>1. \E v : Updated(r) = With(r.id, v)
    BY <1>4 DEF Updated, Created, Deleted, Switched,
         Rescheduled, Limited, Rewritten, Remaining, Kinds, UpdateKinds
  <2> QED
    BY <1>1, <1>3, <1>4, <2>1
<1>5. CASE r.kind \in {"expire", "cleanup"}
  <2>1. x \notin Overdue /\ x \in AllIds
    BY ExecutorAssumption DEF Overdue, AllIds
  <2> QED
    BY <1>5, <2>1 DEF Updated, Created, Deleted, Switched,
         Rescheduled, Limited, Rewritten, Remaining, UpdateKinds
<1> QED
  BY <1>4, <1>5

(* A transaction begins with two lists that agree on what others own. *)
LEMMA BeginKeepsEdits ==
  ASSUME IInv, EditInv, NEW r \in AnyRequest,
         r.kind \in (Kinds \cup {"cleanup"}) \ {"rollback"}, Begin(r)
  PROVE  EditInv'
<1>1. \A x \in ExtIds : Updated(r)[x] = yaml.autos[x]
  BY UpdatedOthers DEF Begin
<1>2. SameForOthers(journal')
  BY <1>1 DEF Begin, SameForOthers, Dump
<1> QED
  BY <1>2 DEF Begin, EditInv, EditsSurvive, SameForOthers

(* The file is only written over bytes that were compared. *)
LEMMA StepsKeepEdits ==
  ASSUME IInv, EditInv, Steps
  PROVE  EditInv'
<1>1. CASE WriteYaml
  <2>1. tx # NoTx /\ SameForOthers(tx) /\ yaml = tx.before
    BY <1>1 DEF WriteYaml, IInv, InFlight, Journalled, Begun, EditInv
  <2> QED
    BY <1>1, <2>1 DEF WriteYaml, Goto, ghosts, EditInv, EditsSurvive,
                      SameForOthers
<1>2. CASE VerifyWrite
  <2>1. tx \in Tx /\ journal = tx /\ SameForOthers(tx)
    BY <1>2 DEF VerifyWrite, IInv, InFlight, Journalled, Begun, TypeOK, EditInv
  <2>2. CASE tx' = [tx EXCEPT !.after = yaml] /\ yaml \in {tx.after, tx.before}
             /\ journal' = tx' /\ pc' \in {"reload", "history"}
    <3>1. SameForOthers(tx')
      BY <2>1, <2>2 DEF SameForOthers, Tx
    <3> QED
      BY <1>2, <2>2, <3>1 DEF VerifyWrite, ghosts, EditInv, EditsSurvive,
                              SameForOthers
  <2>3. CASE UNCHANGED journal /\ (Finish("error") \/ Goto("write_error"))
    BY <1>2, <2>3 DEF VerifyWrite, Finish, Goto, ghosts, EditInv, EditsSurvive,
                      SameForOthers
  <2> QED
    BY <1>2, <2>2, <2>3 DEF VerifyWrite
<1>3. CASE UndoWrite
  <2>1. tx # NoTx /\ SameForOthers(tx) /\ yaml = tx.after
    BY <1>3 DEF UndoWrite, IInv, InFlight, Journalled, Begun, EditInv
  <2> QED
    BY <1>3, <2>1 DEF UndoWrite, Restored, Dump, Goto, Finish, ghosts, EditInv,
                      EditsSurvive, SameForOthers
<1>4. CASE CheckDigest \/ UndoCheck
  BY <1>4 DEF CheckDigest, UndoCheck, DigestMatches, Goto, Finish, durable,
              ghosts, EditInv, EditsSurvive, SameForOthers
<1>5. CASE \/ Abort \/ WriteError \/ AppendHistory \/ Reload
           \/ Record \/ ExpireMetadata \/ EndExpire \/ Complete \/ PopHistory
           \/ UndoVerify \/ UndoClear \/ UndoPop \/ UndoMeta
           \/ UndoReload \/ RecoverReload \/ Reconcile \/ EndReconcile
  <2>1. /\ yaml' = yaml /\ journal' \in {journal, NoTx}
        /\ handmade' = handmade
        /\ tx' \in {tx, NoTx}
        /\ pc' \notin {"write", "undo_write"}
    BY <1>5 DEF Abort, WriteError, AppendHistory, Reload, Record,
       ExpireMetadata, EndExpire, Complete, PopHistory, UndoVerify,
       UndoClear, UndoPop, UndoMeta, UndoReload, RecoverReload, Reconcile,
       EndReconcile, durable, ghosts, Goto, Finish, Undo, Next1, AfterReload,
       AfterUndo, MetaFails, DropOrphan, RepairKnown
  <2> QED
    BY <2>1 DEF EditInv, EditsSurvive, SameForOthers
<1> QED
  BY <1>1, <1>2, <1>3, <1>4, <1>5 DEF Steps

(* The strengthened invariant is inductive when edits are guarded. *)
LEMMA NextKeepsEdits ==
  ASSUME EditsGuarded, IInv, EditInv, [Next]_vars
  PROVE  EditInv'
<1>1. CASE UserRequest \/ FinalRunDelete \/ Begin(StartupRequest("cleanup"))
  <2>1. \A r \in Requests : /\ r \in AnyRequest
                            /\ r.kind \in Kinds \ {"rollback"}
    BY ExecutorAssumption DEF EditsGuarded, AnyRequest, Request
  <2>2. \A i \in owed : /\ Deletion(i) \in AnyRequest
                        /\ Deletion(i).kind = "delete"
    BY DEF AnyRequest, Deletion, IInv, TypeOK
  <2>3. /\ StartupRequest("cleanup") \in AnyRequest
        /\ StartupRequest("cleanup").kind = "cleanup"
    BY DEF AnyRequest, StartupRequest, StartupKinds
  <2> QED
    BY <1>1, <2>1, <2>2, <2>3, BeginKeepsEdits
    DEF UserRequest, FinalRunDelete, Kinds
<1>2. CASE Steps
  BY <1>2, StepsKeepEdits
<1>3. CASE ExternalEdit
  <2>1. pc \notin {"write", "undo_write"}
    BY <1>3 DEF ExternalEdit, Phase, EditsGuarded
  <2>2. \A x \in ExtIds : yaml'.autos[x] = handmade'[x]
    <3>1. PICK i \in AllIds, v \in Automation \cup {Absent}, f \in Forms :
            LET c == [yaml.autos EXCEPT ![i] = v]
            IN  /\ yaml' = [autos |-> c, form |-> f]
                /\ handmade' = [x \in ExtIds |-> c[x]]
                /\ Load(c) \/ UNCHANGED registry
      BY <1>3, EditShape
    <3> DEFINE c == [yaml.autos EXCEPT ![i] = v]
    <3>2. yaml'.autos = c /\ handmade' = [x \in ExtIds |-> c[x]]
      BY <3>1
    <3> QED
      BY <3>2
  <2> QED
    BY <1>3, <2>1, <2>2 DEF ExternalEdit, locals, EditInv, EditsSurvive,
                            SameForOthers
<1>4. CASE Recover
  BY <1>4 DEF Recover, RecoverNothing, RecoverForward, RecoverBack,
     RecoverConflict, locals, ghosts, EditInv, EditsSurvive, SameForOthers
<1>5. CASE \/ UserExpireOrphans \/ ExpireOrphans(StartupRequest("cleanup"))
           \/ CleanupRefused \/ BeginReconcile
           \/ (\E i \in Ids : RecordRun(i))
           \/ Restart \/ ReloadEntry \/ Tick \/ UNCHANGED vars
  <2>1. /\ yaml' = yaml /\ journal' = journal /\ handmade' = handmade
        /\ tx' \in {tx, NoTx}
        /\ pc' = pc \/ pc' \notin {"write", "undo_write"}
        /\ pc' = pc => tx' = tx \/ pc = "free"
    BY <1>5 DEF UserExpireOrphans, ExpireOrphans, CleanupRefused,
       BeginReconcile, RecordRun, Restart, ReloadEntry, Tick, vars, durable,
       locals, ghosts
  <2> QED
    BY <2>1 DEF EditInv, EditsSurvive, SameForOthers
<1> QED
  BY <1>1, <1>2, <1>3, <1>4, <1>5 DEF Next, Startup, StartupCleanup

(* What other programs write under their own ids is never lost, through any *)
(* number of edits, crashes, rollbacks and failing calls - if no edit falls *)
(* between a digest check and its write, and nobody undoes the last change. *)
THEOREM OthersAreSafe == ASSUME EditsGuarded PROVE Spec => []EditsSurvive
<1>1. Init => EditInv
  BY DEF Init, EditInv, EditsSurvive, NoAutos, AllIds
<1>2. EditInv => EditsSurvive
  BY DEF EditInv
<1>3. IInv /\ EditInv /\ [Next]_vars => EditInv'
  BY NextKeepsEdits
<1> QED
  BY <1>1, <1>2, <1>3, InvariantHolds, PTL DEF Spec
=============================================================================
