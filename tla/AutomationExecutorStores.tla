----------------------- MODULE AutomationExecutorStores -----------------------
(***************************************************************************)
(* Where the automation executor's stores meet: whenever everything has    *)
(* come to rest, the sidecar file, the entity registry and the list in     *)
(* automations.yaml say the same, for every number of automations, every   *)
(* bound and every set of requests that holds no undo of the last change.  *)
(* (After such an undo they need not: it brings back an old sidecar file.) *)
(***************************************************************************)
EXTENDS AutomationExecutorPromises

-------------------------------------------------------------------------------
(* What the stores say of each other *)

(* Nobody asks for the last change to be undone. *)
NoUndoAsked == \A r \in Requests : r.kind # "rollback"

(* Once the start-up is through its reconciliation, what is known is in the *)
(* category; while it runs, what it has dealt with is.                      *)
Categories ==
  /\ pc # "free" => req.kind # "rollback"
  /\ journal # NoTx => journal.op # "rollback"
  /\ boot \in {"cleanup", "done"} => \A i \in Ids : Known(i) => entity[i] = "homeintent"
  /\ pc = "reconcile" =>
       \A i \in Ids \ todo : Known(i) => entity[i] = "homeintent"
  /\ pc = "complete" /\ req.kind = "delete" => ~Known(req.id)

(* Every automation of HomeIntent in a list is known. *)
Covered(c) == \A i \in Ids : c[i] # Absent => Known(i)

(* Nothing that is listed, or that a rollback may list again, is forgotten. *)
Coverage ==
  edits = 0 =>
    /\ journal = NoTx \/ journal.op \in Forward => Covered(yaml.autos)
    /\ journal # NoTx /\ journal.op \notin Forward => Covered(journal.before.autos)
    /\ pc \in Begun \ {"complete"} => Covered(tx.before.autos)
    /\ pc = "complete" => Covered(yaml.autos)

(* What the sidecar file says of an automation is so. *)
Agrees(c, i) == Known(i) => c[i] # Absent /\ meta[i].at = c[i].at /\ meta[i].limit = c[i].limit

(* Once the start-up is through its reconciliation, what the sidecar file   *)
(* says is so of the list that counts.                                       *)
Agreement ==
  edits = 0 =>
    /\ boot \in {"cleanup", "done"} =>
         /\ journal = NoTx => pc # "expire" /\ \A i \in Ids : Agrees(yaml.autos, i)
         /\ pc \in Begun \ {"complete"} => \A i \in Ids : Agrees(tx.before.autos, i)
         /\ pc = "complete" => \A i \in Ids : Agrees(yaml.autos, i)
         /\ Expiring => \A i \in Ids \ todo : Agrees(yaml.autos, i)
    /\ pc = "reconcile" => \A i \in Ids \ todo : Agrees(yaml.autos, i)

(* All of it. *)
Stores == Categories /\ Coverage /\ Agreement

-------------------------------------------------------------------------------
(* Known automations are in the category *)

(* No request of users or of the start-up is the undo of the last change. *)
LEMMA NoUndoBegins ==
  ASSUME NoUndoAsked, IInv, UserRequest \/ FinalRunDelete \/ Begin(StartupRequest("cleanup"))
  PROVE  \E r \in AnyRequest : /\ r.kind \in (Kinds \cup {"cleanup"}) \ {"rollback"}
                               /\ Begin(r)
                               /\ r.kind = "reschedule" => r.at # 0
<1>1. CASE UserRequest
  BY <1>1, Beginnings, ExecutorAssumption DEF UserRequest, NoUndoAsked, Request
<1>2. CASE FinalRunDelete
  <2>1. PICK i \in Ids : Begin(Deletion(i))
    BY <1>2, Beginnings
  <2>2. Deletion(i) \in AnyRequest /\ Deletion(i).kind = "delete"
    BY DEF Deletion, AnyRequest
  <2> QED
    BY <2>1, <2>2 DEF Kinds
<1>3. CASE Begin(StartupRequest("cleanup"))
  BY <1>3, Beginnings DEF Kinds, UpdateKinds
<1> QED
  BY <1>1, <1>2, <1>3

(* The steps that end with fewer known automations and no fewer categories. *)
LEMMA KnownShrink ==
  ASSUME IInv, Steps, ~Record, ~Complete, ~Reconcile
  PROVE  /\ \A i \in Ids : meta'[i] # Absent => meta[i] # Absent
         /\ \A i \in Ids : entity[i] = "homeintent" => entity'[i] = "homeintent"
<1>1. meta' = meta \/ \E i : meta' = [meta EXCEPT ![i] = Absent]
  BY DEF Steps, CheckDigest, Abort, WriteYaml, WriteError, VerifyWrite, AppendHistory, Reload,
     ExpireMetadata, EndExpire, PopHistory, UndoCheck, UndoWrite, UndoVerify, UndoClear, UndoPop,
     UndoMeta, UndoReload, RecoverReload, EndReconcile, durable
<1>2. entity' = entity \/ Load(yaml.autos)
  BY DEF Steps, CheckDigest, Abort, WriteYaml, WriteError, VerifyWrite, AppendHistory, Reload,
     ExpireMetadata, EndExpire, PopHistory, UndoCheck, UndoWrite, UndoVerify, UndoClear, UndoPop,
     UndoMeta, UndoReload, RecoverReload, EndReconcile, registry, Reloaded, ReloadFails
<1>3. meta \in [Ids -> Meta \cup {Absent}]
  BY DEF IInv, TypeOK, Metas
<1> QED
  BY <1>1, <1>2, <1>3 DEF Load

(* No step of an operation leaves a known automation without its category. *)
LEMMA CategoriesSteps == IInv /\ Orderly /\ Categories /\ Steps => Categories'
<1> SUFFICES ASSUME IInv, Orderly, Categories, Steps PROVE Categories'
  OBVIOUS
<1>1. /\ pc' # "free" => pc # "free" /\ req' = req
      /\ pc' = "reconcile" => pc = "reconcile"
  BY DEF Steps, CheckDigest, Abort, WriteYaml, WriteError, VerifyWrite, AppendHistory, Reload,
     Record, ExpireMetadata, EndExpire, Complete, PopHistory, UndoCheck, UndoWrite, UndoVerify,
     UndoClear, UndoPop, UndoMeta, UndoReload, RecoverReload, Reconcile, EndReconcile, MetaFails,
     DropOrphan, RepairKnown, AfterReload, AfterUndo, Goto, Finish, Undo, Next1
<1>2. journal' # NoTx => journal'.op # "rollback"
  <2>1. CASE VerifyWrite
    <3>1. tx \in Tx /\ journal = tx /\ tx # NoTx
      BY <2>1 DEF VerifyWrite, IInv, InFlight, Journalled, Begun, TypeOK
    <3>2. journal' \in {journal, [tx EXCEPT !.after = yaml]}
      BY <2>1 DEF VerifyWrite
    <3> QED
      BY <3>1, <3>2 DEF Categories, Tx
  <2>2. CASE ~VerifyWrite
    <3>1. journal' \in {journal, NoTx}
      BY <2>2 DEF Steps, CheckDigest, Abort, WriteYaml, WriteError, AppendHistory, Reload,
         Record, ExpireMetadata, EndExpire, Complete, PopHistory, UndoCheck, UndoWrite,
         UndoVerify, UndoClear, UndoPop, UndoMeta, UndoReload, RecoverReload, Reconcile,
         EndReconcile, durable
    <3> QED
      BY <3>1 DEF Categories
  <2> QED
    BY <2>1, <2>2
<1>3. CASE Record
  <2>1. /\ pc = "record" /\ pc' \in {"complete", "undo_check"} /\ req' = req /\ boot' = boot
        /\ \/ meta' = meta
           \/ meta' = Recorded(req) /\ entity' = Categorised(req)
        /\ entity' \in {entity, Categorised(req)}
        /\ pc' = "complete" => meta' = Recorded(req)
    BY <1>3 DEF Record, MetaFails, Goto, Undo, told
  <2>2. req.kind # "rollback"
    BY <2>1 DEF Categories
  <2>3. /\ req.id \in Ids
        /\ \A j \in Ids : j # req.id => Recorded(req)[j] = meta[j]
        /\ req.kind = "delete" => Recorded(req)[req.id] = Absent
        /\ req.kind \notin {"create", "delete"} => Known(req.id)
    BY <2>1, <2>2, RecordedAt
  <2>4. entity \in [Ids -> Entities]
    BY DEF IInv, TypeOK
  <2>5. \A i \in Ids : entity[i] = "homeintent" => entity'[i] = "homeintent"
    BY <2>1, <2>3, <2>4 DEF Categorised
  <2>6. \A i \in Ids : meta'[i] # Absent => \/ meta[i] # Absent
                                          \/ entity'[i] = "homeintent"
    BY <2>1, <2>3, <2>4 DEF Categorised, Known
  <2>7. pc' = "complete" /\ req.kind = "delete" => meta'[req.id] = Absent
    BY <2>1, <2>3
  <2> QED
    BY <1>1, <1>2, <2>1, <2>5, <2>6, <2>7 DEF Categories, Known
<1>4. CASE Complete
  <2>1. /\ pc = "complete" /\ pc' \in {"free", "pop"} /\ meta' = meta
        /\ boot' = boot \/ boot' \notin {"cleanup", "done"} \/ boot = "cleanup"
        /\ \A i \in Ids : entity'[i] = entity[i] \/ (req.kind = "delete" /\ i = req.id)
    BY <1>4 DEF Complete, Goto, Finish, told, Orderly, InTx, Begun, IInv, TypeOK
  <2> QED
    BY <1>1, <1>2, <2>1 DEF Categories, Known
<1>5. CASE Reconcile
  <2>1. CASE UNCHANGED <<meta, entity>> /\ Finish("error")
    <3>1. req.kind = "reconcile"
      BY <1>5 DEF Reconcile, Orderly
    <3>2. /\ meta' = meta /\ entity' = entity /\ pc' = "free"
          /\ boot' \notin {"cleanup", "done"}
      BY <2>1, <3>1 DEF Finish
    <3> QED
      BY <1>1, <1>2, <3>2 DEF Categories
  <2> SUFFICES ASSUME ~(UNCHANGED <<meta, entity>> /\ Finish("error")) PROVE Categories'
    BY <2>1
  <2>2. PICK i \in todo : (DropOrphan(i) \/ RepairKnown(i)) /\ Next1(i)
    BY <1>5 DEF Reconcile, DropOrphan, RepairKnown
  <2>3. i \in Ids /\ meta \in [Ids -> Meta \cup {Absent}] /\ entity \in [Ids -> Entities]
    BY <1>5, <2>2 DEF IInv, TypeOK, Metas
  <2>4. /\ todo' = todo \ {i} /\ pc' = pc /\ pc = "reconcile" /\ req' = req /\ boot' = boot
        /\ meta'[i] = Absent \/ entity'[i] = "homeintent"
        /\ \A j \in Ids \ {i} : meta'[j] = meta[j] /\ entity'[j] = entity[j]
    BY <1>5, <2>2, <2>3 DEF Reconcile, DropOrphan, RepairKnown, Next1, Finish, told
  <2> QED
    BY <1>1, <1>2, <2>3, <2>4 DEF Categories, Known
<1>6. CASE ~Record /\ ~Complete /\ ~Reconcile
  <2>1. /\ \A i \in Ids : meta'[i] # Absent => meta[i] # Absent
        /\ \A i \in Ids : entity[i] = "homeintent" => entity'[i] = "homeintent"
    BY <1>6, KnownShrink
  <2>2. pc' # "reconcile" /\ (pc' = "complete" => req.kind # "delete")
    BY <1>6 DEF Steps, CheckDigest, Abort, WriteYaml, WriteError, VerifyWrite, AppendHistory,
       Reload, ExpireMetadata, EndExpire, PopHistory, UndoCheck, UndoWrite, UndoVerify,
       UndoClear, UndoPop, UndoMeta, UndoReload, RecoverReload, EndReconcile, AfterReload,
       AfterUndo, Goto, Finish, Undo, Next1, Orderly, UpdateKinds
  <2>3. \/ boot' = boot \/ boot' \notin {"cleanup", "done"} \/ boot = "cleanup"
        \/ pc = "reconcile" /\ todo = {}
    BY <1>6 DEF Steps, CheckDigest, Abort, WriteYaml, WriteError, VerifyWrite, AppendHistory,
       Reload, ExpireMetadata, EndExpire, PopHistory, UndoCheck, UndoWrite, UndoVerify,
       UndoClear, UndoPop, UndoMeta, UndoReload, RecoverReload, EndReconcile, Goto, Finish, Undo,
       Next1, told, Orderly
  <2> QED
    BY <1>1, <1>2, <2>1, <2>2, <2>3 DEF Categories, Known
<1> QED
  BY <1>3, <1>4, <1>5, <1>6

(* Nor does any other step. *)
LEMMA CategoriesNext ==
  ASSUME NoUndoAsked, IInv, Orderly, Categories, [Next]_vars
  PROVE  Categories'
<1>1. CASE UserRequest \/ FinalRunDelete \/ Begin(StartupRequest("cleanup"))
  <2>1. PICK r \in AnyRequest : /\ r.kind \in (Kinds \cup {"cleanup"}) \ {"rollback"}
                               /\ Begin(r)
    BY <1>1, NoUndoBegins
  <2>2. /\ pc' = "check" /\ req' = r /\ meta' = meta /\ entity' = entity /\ boot' = boot
        /\ journal'.op = JournalOp(r)
    BY <2>1 DEF Begin, registry
  <2>3. JournalOp(r) # "rollback"
    BY <2>1 DEF JournalOp
  <2> QED
    BY <2>1, <2>2, <2>3 DEF Categories, Known
<1>2. CASE Steps
  BY <1>2, CategoriesSteps
<1>3. CASE UserExpireOrphans \/ ExpireOrphans(StartupRequest("cleanup"))
  <2>1. /\ pc' = "expire" /\ req'.kind # "rollback" /\ meta' = meta /\ entity' = entity
        /\ boot' = boot /\ journal' = journal
    BY <1>3 DEF UserExpireOrphans, ExpireOrphans, registry, durable
  <2> QED
    BY <2>1 DEF Categories, Known
<1>4. CASE Recover
  <2>1. /\ meta' = meta /\ entity' = entity /\ journal' \in {journal, NoTx}
        /\ boot' \notin {"cleanup", "done"}
        /\ pc' \in {"free", "recover_reload", "undo_check"}
        /\ pc' # "free" => req'.kind = "recover"
    BY <1>4 DEF Recover, RecoverNothing, RecoverForward, RecoverBack, RecoverConflict, locals,
       registry, StartupRequest
  <2> QED
    BY <2>1 DEF Categories
<1>5. CASE BeginReconcile
  <2>1. /\ meta' = meta /\ entity' = entity /\ journal' = journal /\ boot' = boot
        /\ pc' = "reconcile" /\ req'.kind = "reconcile"
        /\ todo' = {i \in Ids : meta[i] # Absent}
    BY <1>5 DEF BeginReconcile, registry, durable, told, StartupRequest, Known
  <2> QED
    BY <2>1 DEF Categories, Known
<1>6. CASE Restart \/ ReloadEntry
  BY <1>6 DEF Restart, ReloadEntry, durable, locals, Categories
<1>7. CASE \/ StartupCleanup /\ CleanupRefused
           \/ Tick \/ UNCHANGED vars \/ ExternalEdit \/ \E i \in Ids : RecordRun(i)
  <2>1. /\ pc' = pc /\ req' = req /\ todo' = todo /\ journal' = journal
        /\ boot' = boot \/ (boot = "cleanup" /\ boot' = "done")
    BY <1>7 DEF StartupCleanup, CleanupRefused, Tick, vars, ExternalEdit, RecordRun, durable,
       locals, told
  <2>2. \A i \in Ids : meta'[i] # Absent => meta[i] # Absent
    <3>1. meta \in [Ids -> Meta \cup {Absent}]
      BY DEF IInv, TypeOK, Metas
    <3>2. meta' = meta \/ \E i \in Ids : Known(i) /\ meta' = [meta EXCEPT ![i].count = @ + 1]
      BY <1>7 DEF StartupCleanup, CleanupRefused, Tick, vars, ExternalEdit, RecordRun, durable
    <3> QED
      BY <3>1, <3>2 DEF Known
  <2>3. \A i \in Ids : entity[i] = "homeintent" => entity'[i] = "homeintent"
    <3>1. (\E c : Load(c)) \/ entity' = entity
      BY <1>7 DEF StartupCleanup, CleanupRefused, Tick, vars, ExternalEdit, EditTo, RecordRun,
         registry
    <3> QED
      BY <3>1 DEF Load
  <2>4. pc = "complete" /\ req.kind = "delete" => req.id \in Ids
    BY RequestShape DEF IInv, InFlight, TypeOK, Kinds
  <2> QED
    BY <2>1, <2>2, <2>3, <2>4 DEF Categories, Known
<1> QED
  BY <1>1, <1>2, <1>3, <1>4, <1>5, <1>6, <1>7 DEF Next, Startup, StartupCleanup

(* If nobody asks for the last change to be undone, every automation that   *)
(* HomeIntent knows is in its category once the start-up is through, for    *)
(* every crash, failing call and edit by others.                             *)
THEOREM AllAreCategorised == ASSUME NoUndoAsked PROVE Spec => []KnownAreCategorised
<1>1. Init => Categories
  BY DEF Init, Categories, Known, NoMetas
<1>2. IInv /\ Told /\ Categories /\ [Next]_vars => Categories'
  BY CategoriesNext DEF Told
<1>3. Categories => KnownAreCategorised
  BY DEF Categories, KnownAreCategorised, Settled
<1> QED
  BY <1>1, <1>2, <1>3, ToldHolds, PTL DEF Spec

-------------------------------------------------------------------------------
(* The sidecar file and the list agree *)

(* The facts that the two proofs below share. *)
StoreInv == IInv /\ Told /\ Recoverable /\ Stores

(* Neither the list nor what is known of it changes. *)
LEMMA CoverageKept ==
  ASSUME Coverage, edits = 0, edits' = 0, yaml'.autos = yaml.autos,
         \A i \in Ids : meta[i] # Absent /\ yaml.autos[i] # Absent => meta'[i] # Absent,
         journal' = journal,
         journal # NoTx /\ journal.op \notin Forward =>
           \A i \in Ids : yaml.autos[i] = Absent => journal.before.autos[i] = Absent,
         pc' \notin Begun
  PROVE  Coverage'
<1>1. pc' \notin Begun \ {"complete"} /\ pc' # "complete"
  BY DEF Begun
<1> QED
  BY <1>1 DEF Coverage, Covered, Known

(* An open record of a change that is rolled back lists no more than the file. *)
LEMMA RecordListsLess ==
  ASSUME Told, Recoverable, edits = 0, journal # NoTx, journal.op \notin Forward,
         journal.op # "rollback", NEW i \in Ids, yaml.autos[i] = Absent
  PROVE  journal.before.autos[i] = Absent
BY DEF Told, Changes, Whole, Recoverable, AllIds

(* No step of an operation forgets what is listed. *)
LEMMA CoverageSteps ==
  ASSUME StoreInv, edits = 0, edits' = 0, Steps
  PROVE  Coverage'
<1>0. /\ IInv /\ Orderly /\ InPlace /\ Changes /\ Categories /\ Coverage /\ Told /\ Recoverable
      /\ journal # NoTx => journal.op # "rollback"
  BY DEF StoreInv, Stores, Told, Categories
<1>1. InTx => tx \in Tx /\ tx # NoTx /\ journal = tx /\ Whole(tx) /\ tx.op # "rollback"
  BY <1>0, TheOldCounts DEF OldCounts
<1>2. CASE \/ CheckDigest \/ WriteError \/ Reload \/ UndoCheck \/ UndoVerify \/ AppendHistory
  <2>1. /\ yaml' = yaml /\ meta' = meta /\ journal' = journal /\ pc \in Begun
        /\ pc' = "free" \/ tx' = tx
    BY <1>2 DEF CheckDigest, WriteError, Reload, UndoCheck, UndoVerify, AppendHistory, Goto, Undo,
       Finish, durable, Begun
  <2>2. pc # "complete" /\ Covered(tx.before.autos)
    BY <1>0, <1>2, <2>1 DEF CheckDigest, WriteError, Reload, UndoCheck, UndoVerify, AppendHistory,
       Coverage
  <2>3. pc' = "complete" => Covered(yaml.autos)
    <3>1. ASSUME pc' = "complete" PROVE Reload /\ req.kind \in {"enable", "disable"}
      BY <1>2, <3>1 DEF CheckDigest, WriteError, Reload, UndoCheck, UndoVerify, AppendHistory,
         Goto, Undo, Finish, AfterReload
    <3>2. ASSUME pc' = "complete"
          PROVE  \A i \in Ids : yaml.autos[i] # Absent => tx.before.autos[i] # Absent
      <4>1. yaml = tx.after /\ Asked(tx, req) /\ req.kind \in {"enable", "disable"}
        BY <1>0, <3>1, <3>2 DEF Reload, InPlace, Changes, Applying
      <4> QED
        BY <4>1 DEF Asked, AllIds, Kinds
    <3> QED
      BY <2>2, <3>2 DEF Covered
  <2> QED
    BY <1>0, <2>1, <2>2, <2>3 DEF Coverage, Covered, Known, Begun
<1>3. CASE Abort \/ UndoClear
  <2>1. /\ yaml' = yaml /\ meta' = meta /\ journal' \in {journal, NoTx}
        /\ pc' \notin Begun /\ yaml.autos = tx.before.autos /\ Covered(tx.before.autos)
    BY <1>0, <1>3 DEF Abort, UndoClear, Goto, Finish, InPlace, Restored, Dump, Coverage, Begun
  <2>2. pc' \notin Begun \ {"complete"} /\ pc' # "complete"
    BY <2>1 DEF Begun
  <2> QED
    BY <1>0, <2>1, <2>2 DEF Coverage, Covered, Known
<1>4. CASE WriteYaml \/ UndoWrite
  <2>1. /\ meta' = meta /\ journal' = journal /\ journal = tx /\ InTx
        /\ pc' = "free" \/ tx' = tx
        /\ pc' # "complete" /\ Covered(tx.before.autos)
        /\ yaml'.autos \in {tx.before.autos, tx.after.autos}
    BY <1>0, <1>1, <1>4 DEF WriteYaml, UndoWrite, Goto, Finish, InPlace, Restored, Dump, Coverage,
       Begun, InTx
  <2>2. tx.op \in Forward => Covered(tx.after.autos)
    BY <1>1, <2>1 DEF Whole, Covered, AllIds
  <2> QED
    BY <1>0, <1>1, <2>1, <2>2 DEF Coverage, Covered, Known, Begun
<1>5. CASE VerifyWrite
  <2>1. pc \in Begun \ {"complete"} /\ tx \in Tx /\ journal = tx
    BY <1>1, <1>5 DEF VerifyWrite, Begun, InTx
  <2>2. yaml = tx.after /\ [tx EXCEPT !.after = yaml] = tx
    BY <1>0, <1>5, <2>1 DEF VerifyWrite, InPlace, Tx
  <2>3. /\ yaml' = yaml /\ meta' = meta /\ journal' = journal /\ pc' # "complete"
        /\ pc' = "free" \/ tx' = tx
    BY <1>5, <2>1, <2>2 DEF VerifyWrite, Goto, Finish
  <2> QED
    BY <1>0, <2>1, <2>3 DEF Coverage, Covered, Known, Begun
<1>6. CASE Record
  <2>1. /\ pc = "record" /\ yaml' = yaml /\ journal' = journal /\ tx' = tx /\ req' = req
        /\ \/ pc' = "complete" /\ meta' = Recorded(req)
           \/ pc' = "undo_check" /\ meta' = meta
    BY <1>6 DEF Record, MetaFails, Goto, Undo
  <2>2. /\ Covered(tx.before.autos) /\ Asked(tx, req) /\ yaml = tx.after /\ InTx
        /\ tx.op = JournalOp(req) /\ req.kind # "rollback"
    BY <1>0, <2>1 DEF Coverage, Changes, InPlace, Orderly, Categories, Begun, Applying, InTx,
       Undoing
  <2>3. CASE pc' = "undo_check" /\ meta' = meta
    BY <1>0, <1>1, <2>1, <2>2, <2>3 DEF Coverage, Covered, Known, Begun
  <2>4. CASE pc' = "complete" /\ meta' = Recorded(req)
    <3>1. /\ req.id \in Ids
          /\ req.kind \in {"create", "delete"} \cup UpdateKinds
          /\ \A j \in Ids : j # req.id => meta'[j] = meta[j]
          /\ req.kind # "delete" => meta'[req.id] # Absent
      BY <1>0, <2>1, <2>2, <2>4, RecordedAt DEF UpdateKinds
    <3>2. /\ \A j \in Ids : j # req.id => tx.after.autos[j] = tx.before.autos[j]
          /\ req.kind = "delete" => tx.after.autos[req.id] = Absent
          /\ req.kind = "create" => tx.before.autos[req.id] = Absent
      BY <2>2, <3>1 DEF Asked, AllIds, Kinds, UpdateKinds
    <3>3. \A i \in Ids : yaml.autos[i] # Absent => meta'[i] # Absent
      BY <2>2, <3>1, <3>2 DEF Covered, Known
    <3>4. tx.op \notin Forward => \A i \in Ids : tx.before.autos[i] # Absent => meta'[i] # Absent
      <4>1. tx.op \notin Forward => req.kind # "delete"
        BY <2>2 DEF JournalOp, Forward
      <4> QED
        BY <2>2, <3>1, <4>1 DEF Covered, Known
    <3> QED
      BY <1>0, <1>1, <2>1, <2>2, <2>4, <3>3, <3>4 DEF Coverage, Covered, Known, Begun
  <2> QED
    BY <2>1, <2>3, <2>4
<1>7. CASE ExpireMetadata
  <2>1. /\ pc = "expire" /\ yaml' = yaml /\ journal' = journal /\ pc' \notin Begun
        /\ meta' = meta \/ \E i \in todo : meta' = [meta EXCEPT ![i] = Absent]
    BY <1>7 DEF ExpireMetadata, Next1, Finish, Begun
  <2>2. \A i \in todo : yaml.autos[i] = Absent
    BY <1>0, <2>1 DEF Changes, Listed
  <2>3. meta \in [Ids -> Meta \cup {Absent}]
    BY <1>0 DEF IInv, TypeOK, Metas
  <2>4. \A i \in Ids : meta[i] # Absent /\ yaml.autos[i] # Absent => meta'[i] # Absent
    BY <2>1, <2>2, <2>3
  <2> QED
    BY <1>0, <2>1, <2>4, CoverageKept, RecordListsLess
<1>8. CASE EndExpire \/ EndReconcile
  <2>1. /\ yaml' = yaml /\ journal' = journal /\ meta' = meta /\ pc' \in {"free", "complete"}
        /\ pc' = "complete" => Expiring /\ tx' = tx
    BY <1>8 DEF EndExpire, EndReconcile, Goto, Finish, durable, Expiring
  <2>2. pc' = "complete" => Covered(yaml.autos)
    <3>1. ASSUME Expiring PROVE tx.op \in Forward
      <4>1. InTx /\ pc = "expire"
        BY <3>1 DEF InTx, Expiring
      <4> QED
        BY <1>0, <4>1 DEF Orderly, JournalOp, Forward
    <3>2. ASSUME Expiring PROVE journal = tx
      BY <1>1, <3>2 DEF InTx
    <3> QED
      BY <1>0, <2>1, <3>1, <3>2 DEF Coverage
  <2> QED
    BY <1>0, <2>1, <2>2 DEF Coverage, Covered, Known, Begun
<1>9. CASE Complete
  <2>1. /\ pc = "complete" /\ yaml' = yaml /\ meta' = meta /\ journal' \in {journal, NoTx}
        /\ pc' \in {"free", "pop"}
    BY <1>9 DEF Complete, Goto, Finish
  <2> QED
    BY <1>0, <2>1 DEF Coverage, Covered, Known, Begun
<1>10. CASE PopHistory \/ UndoPop \/ UndoReload \/ RecoverReload
  <2>1. /\ yaml' = yaml /\ meta' = meta /\ journal' = journal
        /\ pc' \in {"free", "undo_meta", "undo_reload", "recover_reload"}
    BY <1>10 DEF PopHistory, UndoPop, UndoReload, RecoverReload, AfterUndo, Goto, Finish, durable
  <2> QED
    BY <1>0, <2>1 DEF Coverage, Covered, Known, Begun
<1>11. CASE UndoMeta
  <2>1. /\ pc = "undo_meta" /\ yaml' = yaml /\ journal' = journal /\ journal = NoTx
        /\ meta' \in {meta, [meta EXCEPT ![req.id] = Absent]} /\ pc' \notin Begun
        /\ yaml.autos[req.id] = Absent
    BY <1>0, <1>11 DEF UndoMeta, Goto, Finish, Begun, Orderly, Changes, IInv, InFlight
  <2>2. meta \in [Ids -> Meta \cup {Absent}]
    BY <1>0 DEF IInv, TypeOK, Metas
  <2> QED
    BY <1>0, <2>1, <2>2, CoverageKept
<1>12. CASE Reconcile
  <2>1. /\ pc = "reconcile" /\ yaml' = yaml /\ journal' = journal /\ pc' \notin Begun
    BY <1>12 DEF Reconcile, DropOrphan, RepairKnown, Next1, Finish, Begun
  <2>2. \A i \in Ids : meta[i] # Absent /\ yaml.autos[i] # Absent => meta'[i] # Absent
    <3>1. meta \in [Ids -> Meta \cup {Absent}]
      BY <1>0 DEF IInv, TypeOK, Metas
    <3>2. \/ meta' = meta
          \/ \E i \in todo : ~Listed(i) /\ meta' = [meta EXCEPT ![i] = Absent]
          \/ \E i \in todo : Listed(i) /\ meta' = [meta EXCEPT ![i] = Repaired(@, yaml.autos[i])]
      BY <1>12 DEF Reconcile, DropOrphan, RepairKnown
    <3>3. \A i \in todo : i \in Ids /\ Known(i)
      BY <1>0, <2>1 DEF IInv, InFlight, TypeOK
    <3>4. \A i \in todo : Listed(i) => Repaired(meta[i], yaml.autos[i]) \in Meta
      BY <1>0, <3>3, AutoType, RepairedType DEF IInv, Listed, AllIds
    <3> QED
      BY <3>1, <3>2, <3>3, <3>4, NullAssumption DEF Listed
  <2> QED
    BY <1>0, <2>1, <2>2, CoverageKept, RecordListsLess
<1> QED
  BY <1>2, <1>3, <1>4, <1>5, <1>6, <1>7, <1>8, <1>9, <1>10, <1>11, <1>12 DEF Steps

(* Nor does any other step. *)
LEMMA CoverageNext ==
  ASSUME NoUndoAsked, StoreInv, edits = 0, edits' = 0, [Next]_vars
  PROVE  Coverage'
<1>0. /\ IInv /\ Orderly /\ InPlace /\ Changes /\ Categories /\ Coverage /\ Told /\ Recoverable
      /\ journal # NoTx => journal.op # "rollback"
  BY DEF StoreInv, Stores, Told, Categories
<1>1. CASE UserRequest \/ FinalRunDelete \/ Begin(StartupRequest("cleanup"))
  <2>1. /\ journal = NoTx /\ yaml' = yaml /\ tx'.before = yaml /\ journal' = tx' /\ pc' = "check"
        /\ meta' = meta
    BY <1>1 DEF UserRequest, FinalRunDelete, Begin
  <2> QED
    BY <1>0, <2>1 DEF Coverage, Covered, Known
<1>2. CASE Steps
  BY <1>2, CoverageSteps
<1>3. CASE Recover
  <2>1. /\ yaml' = yaml /\ meta' = meta
        /\ pc' \in {"free", "recover_reload", "undo_check"}
        /\ journal' = journal \/ journal = NoTx \/ yaml = journal.before \/ journal.op \in Forward
        /\ journal' \in {journal, NoTx}
        /\ pc' = "undo_check" => tx' = journal /\ journal # NoTx /\ journal.op \notin Forward
    BY <1>0, <1>3 DEF Recover, RecoverNothing, RecoverForward, RecoverBack, RecoverConflict, Untouched,
       locals
  <2>2. yaml = journal.before /\ journal # NoTx => Covered(yaml.autos)
    BY <1>0 DEF Coverage
  <2> QED
    BY <1>0, <2>1, <2>2 DEF Coverage, Covered, Known, Begun
<1>4. CASE \/ UserExpireOrphans \/ ExpireOrphans(StartupRequest("cleanup")) \/ BeginReconcile
           \/ Restart \/ ReloadEntry
  <2>1. /\ yaml' = yaml /\ meta' = meta /\ journal' = journal
        /\ pc' \in {"free", "expire", "reconcile"}
    BY <1>4 DEF UserExpireOrphans, ExpireOrphans, BeginReconcile, Restart, ReloadEntry, durable,
       locals
  <2> QED
    BY <1>0, <2>1 DEF Coverage, Covered, Known, Begun
<1>5. CASE CleanupRefused \/ Tick \/ UNCHANGED vars \/ \E i \in Ids : RecordRun(i)
  <2>1. /\ yaml' = yaml /\ journal' = journal /\ pc' = pc /\ tx' = tx
    BY <1>5 DEF CleanupRefused, Tick, vars, RecordRun, durable, locals
  <2>2. \A i \in Ids : meta[i] # Absent => meta'[i] # Absent
    <3>1. meta \in [Ids -> Meta \cup {Absent}]
      BY <1>0 DEF IInv, TypeOK, Metas
    <3>2. meta' = meta \/ \E i \in Ids : Known(i) /\ meta[i].count + 1 < meta[i].limit
                                         /\ meta' = [meta EXCEPT ![i].count = @ + 1]
      BY <1>0, <3>1, <1>5 DEF CleanupRefused, Tick, vars, RecordRun, durable, Meta, Known
    <3>3. ASSUME NEW i \in Ids, Known(i), meta[i].count + 1 < meta[i].limit
          PROVE  [meta[i] EXCEPT !.count = @ + 1] \in Meta
      BY <3>1, <3>3, ExecutorAssumption DEF Known, Meta
    <3> QED
      BY <3>1, <3>2, <3>3, NullAssumption
  <2> QED
    BY <1>0, <2>1, <2>2 DEF Coverage, Covered, Known
<1>6. ~ExternalEdit
  BY <1>0, ExecutorAssumption DEF ExternalEdit, IInv, TypeOK
<1> QED
  BY <1>1, <1>2, <1>3, <1>4, <1>5, <1>6 DEF Next, Startup, StartupCleanup

(* Only the end of the reconciliation brings the start-up through. *)
LEMMA StillUp ==
  ASSUME IInv, Orderly, Steps, ~EndReconcile, boot' \in {"cleanup", "done"}
  PROVE  boot \in {"cleanup", "done"}
BY DEF Steps, CheckDigest, Abort, WriteYaml, WriteError, VerifyWrite, AppendHistory, Reload,
   Record, ExpireMetadata, EndExpire, Complete, PopHistory, UndoCheck, UndoWrite, UndoVerify,
   UndoClear, UndoPop, UndoMeta, UndoReload, RecoverReload, Reconcile, MetaFails, DropOrphan,
   RepairKnown, Goto, Finish, Undo, Next1, told, Orderly

(* What an operation that gets to its end says is what it has written. *)
LEMMA RecordedAgrees ==
  ASSUME IInv, Orderly, InPlace, Changes, Categories, edits = 0, pc = "record",
         \A i \in Ids : Agrees(tx.before.autos, i), NEW i \in Ids, Recorded(req)[i] # Absent
  PROVE  /\ yaml.autos[i] # Absent
         /\ Recorded(req)[i].at = yaml.autos[i].at
         /\ Recorded(req)[i].limit = yaml.autos[i].limit
<1>1. /\ yaml = tx.after /\ Asked(tx, req) /\ req.kind # "rollback" /\ i \in AllIds
  BY DEF InPlace, Changes, Categories, Applying, AllIds
<1>2. /\ req.id \in Ids /\ req.kind \in {"create", "delete"} \cup UpdateKinds
      /\ \A j \in Ids : j # req.id => Recorded(req)[j] = meta[j]
  BY <1>1, RecordedAt
<1>3. CASE i # req.id
  <2>1. /\ meta[i] # Absent /\ Recorded(req)[i] = meta[i]
        /\ tx.after.autos[i] = tx.before.autos[i]
    BY <1>1, <1>2, <1>3 DEF Asked, Kinds, UpdateKinds
  <2> QED
    BY <1>1, <2>1 DEF Agrees, Known
<1>4. CASE i = req.id /\ req.kind = "create"
  BY <1>1, <1>4, RecordedAt DEF Asked
<1>5. CASE i = req.id /\ req.kind = "delete"
  BY <1>5, RecordedAt
<1>6. CASE i = req.id /\ req.kind \in UpdateKinds
  <2>1. /\ meta[i] # Absent
        /\ Recorded(req)[i].at = IF req.kind = "reschedule" THEN req.at ELSE meta[i].at
        /\ Recorded(req)[i].limit = IF req.kind = "set_max_runs" THEN req.limit ELSE meta[i].limit
    BY <1>6, RecordedAt DEF Known
  <2>2. /\ tx.after.autos[i] # Absent
        /\ tx.after.autos[i].at = IF req.kind = "reschedule" THEN req.at
                                  ELSE tx.before.autos[i].at
        /\ tx.after.autos[i].limit = IF req.kind = "set_max_runs" THEN req.limit
                                     ELSE tx.before.autos[i].limit
    BY <1>1, <1>6 DEF Asked
  <2> QED
    BY <1>1, <2>1, <2>2 DEF Agrees, Known
<1> QED
  BY <1>2, <1>3, <1>4, <1>5, <1>6

(* No step of an operation leaves a wrong word in the sidecar file. *)
LEMMA AgreementSteps ==
  ASSUME StoreInv, edits = 0, edits' = 0, Steps
  PROVE  Agreement'
<1>0. /\ IInv /\ Orderly /\ InPlace /\ Changes /\ Natured /\ Categories /\ Agreement /\ Told
  BY DEF StoreInv, Stores, Told
<1>1. InTx => tx \in Tx /\ tx # NoTx /\ journal = tx /\ Whole(tx) /\ tx.op # "rollback"
  BY <1>0, TheOldCounts DEF OldCounts, Categories
<1>u. ~EndReconcile /\ boot' \in {"cleanup", "done"} => boot \in {"cleanup", "done"}
  BY <1>0, StillUp
<1>2. CASE \/ CheckDigest \/ WriteYaml \/ WriteError \/ VerifyWrite \/ AppendHistory \/ UndoCheck
           \/ UndoWrite \/ UndoVerify
  <2>1. /\ pc \in Begun \ {"complete"} /\ InTx /\ meta' = meta
        /\ pc' \in (Begun \ {"complete"}) \cup {"free"}
    BY <1>2 DEF CheckDigest, WriteYaml, WriteError, VerifyWrite, AppendHistory, UndoCheck,
       UndoWrite, UndoVerify, Goto, Undo, Finish, durable, Begun, InTx
  <2>2. journal' # NoTx /\ (pc' # "free" => tx'.before = tx.before)
    <3>1. CASE VerifyWrite
      <4>1. [tx EXCEPT !.after = yaml] = tx \/ yaml # tx.after
        BY <1>1, <2>1 DEF Tx
      <4>2. yaml = tx.after
        BY <1>0, <3>1 DEF VerifyWrite, InPlace
      <4> QED
        BY <1>1, <2>1, <3>1, <4>1, <4>2 DEF VerifyWrite, Goto, Finish
    <3>2. CASE ~VerifyWrite
      BY <1>1, <1>2, <2>1, <3>2 DEF CheckDigest, WriteYaml, WriteError, AppendHistory, UndoCheck,
         UndoWrite, UndoVerify, Goto, Undo, Finish, durable
    <3> QED
      BY <3>1, <3>2
  <2>3. ~EndReconcile
    BY <2>1 DEF EndReconcile, Begun
  <2> QED
    BY <1>0, <1>u, <2>1, <2>2, <2>3 DEF Agreement, Agrees, Known, Begun, Expiring
<1>3. CASE Abort \/ UndoClear
  <2>1. /\ yaml' = yaml /\ meta' = meta /\ pc \in Begun \ {"complete"}
        /\ pc' \in {"free", "undo_pop"} /\ yaml.autos = tx.before.autos
    BY <1>0, <1>3 DEF Abort, UndoClear, Goto, Finish, InPlace, Restored, Dump, Begun
  <2>2. ~EndReconcile
    BY <2>1 DEF EndReconcile, Begun
  <2> QED
    BY <1>0, <1>u, <2>1, <2>2 DEF Agreement, Agrees, Known, Begun, Expiring
<1>4. CASE Reload
  <2>1. /\ pc = "reload" /\ yaml' = yaml /\ meta' = meta /\ journal' = journal /\ tx' = tx
        /\ req' = req /\ todo' = todo /\ boot' = boot /\ yaml = tx.after /\ journal # NoTx
        /\ pc' \in {"undo_check", AfterReload(req.kind)} /\ Asked(tx, req)
    BY <1>0, <1>1, <1>4 DEF Reload, Goto, Undo, durable, told, InPlace, Changes, Applying, InTx,
       Begun
  <2>2. pc' \in {"undo_check", "record"} => Agreement'
    BY <1>0, <2>1 DEF Agreement, Agrees, Known, Begun, Expiring
  <2>3. CASE pc' = "complete"
    <3>1. req.kind \in {"enable", "disable"}
      BY <2>1, <2>3 DEF AfterReload
    <3>2. req.id \in Ids
      BY <1>0, <2>1, <3>1, RequestShape DEF IInv, InFlight, TypeOK, Kinds
    <3>3. \A i \in Ids : Agrees(tx.before.autos, i) => Agrees(yaml.autos, i)
      <4>1. \A i \in Ids : i # req.id => tx.after.autos[i] = tx.before.autos[i]
        BY <2>1, <3>1 DEF Asked, AllIds, Kinds
      <4>2. /\ tx.after.autos[req.id] # Absent
            /\ tx.after.autos[req.id].at = tx.before.autos[req.id].at
            /\ tx.after.autos[req.id].limit = tx.before.autos[req.id].limit
        BY <2>1, <3>1 DEF Asked
      <4> QED
        BY <2>1, <4>1, <4>2 DEF Agrees
    <3> QED
      BY <1>0, <2>1, <2>3, <3>3 DEF Agreement, Agrees, Known, Begun, Expiring
  <2>4. CASE pc' = "expire"
    <3>1. req.kind \in {"expire", "cleanup"}
      BY <2>1, <2>4 DEF AfterReload
    <3>2. \A i \in Ids \ todo : tx.after.autos[i] = tx.before.autos[i]
      BY <1>0, <2>1, <3>1 DEF Changes, Applying, AllIds
    <3> QED
      BY <1>0, <2>1, <2>4, <3>2 DEF Agreement, Agrees, Known, Begun, Expiring
  <2> QED
    BY <2>1, <2>2, <2>3, <2>4 DEF AfterReload
<1>5. CASE Record
  <2>1. /\ pc = "record" /\ yaml' = yaml /\ journal' = journal /\ tx' = tx /\ boot' = boot
        /\ journal # NoTx
        /\ \/ pc' = "complete" /\ meta' = Recorded(req)
           \/ pc' = "undo_check" /\ meta' = meta
    BY <1>1, <1>5 DEF Record, MetaFails, Goto, Undo, told, InTx, Begun
  <2>2. (\A i \in Ids : Agrees(tx.before.autos, i)) /\ pc' = "complete" =>
          \A i \in Ids : meta'[i] # Absent => /\ yaml.autos[i] # Absent
                                              /\ meta'[i].at = yaml.autos[i].at
                                              /\ meta'[i].limit = yaml.autos[i].limit
    BY <1>0, <2>1, RecordedAgrees
  <2> QED
    BY <1>0, <2>1, <2>2 DEF Agreement, Agrees, Known, Begun, Expiring
<1>6. CASE ExpireMetadata
  <2>1. /\ pc = "expire" /\ yaml' = yaml /\ journal' = journal
        /\ \/ pc' = "free" /\ meta' = meta
           \/ /\ pc' = "expire" /\ tx' = tx
              /\ \E i \in todo : todo' = todo \ {i} /\ meta' = [meta EXCEPT ![i] = Absent]
    BY <1>6 DEF ExpireMetadata, Next1, Finish
  <2>2. meta \in [Ids -> Meta \cup {Absent}] /\ ~EndReconcile
    BY <1>0, <2>1 DEF IInv, TypeOK, Metas, EndReconcile
  <2> QED
    BY <1>0, <1>u, <2>1, <2>2 DEF Agreement, Agrees, Known, Begun, Expiring
<1>7. CASE EndExpire
  <2>1. /\ pc = "expire" /\ yaml' = yaml /\ journal' = journal /\ meta' = meta /\ todo = {}
        /\ pc' = "free" \/ (pc' = "complete" /\ Expiring /\ InTx)
    BY <1>7 DEF EndExpire, Goto, Finish, durable, Expiring, InTx
  <2>2. ~EndReconcile
    BY <2>1 DEF EndReconcile
  <2> QED
    BY <1>0, <1>1, <1>u, <2>1, <2>2 DEF Agreement, Agrees, Known, Begun, Expiring
<1>8. CASE EndReconcile
  <2>1. /\ pc = "reconcile" /\ pc' = "free" /\ yaml' = yaml /\ meta' = meta /\ todo = {}
    BY <1>8 DEF EndReconcile, Finish, durable
  <2> QED
    BY <1>0, <2>1 DEF Agreement, Agrees, Known, Begun, Expiring
<1>9. CASE Complete
  <2>1. /\ pc = "complete" /\ yaml' = yaml /\ meta' = meta /\ pc' \in {"free", "pop"}
        /\ journal' \in {journal, NoTx} /\ ~EndReconcile
    BY <1>9 DEF Complete, Goto, Finish, EndReconcile
  <2> QED
    BY <1>0, <1>u, <2>1 DEF Agreement, Agrees, Known, Begun, Expiring
<1>10. CASE PopHistory \/ UndoPop \/ UndoReload \/ RecoverReload \/ UndoMeta
  <2>1. /\ yaml' = yaml /\ journal' = journal
        /\ pc' \in {"free", "undo_meta", "undo_reload", "recover_reload"}
        /\ meta' = meta \/ \E i : meta' = [meta EXCEPT ![i] = Absent]
        /\ ~EndReconcile
    BY <1>10 DEF PopHistory, UndoPop, UndoReload, RecoverReload, UndoMeta, AfterUndo, Goto, Finish,
       durable, EndReconcile
  <2>2. meta \in [Ids -> Meta \cup {Absent}]
    BY <1>0 DEF IInv, TypeOK, Metas
  <2> QED
    BY <1>0, <1>u, <2>1, <2>2 DEF Agreement, Agrees, Known, Begun, Expiring
<1>11. CASE Reconcile /\ ~EndReconcile
  <2>1. /\ pc = "reconcile" /\ yaml' = yaml /\ journal' = journal /\ tx = NoTx
        /\ pc' \in {"reconcile", "free"}
    BY <1>0, <1>11 DEF Reconcile, DropOrphan, RepairKnown, Next1, Finish, Orderly
  <2>2. meta \in [Ids -> Meta \cup {Absent}]
    BY <1>0 DEF IInv, TypeOK, Metas
  <2>3. CASE meta' = meta /\ pc' = "free"
    BY <1>0, <1>u, <1>11, <2>1, <2>3 DEF Agreement, Agrees, Known, Begun, Expiring
  <2>4. CASE \E i \in todo : Next1(i) /\ meta' = [meta EXCEPT ![i] = Absent]
    BY <1>0, <1>u, <1>11, <2>1, <2>2, <2>4 DEF Agreement, Agrees, Known, Begun, Expiring, Next1
  <2>5. CASE \E i \in todo : /\ Next1(i) /\ Listed(i)
                             /\ meta' = [meta EXCEPT ![i] = Repaired(@, yaml.autos[i])]
    <3>1. PICK i \in todo : /\ Next1(i) /\ Listed(i)
                            /\ meta' = [meta EXCEPT ![i] = Repaired(@, yaml.autos[i])]
      BY <2>5
    <3>2. i \in Ids /\ Known(i)
      BY <1>0, <2>1 DEF IInv, InFlight, TypeOK
    <3>3. meta[i] \in Meta /\ yaml.autos[i] \in Automation
      BY <1>0, <3>1, <3>2, AutoType DEF IInv, Listed
    <3>4. meta[i].at # 0 <=> yaml.autos[i].at # 0
      BY <1>0, <3>1, <3>2 DEF Natured, AllFit, Fits, Known, Listed
    <3>5. /\ Repaired(meta[i], yaml.autos[i]).at = yaml.autos[i].at
          /\ Repaired(meta[i], yaml.autos[i]).limit = yaml.autos[i].limit
      BY <3>3, <3>4 DEF Repaired, Meta, Automation
    <3>6. /\ meta'[i].at = yaml.autos[i].at /\ meta'[i].limit = yaml.autos[i].limit
          /\ \A j \in Ids \ {i} : meta'[j] = meta[j]
      BY <2>2, <3>1, <3>2, <3>5
    <3> QED
      BY <1>0, <1>u, <1>11, <2>1, <3>1, <3>2, <3>6 DEF Agreement, Agrees, Known, Listed, Begun,
         Expiring, Next1
  <2> QED
    BY <1>11, <2>3, <2>4, <2>5 DEF Reconcile, DropOrphan, RepairKnown, Finish
<1> QED
  BY <1>2, <1>3, <1>4, <1>5, <1>6, <1>7, <1>8, <1>9, <1>10, <1>11 DEF Steps

(* Nor does any other step. *)
LEMMA AgreementNext ==
  ASSUME NoUndoAsked, StoreInv, edits = 0, edits' = 0, [Next]_vars
  PROVE  Agreement'
<1>0. /\ IInv /\ Orderly /\ InPlace /\ Changes /\ Agreement /\ Told /\ Coverage
  BY DEF StoreInv, Stores, Told
<1>1. CASE UserRequest \/ FinalRunDelete \/ Begin(StartupRequest("cleanup"))
  <2>1. /\ journal = NoTx /\ yaml' = yaml /\ tx'.before = yaml /\ journal' = tx' /\ pc' = "check"
        /\ meta' = meta /\ boot' = boot /\ pc = "free"
    BY <1>1 DEF UserRequest, FinalRunDelete, Begin
  <2>2. InTx'
    BY <2>1 DEF InTx, Begun
  <2>3. IInv'
    BY <1>0, NextKeeps
  <2>4. journal' # NoTx
    BY <2>1, <2>3 DEF IInv, InFlight, Journalled, Begun
  <2> QED
    BY <1>0, <2>1, <2>4 DEF Agreement, Agrees, Known, Expiring
<1>2. CASE Steps
  BY <1>2, AgreementSteps
<1>3. CASE Recover \/ Restart \/ ReloadEntry
  <2>1. boot' \notin {"cleanup", "done"} /\ pc' # "reconcile"
    BY <1>3 DEF Recover, RecoverNothing, RecoverForward, RecoverBack, RecoverConflict, Restart,
       ReloadEntry, locals
  <2> QED
    BY <2>1 DEF Agreement
<1>4. CASE UserExpireOrphans \/ ExpireOrphans(StartupRequest("cleanup"))
  <2>1. /\ pc' = "expire" /\ tx' = NoTx /\ boot' = boot /\ journal' = journal
        /\ \E i \in Ids : Known(i) /\ ~Listed(i)
    BY <1>0, <1>4 DEF UserExpireOrphans, ExpireOrphans, Overdue, IInv, InFlight, durable
  <2>2. boot \in {"cleanup", "done"} => journal # NoTx
    BY <1>0, <2>1 DEF Agreement, Agrees, Listed
  <2> QED
    BY <2>1, <2>2 DEF Agreement, Begun, Expiring
<1>5. CASE BeginReconcile
  <2>1. /\ pc' = "reconcile" /\ boot' = "reconcile" /\ meta' = meta
        /\ todo' = {i \in Ids : meta[i] # Absent}
    BY <1>5 DEF BeginReconcile, told, durable, Known
  <2> QED
    BY <2>1 DEF Agreement, Agrees, Known
<1>6. CASE \/ StartupCleanup /\ CleanupRefused
           \/ Tick \/ UNCHANGED vars \/ \E i \in Ids : RecordRun(i)
  <2>1. /\ yaml' = yaml /\ journal' = journal /\ pc' = pc /\ tx' = tx /\ todo' = todo
        /\ boot' = boot \/ (boot = "cleanup" /\ boot' = "done")
    BY <1>6 DEF StartupCleanup, CleanupRefused, Tick, vars, RecordRun, durable, locals, told
  <2>2. \A i \in Ids : /\ meta'[i] # Absent => meta[i] # Absent
                       /\ meta[i] # Absent => meta'[i].at = meta[i].at
                                              /\ meta'[i].limit = meta[i].limit
    <3>1. meta \in [Ids -> Meta \cup {Absent}]
      BY <1>0 DEF IInv, TypeOK, Metas
    <3>2. meta' = meta \/ \E i \in Ids : Known(i) /\ meta' = [meta EXCEPT ![i].count = @ + 1]
      BY <1>6 DEF StartupCleanup, CleanupRefused, Tick, vars, RecordRun, durable
    <3>3. CASE \E i \in Ids : Known(i) /\ meta' = [meta EXCEPT ![i].count = @ + 1]
      <4>1. PICK i \in Ids : Known(i) /\ meta' = [meta EXCEPT ![i].count = @ + 1]
        BY <3>3
      <4>2. meta[i] \in Meta
        BY <3>1, <4>1 DEF Known
      <4>3. /\ \A j \in Ids \ {i} : meta'[j] = meta[j]
            /\ meta'[i].at = meta[i].at /\ meta'[i].limit = meta[i].limit
        BY <3>1, <4>1, <4>2 DEF Meta
      <4> QED
        BY <4>1, <4>3 DEF Known
    <3> QED
      BY <3>2, <3>3
  <2> QED
    BY <1>0, <2>1, <2>2 DEF Agreement, Agrees, Known, Expiring
<1>7. ~ExternalEdit
  BY <1>0, ExecutorAssumption DEF ExternalEdit, IInv, TypeOK
<1> QED
  BY <1>1, <1>2, <1>3, <1>4, <1>5, <1>6, <1>7 DEF Next, Startup, StartupCleanup

(* If nobody asks for the last change to be undone, the sidecar file and the *)
(* list agree whenever everything is settled: each knows what the other      *)
(* does, with the same schedule and the same run limit, after any failing    *)
(* calls and crashes, as long as no other program writes the file.           *)
THEOREM StoresAgreeAtRest == ASSUME NoUndoAsked PROVE Spec => []StoresAgree
<1>1. Init => Categories /\ Coverage /\ Agreement
  BY DEF Init, Categories, Coverage, Covered, Agreement, Agrees, Known, NoMetas, NoAutos, Begun,
     Expiring, AllIds
<1>2. IInv /\ Told /\ Recoverable /\ Stores /\ [Next]_vars => Stores'
  <2> SUFFICES ASSUME IInv, Told, Recoverable, Stores, [Next]_vars PROVE Stores'
    OBVIOUS
  <2>1. StoreInv
    BY DEF StoreInv
  <2>2. Categories'
    BY CategoriesNext DEF Stores, Told
  <2>3. edits' = 0 => edits = 0
    <3>1. ExternalEdit => edits' # 0
      BY ExecutorAssumption DEF ExternalEdit, IInv, TypeOK
    <3>2. ~ExternalEdit => edits' = edits
      BY DEF Next, UserRequest, FinalRunDelete, Begin, UserExpireOrphans, ExpireOrphans, Startup,
         StartupCleanup, CleanupRefused, BeginReconcile, Recover, RecordRun, Restart, ReloadEntry,
         Tick, vars, counters, Steps, CheckDigest, Abort, WriteYaml, WriteError, VerifyWrite,
         AppendHistory, Reload, Record, ExpireMetadata, EndExpire, Complete, PopHistory,
         UndoCheck, UndoWrite, UndoVerify, UndoClear, UndoPop, UndoMeta, UndoReload,
         RecoverReload, Reconcile, EndReconcile
    <3> QED
      BY <3>1, <3>2
  <2>4. Coverage' /\ Agreement'
    <3>1. CASE edits' = 0
      BY <2>1, <2>3, <3>1, CoverageNext, AgreementNext
    <3>2. CASE edits' # 0
      BY <3>2 DEF Coverage, Agreement
    <3> QED
      BY <3>1, <3>2
  <2> QED
    BY <2>2, <2>4 DEF Stores
<1>3. Stores => StoresAgree
  BY DEF Stores, Coverage, Agreement, StoresAgree, Settled, Covered, Agrees, Known, Listed
<1> QED
  BY <1>1, <1>2, <1>3, ToldHolds, AlwaysRecoverable, PTL DEF Spec, Stores
=============================================================================
