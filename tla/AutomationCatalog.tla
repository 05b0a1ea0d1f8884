-------------------------- MODULE AutomationCatalog --------------------------
(***************************************************************************)
(* What the automation executor promises its callers, without files,       *)
(* journals or crashes: one catalogue of automations that changes by whole *)
(* operations.  Every step changes one automation, expires a set of        *)
(* one-shots, or puts back a catalogue remembered from before an earlier   *)
(* change.  No step ever shows part of a change.                           *)
(***************************************************************************)
CONSTANTS
  Ids,        \* automation ids
  Autos,      \* what an automation can say
  Absent,     \* no automation under this id
  Expirable   \* automations that an expiry may remove

VARIABLES
  catalog,     \* the automations callers may rely on
  restorable   \* catalogues an undo may put back

catalogVars == <<catalog, restorable>>

Catalogs == [Ids -> Autos \cup {Absent}]

CatalogTypeOK ==
  /\ catalog \in Catalogs
  /\ restorable \subseteq Catalogs

CatalogInit ==
  /\ catalog \in Catalogs
  /\ restorable = {}

(* An operation, or somebody's edit, changes exactly one automation. *)
Change(i, v) ==
  /\ catalog' = [catalog EXCEPT ![i] = v]
  /\ UNCHANGED restorable

(* Missed one-shots are removed together. *)
Expire(S) ==
  /\ \A i \in S : catalog[i] \in Expirable
  /\ catalog' = [i \in Ids |-> IF i \in S THEN Absent ELSE catalog[i]]
  /\ UNCHANGED restorable

(* The catalogue of a moment ago is kept, or kept ones are forgotten. *)
Remember(R) ==
  /\ R \subseteq restorable \cup {catalog}
  /\ restorable' = R
  /\ UNCHANGED catalog

(* The last change is undone as a whole. *)
Restore ==
  /\ catalog' \in restorable
  /\ UNCHANGED restorable

CatalogNext ==
  \/ \E i \in Ids, v \in Autos \cup {Absent} : Change(i, v)
  \/ \E S \in SUBSET Ids : Expire(S)
  \/ \E R \in SUBSET (restorable \cup {catalog}) : Remember(R)
  \/ Restore

CatalogSpec == CatalogInit /\ [][CatalogNext]_catalogVars
===============================================================================
