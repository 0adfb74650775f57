------------------------------- MODULE Store --------------------------------
(***************************************************************************)
(* The bbolt store (internal/store/store.go): the "vms" bucket of records  *)
(* and the "clones" bucket of clone checkpoints.  Every operation is one   *)
(* bbolt transaction, hence one step.  The read-modify-write operations    *)
(* (UpdateStatus, SetIP) return ErrNotFound on a missing record and write  *)
(* nothing; their callers log or drop that error, so success and failure   *)
(* are alternatives of the same operator.                                  *)
(***************************************************************************)
EXTENDS VmaasData

VARIABLES vms,     \* vm id -> record, NoRecord when there is none
          clones   \* vm id -> the clone steps with a checkpoint

storeVars == <<vms, clones>>

StoreTypeOK ==
  /\ vms \in [VmIds -> VmRecord]
  /\ clones \in [VmIds -> SUBSET Steps]

StoreInit ==
  /\ vms = [id \in VmIds |-> NoRecord]
  /\ clones = [id \in VmIds |-> {}]

Present(id) == vms[id].status # "absent"

\* A write that may not reach the disk and whose error nobody handles.
WriteMayFail == "store" \in Faults

\* Wrong on purpose: a status that store.go does not declare.
PutUndeclared(id, name) ==
  vms' = [vms EXCEPT ![id] = [name |-> name, status |-> "queued", ip |-> None]]

Put(id, name) ==
  vms' = [vms EXCEPT ![id] = [name |-> name, status |-> "pending", ip |-> None]]

\* Wrong on purpose: a missing record is written instead of ErrNotFound.
UpsertStatus(id, s) == vms' = [vms EXCEPT ![id].status = s]

UpdateStatus(id, s) ==
  \/ /\ Present(id)
     /\ vms' = [vms EXCEPT ![id].status = s]
  \/ /\ ~Present(id) \/ WriteMayFail
     /\ UNCHANGED vms

SetIP(id, a) ==
  \/ /\ Present(id)
     /\ vms' = [vms EXCEPT ![id].ip = a]
  \/ /\ ~Present(id) \/ WriteMayFail
     /\ UNCHANGED vms

\* Store.Delete; deleting a missing record is no error.
RemoveRecord(id) ==
  \/ vms' = [vms EXCEPT ![id] = NoRecord]
  \/ WriteMayFail /\ UNCHANGED vms

CheckpointHas(id, step) == step \in clones[id]

CheckpointSet(id, step) ==
  clones' = [clones EXCEPT ![id] = @ \cup {step}]

CheckpointClear(id) ==
  \/ clones' = [clones EXCEPT ![id] = {}]
  \/ WriteMayFail /\ UNCHANGED clones
=============================================================================
