----------------------------- MODULE VmaasData ------------------------------
(***************************************************************************)
(* The vocabulary the modules of this project share: what a VM id, a name, *)
(* an address, a status and a record are, and which calls may fail.        *)
(*                                                                         *)
(* Names are the results of sanitizeName, so they can be told apart but    *)
(* not looked into.  A VM requested without a name is named after its id   *)
(* ("vmaas-" and 8 hex digits, which sanitizeName leaves as it is).        *)
(***************************************************************************)
EXTENDS Integers

CONSTANTS
  VmIds,      \* the ids Provision may draw; each is drawn at most once
  Names,      \* the names clients ask for; {} when nobody asks for one
  PoolStart,  \* first address of the pool, as a number
  PoolEnd,    \* last address of the pool, inclusive
  Faults,     \* the calls whose reply may be an error, see CallNames
  None        \* the value of what is missing: no name, no address, no VM

\* Every call of the daemon that a fault of the environment can make fail.
CallNames == {"store", "gold", "mkdir", "copydisk", "copyvmx", "patchvmx",
              "register", "inject", "poweron", "wait", "find", "poweroff",
              "unregister", "deletedir"}

Pool == PoolStart .. PoolEnd

ASSUME PoolAssumption ==
  /\ PoolStart \in Nat
  /\ PoolEnd \in Nat
  /\ PoolStart <= PoolEnd

ASSUME DataAssumption ==
  /\ Names \cap VmIds = {}
  /\ None \notin VmIds \cup Names \cup Pool
  /\ Faults \subseteq CallNames

AllNames == Names \cup VmIds

\* The states of a record while its provision is under way.
InProgress == {"pending", "allocating", "cloning", "injecting", "starting"}

Statuses == InProgress \cup {"ready", "failed", "deleting"}

\* The steps of the clone, which are also the keys of its checkpoints.
Steps == {"mkdir", "copydisk", "copyvmx", "patchvmx", "register"}

\* A record of the "vms" bucket.  A missing key is the record NoRecord.
VmRecord == [name   : AllNames \cup {None},
             status : Statuses \cup {"absent"},
             ip     : Pool \cup {None}]

NoRecord == [name |-> None, status |-> "absent", ip |-> None]
=============================================================================
