------------------------ MODULE LifecycleProperties -------------------------
(***************************************************************************)
(* What the orchestrator keeps true whatever its clients do: requests of   *)
(* any kind at any time, names asked for twice, a DELETE during the        *)
(* provision it deletes, two DELETEs of one VM, and every fault.           *)
(***************************************************************************)
EXTENDS Lifecycle

\* alloc.go:7-11, "never double-allocates": an address passes from one VM to
\* another only through the pool, whatever provisions, cleanups and deletes
\* acquire and release in between.
HolderStable ==
  [][\A a \in Pool : ipalloc[a] # None => ipalloc'[a] \in {ipalloc[a], None}]_vars

\* A record that was removed stays removed: the goroutine of a provision whose
\* record is gone still writes statuses, and a second DELETE still marks it,
\* but none of them brings the record back.
NoResurrection ==
  [][\A id \in VmIds : ppc[id] # "none" /\ ~Present(id) => ~Present(id)']_vars

\* cloud-init reads guestinfo once, at boot: a VM that runs was given, before
\* it booted, the address its own provision acquired, and no other.
BootsWithOwnAddress ==
  \A m \in VmIds : Running(m) => /\ inventory[m].guest \in Pool
                                 /\ inventory[m].guest = prov[m].ip

\* Once the goroutine has returned, a record that is left shows an outcome and
\* not a stage: nobody polls an "in progress" that nothing progresses.
OutcomeRecorded ==
  \A id \in VmIds :
    ppc[id] = "done" /\ Present(id) => vms[id].status \in {"ready", "failed", "deleting"}

\* A provision ends, in whatever state the host is and whoever deletes it: since
\* an id is drawn once, its goroutine is at work for some time and never again.
ProvisionEnds ==
  \A id \in VmIds : []<>(ppc[id] \in {"none", "done", "lost"})

\* A DELETE is answered: no handler is at work for ever.
DeleteAnswered == \A h \in Handlers : []<>(dpc[h] = "idle")
=============================================================================
