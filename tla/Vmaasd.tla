------------------------------- MODULE Vmaasd -------------------------------
(***************************************************************************)
(* The daemon process (cmd/vmaasd/main.go) around the orchestrator: SIGTERM*)
(* and the graceful shutdown, a crash, and the restart by docker compose   *)
(* (restart: unless-stopped).                                              *)
(*                                                                         *)
(* The store and the ESXi host outlive the process; the goroutines and the *)
(* handlers do not.  A start of the daemon reads nothing back: main() and  *)
(* lifecycle.New look at no record and no checkpoint, so a provision that  *)
(* was lost stays lost.  Every ESXi call is a step, so a crash falls       *)
(* before a call or after its effect; a task that goes on at the host      *)
(* after the daemon is gone is not modelled.                               *)
(***************************************************************************)
EXTENDS CautiousUse

VARIABLE phase   \* where run() is

vmaasdVars == <<vars, phase>>

Phases == {"serving", "draining", "waiting", "closing", "down"}

VmaasdTypeOK == TypeOK /\ phase \in Phases

VmaasdInit == Init /\ phase = "serving"

Ended(id) == ppc[id] \in {"none", "done", "lost"}

\* The signal stops the listener, not the requests it has accepted: one whose
\* body is still being read (the server has no ReadTimeout) comes to its
\* handler at any later moment, also when Shutdown has given up waiting.
Serve == phase # "down" /\ Requests /\ UNCHANGED phase

Work == Daemon /\ UNCHANGED phase

\* SIGTERM or SIGINT: httpSrv.Shutdown closes the listener ...
Shutdown ==
  /\ phase = "serving"
  /\ phase' = "draining"
  /\ UNCHANGED vars

\* ... and returns when the handlers have answered or 30 seconds have passed;
\* its error is dropped.
Drained ==
  /\ phase = "draining"
  /\ phase' = "waiting"
  /\ UNCHANGED vars

\* Wrong on purpose: run() returns without orch.Wait().
NotWaited ==
  /\ phase = "waiting"
  /\ phase' = "closing"
  /\ UNCHANGED vars

\* orch.Wait() returns when the WaitGroup counts nobody.  A handler may still be
\* at work, and so may one of a POST between its Put and its wg.Add.
Waited ==
  /\ phase = "waiting"
  /\ \A id \in VmIds : Ended(id) \/ ppc[id] = "pending"
  /\ phase' = "closing"
  /\ UNCHANGED vars

\* The end of the process: the handlers and the goroutines die with it.
Dies ==
  /\ phase' = "down"
  /\ ppc' = [id \in VmIds |-> IF Ended(id) THEN ppc[id] ELSE "lost"]
  /\ dpc' = [h \in Handlers |-> "idle"]
  /\ del' = [h \in Handlers |-> NoRequest]
  /\ UNCHANGED <<ipalloc, storeVars, esxiVars, prov>>

\* run() returns, and closes the store on its way out.
Exit == phase = "closing" /\ Dies

\* The process is killed or panics.
Crash == phase # "down" /\ Dies

Restart ==
  /\ phase = "down"
  /\ phase' = "serving"
  /\ UNCHANGED vars

Stops == Shutdown \/ Drained \/ Waited \/ Exit

VmaasdNext == Stops \/ Crash \/ Restart \/ Serve \/ Work

VmaasdSpec == VmaasdInit /\ [][VmaasdNext]_vmaasdVars

\* What happens by itself in a phase: no two are enabled together, so one
\* fairness condition is as good as one for each.
GoesOn == Drained \/ Waited \/ Exit \/ Restart

\* The scheduler runs the goroutines, Shutdown returns by its timeout, run()
\* returns from Wait and ends, and docker restarts the container.
VmaasdFairSpec ==
  /\ VmaasdSpec
  /\ Fairness
  /\ WF_vmaasdVars(GoesOn)

-----------------------------------------------------------------------------

\* orchestrator.go:10-11, "Wait() blocks until all in-flight goroutines
\* finish": whatever the provisions run into, and whichever of them start while
\* a stop waits, when Wait returns every record in a stage is one that an
\* earlier end of the process left, or that a POST has just written and not yet
\* started a goroutine for.
WaitCoversStarted ==
  [][Waited => \A id \in VmIds :
       Present(id) /\ vms[id].status \in InProgress =>
         ppc[id] \in {"lost", "pending"}]_vmaasdVars

\* A shutdown comes to its end, whatever the provisions it waits for run into
\* and whoever joins them: run() does not stay in it for ever.
ShutdownCompletes == []<>(phase \in {"serving", "down"})

\* main.go:6-7, "On SIGTERM/SIGINT it stops accepting new requests, waits for
\* in-flight provisions to finish, and exits cleanly": a graceful stop costs no
\* provision its outcome.
GracefulStopLosesNothing ==
  [][Exit => \A id \in VmIds :
       Present(id) /\ vms[id].status \in InProgress => ppc[id] = "lost"]_vmaasdVars
=============================================================================
