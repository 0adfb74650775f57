------------------------------ MODULE Console -------------------------------
(***************************************************************************)
(* The web console (internal/api/static/app.js) with the reading handlers  *)
(* it polls (handleListVMs and handlePool of internal/api/handlers.go),    *)
(* over the orchestrator.                                                  *)
(*                                                                         *)
(* Every two seconds refreshAll asks for the list and for the pool and     *)
(* waits for neither, so requests overlap: a request is a slot, and an     *)
(* older answer may be shown after a newer one.  handleListVMs reads one   *)
(* transaction, handlePool two.  A request may fail at any point; the      *)
(* failure is shown where the answer would be.                             *)
(*                                                                         *)
(* The users of the console delete the rows they see, when a row has come  *)
(* to "ready" or "failed", as often as they like: what they see may be     *)
(* out of date.                                                            *)
(***************************************************************************)
EXTENDS CautiousUse

CONSTANTS
  Polls,      \* the requests of the console that can be in flight at once
  MaxErrors   \* how many of them may fail

ASSUME ConsoleAssumption == MaxErrors \in Nat

VARIABLES
  poll,    \* the requests, with what their handlers have read so far
  page,    \* what the console shows
  errors   \* the failures so far

consoleVars == <<vars, poll, page, errors>>

NoVms == [id \in VmIds |-> NoRecord]

AllFree == [a \in Pool |-> None]

\* "listed", "counted": the answer is on its way.  "half": handlePool has read
\* the used addresses.  A request on its way to its handler is not told apart
\* from one that is sent later.
NoPoll == [at |-> "idle", rows |-> NoVms, used |-> AllFree, free |-> {}]

NoPage == [rows |-> NoVms, listError |-> FALSE,
           used |-> AllFree, free |-> {}, poolError |-> FALSE]

ConsoleTypeOK ==
  /\ TypeOK
  /\ poll \in [Polls -> [at   : {"idle", "listed", "half", "counted"},
                         rows : [VmIds -> VmRecord],
                         used : [Pool -> VmIds \cup {None}],
                         free : SUBSET Pool]]
  /\ page \in [rows : [VmIds -> VmRecord], listError : BOOLEAN,
               used : [Pool -> VmIds \cup {None}], free : SUBSET Pool,
               poolError : BOOLEAN]
  /\ errors \in 0..MaxErrors

ConsoleInit ==
  /\ Init
  /\ poll = [p \in Polls |-> NoPoll]
  /\ page = NoPage
  /\ errors = 0

-----------------------------------------------------------------------------
(* The requests of the page.                                               *)

handleListVMs(p) ==
  /\ poll[p].at = "idle"
  /\ poll' = [poll EXCEPT ![p].at = "listed", ![p].rows = vms]
  /\ UNCHANGED <<vars, page, errors>>

\* handlePool: Used is one transaction ...
ReadUsed(p) ==
  /\ poll[p].at = "idle"
  /\ poll' = [poll EXCEPT ![p].at = "half", ![p].used = ipalloc]
  /\ UNCHANGED <<vars, page, errors>>

\* ... and Free another, which reads the used addresses for itself.
ReadFree(p) ==
  /\ poll[p].at = "half"
  /\ poll' = [poll EXCEPT ![p].at = "counted", ![p].free = Free]
  /\ UNCHANGED <<vars, page, errors>>

RefreshList == \E p \in Polls : handleListVMs(p)

RefreshPool == \E p \in Polls : ReadUsed(p)

\* Wrong on purpose: rows that are not in the answer stay in the table.
MergeRows(old, new) == [id \in VmIds |-> IF new[id] = NoRecord THEN old[id] ELSE new[id]]

\* The table is rendered from scratch.
RenderRows(old, new) == new

\* The answer arrives and is shown.
Show(p) ==
  /\ \/ /\ poll[p].at = "listed"
        /\ page' = [page EXCEPT !.rows = RenderRows(page.rows, poll[p].rows),
                                !.listError = FALSE]
     \/ /\ poll[p].at = "counted"
        /\ page' = [page EXCEPT !.used = poll[p].used, !.free = poll[p].free,
                                !.poolError = FALSE]
  /\ poll' = [poll EXCEPT ![p] = NoPoll]
  /\ UNCHANGED <<vars, errors>>

\* The error replaces the table; of the pool it replaces the summary only.
Fail(p) ==
  /\ errors < MaxErrors
  /\ errors' = errors + 1
  /\ \/ /\ poll[p].at = "listed"
        /\ page' = [page EXCEPT !.rows = NoVms, !.listError = TRUE]
     \/ /\ poll[p].at \in {"half", "counted"}
        /\ page' = [page EXCEPT !.poolError = TRUE]
  /\ poll' = [poll EXCEPT ![p] = NoPoll]
  /\ UNCHANGED vars

\* The button is on every row; these users wait for an outcome.
ShownSettled(id) == page.rows[id].status \in {"ready", "failed"}

\* The delete button of a row.  If the record is gone already the answer is 404,
\* which is not a step.
doDelete(h, id) ==
  /\ ShownSettled(id)
  /\ DeleteStart(h, id)
  /\ UNCHANGED <<poll, page, errors>>

\* The form; a name is asked for once.
Submit(id, name) ==
  /\ UniqueName(name)
  /\ Provision(id, name)
  /\ UNCHANGED <<poll, page, errors>>

ConsoleNext ==
  \/ \E id \in VmIds : \E name \in Names \cup {id} : Submit(id, name)
  \/ \E h \in Handlers, id \in VmIds : doDelete(h, id)
  \/ Daemon /\ UNCHANGED <<poll, page, errors>>
  \/ RefreshList \/ RefreshPool
  \/ \E p \in Polls : ReadFree(p) \/ Show(p) \/ Fail(p)

ConsoleSpec == ConsoleInit /\ [][ConsoleNext]_consoleVars

\* refreshAll asks for both again and again; the handlers answer and the
\* answers arrive, in whatever order.
ConsoleFairSpec ==
  /\ ConsoleSpec
  /\ \A id \in VmIds :
       WF_consoleVars(runProvision(id) /\ UNCHANGED <<poll, page, errors>>)
  /\ \A h \in Handlers :
       WF_consoleVars(Delete(h) /\ UNCHANGED <<poll, page, errors>>)
  /\ SF_consoleVars(RefreshList) /\ SF_consoleVars(RefreshPool)
  /\ \A p \in Polls : WF_consoleVars(ReadFree(p)) /\ WF_consoleVars(Show(p))

-----------------------------------------------------------------------------

\* app.js:6, "poll every 2s, re-render from scratch": however the answers are
\* delayed, reordered and lost, and whatever the two transactions of handlePool
\* have seen, the page comes to show the records and the pool as they are.
PageShowsTruth ==
  /\ page.rows = vms /\ ~page.listError
  /\ page.used = ipalloc /\ page.free = Free /\ ~page.poolError

ConsoleConverges == <>[]PageShowsTruth
=============================================================================
