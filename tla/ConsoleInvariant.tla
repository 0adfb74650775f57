-------------------------- MODULE ConsoleInvariant --------------------------
(***************************************************************************)
(* Why DeletedIsGone holds for the users of the console, who take none of  *)
(* the cautions about a DELETE: a row shows "ready" or "failed" only when  *)
(* the provision is past its outcome, however old the answer is, and from  *)
(* there on nobody adds anything to the VM.  So several DELETEs and the    *)
(* cleanup of a failed provision may take one VM down together, and what   *)
(* one of them has removed stays removed for the others.                   *)
(***************************************************************************)
EXTENDS Console, RunInvariant, PromiseInvariant

\* A record, an answer or a table shows an outcome only of what has come to one.
ShowsEnded(rows) ==
  \A id \in VmIds : rows[id].status \in {"ready", "failed"} => ppc[id] \in AfterOutcome

ShownInv ==
  /\ ShowsEnded(vms)
  /\ \A p \in Polls : ShowsEnded(poll[p].rows)
  /\ ShowsEnded(page.rows)

\* The record of a provision, and its address, which is nobody else's to record.
RecordsOwn(id) ==
  /\ ppc[id] \notin AfterOutcome \cup {"none"} => Present(id)
  /\ ppc[id] \in BeforeAcquire => prov[id].ip = None
  /\ \A a \in Pool : Holds(id, a) => a = prov[id].ip
  /\ Present(id) =>
       vms[id].ip = IF ppc[id] \in BeforeSetIP THEN None ELSE prov[id].ip

\* What a handler has read is still true when it is used.
ReadsTrue(h) ==
  LET id == del[h].id
  IN  dpc[h] # "idle" =>
        /\ id \in VmIds
        /\ ppc[id] \in AfterOutcome
        /\ del[h].name = prov[id].name
        /\ del[h].ip = prov[id].ip

\* What is gone by each call of a DELETE, whoever has removed it.
GoneSoFar(h) ==
  LET id == del[h].id
  IN  /\ dpc[h] = "unregister" => ~Running(id)
      /\ Removes(h)
      /\ dpc[h] \in {"clear", "remove"} => \A a \in Pool : ~Holds(id, a)

HandlersInv == \A h \in Handlers : ReadsTrue(h) /\ GoneSoFar(h)

\* The invariant every step of the console (app.js, handleListVMs, handlePool)
\* and of the daemon keeps: rows of any age show an outcome only of what is past
\* it, and the DELETEs under way on one VM agree about what they have read of it
\* and what is gone.
ConsoleInv ==
  /\ ConsoleTypeOK
  /\ NamesApart
  /\ OwnNames
  /\ FindsOwn
  /\ ShownInv
  /\ \A id \in VmIds : RecordsOwn(id)
  /\ HandlersInv
  /\ DeletedIsGone
=============================================================================
