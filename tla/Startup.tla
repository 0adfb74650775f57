------------------------------ MODULE Startup -------------------------------
(***************************************************************************)
(* run() of cmd/vmaasd/main.go from config.Load to its return, with the    *)
(* session that esxi.New (internal/esxi/client.go) opens at the host, and  *)
(* around it what decides whether the daemon serves: the settings the      *)
(* operator gives, the host's table of sessions, docker's restarts.        *)
(*                                                                         *)
(* The host keeps a session until it is logged out or has been idle for    *)
(* long; it grants at most SessionCap of them to the daemon's user.  The   *)
(* requests of a serving daemon are the business of Lifecycle; all that    *)
(* counts here is whether a call of theirs could reach the host.           *)
(***************************************************************************)
EXTENDS Integers, FiniteSets

CONSTANTS
  Runs,        \* names for processes, given out again when nothing has them
  SessionCap,  \* "hostd defaults to ~30 sessions per user"
  MaxTroubles  \* how often the environment may interfere, see Trouble

ASSUME StartupAssumption ==
  /\ SessionCap \in Nat \ {0}
  /\ MaxTroubles \in Nat
  /\ IsFiniteSet(Runs) /\ Cardinality(Runs) > SessionCap

VARIABLES
  wrong,     \* the settings that are wrong as the operator left them
  loaded,    \* the wrong ones among those this process has read
  stage,     \* where run() is
  run,       \* this process
  about,     \* the process has the host's AboutInfo in its client
  sessions,  \* the processes the host keeps a session for
  ended,     \* how each process came to its end
  troubles   \* what is left of MaxTroubles

startupVars == <<wrong, loaded, stage, run, about, sessions, ended, troubles>>

Settings == {"required", "address", "prefix", "url", "password", "datastore",
             "folder", "gold", "path", "range", "keysfile", "port"}

\* Wrong on purpose: the error of cloudinit.New is logged and passed over.
StumblesLater == [
  load |-> {"required", "address", "prefix"}, login |-> {"url", "password"},
  lookup |-> {"datastore", "folder", "gold"}, open |-> {"path"},
  pool |-> {"range"}, render |-> {}, listen |-> {"port"}]

\* The settings a start can stumble over, by the call that does.
StumblesOver == [
  load    |-> {"required", "address", "prefix"},  \* config.Validate
  login   |-> {"url", "password"},                \* govmomi.NewClient
  lookup  |-> {"datastore", "folder", "gold"},    \* the finder calls of esxi.New
  open    |-> {"path"},                           \* store.Open
  pool    |-> {"range"},                          \* ipalloc.New: start <= end
  render  |-> {"keysfile"},                       \* cloudinit.New
  listen  |-> {"port"}]                           \* ListenAndServe

\* Wrong on purpose: run() gets to a place that is none.
AfterUnknown == [load |-> "login", login |-> "lookup", lookup |-> "open",
                 open |-> "pool", pool |-> "render", render |-> "listen",
                 listen |-> "healthy"]

\* The order of the calls in run().
After == [load |-> "login", login |-> "lookup", lookup |-> "open", open |-> "pool",
          pool |-> "render", render |-> "listen", listen |-> "serving"]

\* The stages at which `defer ex.Close` stands: esxi.New has returned a client.
Deferred == {"open", "pool", "render", "listen", "serving", "draining"}

Stages == DOMAIN After \cup {"serving", "draining", "down"}

Ends == {"none", "closed", "stranded", "refused", "unresolved", "unanswered",
         "killed"}

StartupTypeOK ==
  /\ wrong \subseteq Settings
  /\ loaded \subseteq Settings
  /\ stage \in Stages
  /\ run \in Runs
  /\ about \in BOOLEAN
  /\ sessions \subseteq Runs /\ Cardinality(sessions) <= SessionCap
  /\ ended \in [Runs -> Ends]
  /\ troubles \in 0..MaxTroubles

StartupInit ==
  /\ wrong \in {w \in SUBSET Settings : Cardinality(w) <= 1}
  /\ loaded = {}
  /\ stage = "load"
  /\ run \in Runs
  /\ about = FALSE
  /\ sessions = {}
  /\ ended = [r \in Runs |-> "none"]
  /\ troubles = MaxTroubles

Stumbles(s) == StumblesOver[s] \cap loaded # {}

GoOn == stage' = After[stage]

\* The process ends, for the reason why.
End(why) ==
  /\ stage' = "down"
  /\ ended' = [ended EXCEPT ![run] = why]
  /\ about' = FALSE

\* Wrong on purpose: run() returns without the deferred Close.
NeverCloses == End("closed") /\ UNCHANGED sessions

\* run() returns through the deferred Client.Close, which drops the error of
\* Logout: of an expired session it is none, and when the call fails the session
\* may stay at the host.
Close ==
  \/ End("closed") /\ sessions' = sessions \ {run}
  \/ End("stranded") /\ UNCHANGED sessions

-----------------------------------------------------------------------------
(* The calls of run() before it serves.                                    *)

\* config.Load reads the file once; what is edited later waits for a restart.
Load ==
  /\ stage = "load"
  /\ loaded' = wrong
  /\ IF StumblesOver.load \cap wrong = {}
     THEN GoOn /\ UNCHANGED <<about, ended>>
     ELSE End("refused")
  /\ UNCHANGED <<wrong, run, sessions, troubles>>

\* Wrong on purpose: the process tries again, with the settings it has read.
LoginRetried == UNCHANGED <<stage, ended, about>>

LoginRefused == End("refused")

\* govmomi.NewClient fetches the ServiceContent, AboutInfo included, and logs
\* in.  Within the 20 seconds the host may also grant a session whose reply is
\* late (a trouble): the client gives up and nobody logs out.
Login ==
  /\ stage = "login"
  /\ \/ /\ ~Stumbles("login") /\ Cardinality(sessions) < SessionCap
        /\ sessions' = sessions \cup {run}
        /\ about' = TRUE
        /\ GoOn
        /\ UNCHANGED <<ended, troubles>>
     \/ /\ Stumbles("login") \/ Cardinality(sessions) = SessionCap
        /\ LoginRefused
        /\ UNCHANGED <<sessions, troubles>>
     \/ /\ ~Stumbles("login") /\ Cardinality(sessions) < SessionCap
        /\ troubles > 0 /\ troubles' = troubles - 1
        /\ sessions' = sessions \cup {run}
        /\ End("unanswered")
  /\ UNCHANGED <<wrong, loaded, run>>

\* The references of esxi.New.  Its error returns leave the session open: main
\* gets no client to close.
Lookup ==
  /\ stage = "lookup"
  /\ IF Stumbles("lookup") THEN End("unresolved") ELSE GoOn /\ UNCHANGED <<about, ended>>
  /\ UNCHANGED <<wrong, loaded, run, sessions, troubles>>

\* The other calls: an error returns from run() through the deferred Close.
Prepare ==
  /\ stage \in {"open", "pool", "render", "listen"}
  /\ IF Stumbles(stage)
     THEN Close
     ELSE GoOn /\ UNCHANGED <<about, ended, sessions>>
  /\ UNCHANGED <<wrong, loaded, run, troubles>>

\* SIGTERM: no more requests ...
Drain ==
  /\ stage = "serving"
  /\ troubles > 0 /\ troubles' = troubles - 1
  /\ stage' = "draining"
  /\ UNCHANGED <<wrong, loaded, run, about, sessions, ended>>

\* ... and run() returns, once the handlers and the provisions are done.
Return ==
  /\ stage = "draining"
  /\ Close
  /\ UNCHANGED <<wrong, loaded, run, troubles>>

-----------------------------------------------------------------------------
(* The environment.                                                        *)

Kill ==
  /\ stage # "down"
  /\ troubles > 0 /\ troubles' = troubles - 1
  /\ End("killed")
  /\ UNCHANGED <<wrong, loaded, run, sessions>>

\* restart: unless-stopped, as a process the host knows nothing of.
Restart ==
  /\ stage = "down"
  /\ \E r \in Runs \ sessions :
       /\ run' = r
       /\ ended' = [ended EXCEPT ![r] = "none"]
  /\ stage' = "load"
  /\ loaded' = {}
  /\ UNCHANGED <<wrong, about, sessions, troubles>>

\* The host drops the session of a process that makes no more calls, or the
\* operator does (govc session.rm).
Reap ==
  /\ \E r \in sessions : (r # run \/ stage = "down") /\ sessions' = sessions \ {r}
  /\ UNCHANGED <<wrong, loaded, stage, run, about, ended, troubles>>

\* No request for long: the host drops the session of the daemon that serves.
\* session_keepalive_seconds is read and validated (config.go:37, 122) and no
\* code uses it.
Expire ==
  /\ stage \in {"serving", "draining"} /\ run \in sessions
  /\ troubles > 0 /\ troubles' = troubles - 1
  /\ sessions' = sessions \ {run}
  /\ UNCHANGED <<wrong, loaded, stage, run, about, ended>>

\* The operator breaks a setting (one at a time is enough: the first call that
\* stumbles ends the process), or puts it right.
Misconfigure ==
  /\ troubles > 0 /\ troubles' = troubles - 1
  /\ wrong = {}
  /\ \E s \in Settings : wrong' = {s}
  /\ UNCHANGED <<loaded, stage, run, about, sessions, ended>>

Correct ==
  /\ wrong # {} /\ wrong' = {}
  /\ UNCHANGED <<loaded, stage, run, about, sessions, ended, troubles>>

Starts == Load \/ Login \/ Lookup \/ Prepare

Trouble == Drain \/ Kill \/ Expire \/ Misconfigure

StartupNext == Starts \/ Return \/ Restart \/ Reap \/ Correct \/ Trouble

StartupSpec == StartupInit /\ [][StartupNext]_startupVars

\* run() goes on from call to call, docker restarts it, the host drops dead
\* sessions in time, and the operator reads the error message.
StartupFairSpec ==
  /\ StartupSpec
  /\ WF_startupVars(Starts)
  /\ WF_startupVars(Return)
  /\ WF_startupVars(Restart)
  /\ WF_startupVars(Reap)
  /\ WF_startupVars(Correct)

-----------------------------------------------------------------------------
(* Properties.                                                             *)

\* docs/TROUBLESHOOTING.md:36-39, "Crashing the backend without a clean shutdown
\* leaks a session every time.  The fix is in the code": whoever reads the
\* host's table finds behind each session the process that serves, or one of
\* four ends that leave one: killed, a login given up, an inventory reference
\* that did not resolve, a Logout that failed.  A process that left by its
\* deferred Close has none unless that call failed.
SessionsAccounted ==
  \A r \in sessions :
    \/ r = run /\ stage \in Deferred \cup {"lookup"}
    \/ ended[r] \in {"killed", "unanswered", "unresolved", "stranded"}

\* config.go:5-6, "we fail fast at startup rather than later, mid-request": who
\* serves has stumbled over none of the settings it read, whatever the operator
\* did to the file since.
FailsFast == stage \in {"serving", "draining"} => loaded = {}

\* Whatever goes wrong, a bounded number of times: in the end the settings are
\* right, dead sessions have made room, and a daemon serves for good.
ServesInTheEnd == <>[](stage = "serving")

\* handleHealth: 200 when the cached AboutInfo has a name.
Healthy == stage = "serving" /\ about

\* server.go:11, "/healthz  liveness + ESXi reachability": a green answer means
\* that a call of a request could reach the host.
HealthyIsReachable == Healthy => run \in sessions
=============================================================================
