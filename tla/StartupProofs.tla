---------------------------- MODULE StartupProofs ----------------------------
(***************************************************************************)
(* The sessions and the settings of Startup for every bound on the host's  *)
(* table, every supply of processes and any number of troubles.            *)
(***************************************************************************)
EXTENDS Startup, FiniteSetTheorems, TLAPS

\* What the host keeps: at most SessionCap sessions, of processes.
TableOK ==
  /\ sessions \subseteq Runs /\ IsFiniteSet(sessions)
  /\ Cardinality(sessions) <= SessionCap

LEMMA TableGrows ==
  ASSUME TableOK, NEW r \in Runs, Cardinality(sessions) < SessionCap,
         sessions' = sessions \cup {r}
  PROVE  TableOK'
<1>1. /\ IsFiniteSet(sessions \cup {r})
      /\ Cardinality(sessions \cup {r}) \in {Cardinality(sessions), Cardinality(sessions) + 1}
  BY FS_AddElement DEF TableOK
<1>2. Cardinality(sessions) \in Nat
  BY FS_CardinalityType DEF TableOK
<1> QED
  BY <1>1, <1>2, StartupAssumption DEF TableOK

LEMMA TableShrinks ==
  ASSUME TableOK, sessions' \subseteq sessions
  PROVE  TableOK'
<1>1. IsFiniteSet(sessions') /\ Cardinality(sessions') <= Cardinality(sessions)
  BY FS_Subset DEF TableOK
<1>2. Cardinality(sessions) \in Nat /\ Cardinality(sessions') \in Nat
  BY <1>1, FS_CardinalityType DEF TableOK
<1> QED
  BY <1>1, <1>2, StartupAssumption DEF TableOK

\* StartupTypeOK, with what the host keeps named.
StartupTypes ==
  /\ wrong \subseteq Settings
  /\ loaded \subseteq Settings
  /\ stage \in Stages
  /\ run \in Runs
  /\ about \in BOOLEAN
  /\ TableOK
  /\ ended \in [Runs -> Ends]
  /\ troubles \in 0..MaxTroubles

LEMMA TableStep ==
  ASSUME StartupTypes, [StartupNext]_startupVars
  PROVE  TableOK'
<1> USE DEF StartupTypes
<1>1. CASE \E r \in Runs : Cardinality(sessions) < SessionCap /\ sessions' = sessions \cup {r}
  BY <1>1, TableGrows
<1>2. CASE sessions' \subseteq sessions
  BY <1>2, TableShrinks
<1>3. CASE Login
  BY <1>1, <1>2, <1>3 DEF Login
<1> QED
  BY <1>2, <1>3
     DEF StartupNext, Starts, Trouble, Load, Lookup, Prepare, Close, Return, Restart,
         Reap, Correct, Drain, Kill, Expire, Misconfigure, startupVars

\* What a step that ends the process or goes on leaves in place.
LEMMA EndTypes ==
  ASSUME StartupTypes, NEW why \in Ends, End(why)
  PROVE  stage' \in Stages /\ about' \in BOOLEAN /\ ended' \in [Runs -> Ends]
  BY DEF StartupTypes, End, Stages

LEMMA GoOnTypes ==
  ASSUME stage \in DOMAIN After, GoOn
  PROVE  stage' \in Stages
  BY DEF GoOn, After, Stages

LEMMA TroubleTypes ==
  ASSUME StartupTypes, troubles > 0, troubles' = troubles - 1
  PROVE  troubles' \in 0..MaxTroubles
  BY StartupAssumption DEF StartupTypes

LEMMA TypesInductive ==
  ASSUME StartupTypes, [StartupNext]_startupVars
  PROVE  StartupTypes'
<1> USE DEF StartupTypes
<1>1. TableOK'
  BY TableStep
<1>2. Ends = {"none", "closed", "refused", "unresolved", "unanswered",
                "killed", "stranded"}
  BY DEF Ends
<1>3. DOMAIN After = {"load", "login", "lookup", "open", "pool", "render", "listen"}
  BY DEF After
<1>4. CASE Load
  BY <1>1, <1>2, <1>3, <1>4, EndTypes, GoOnTypes DEF Load
<1>5. CASE Login
  <2>1. UNCHANGED <<wrong, loaded, run>> /\ stage = "login"
    BY <1>5 DEF Login
  <2>2. CASE about' = TRUE /\ GoOn /\ UNCHANGED <<ended, troubles>>
    BY <1>1, <1>3, <2>1, <2>2, GoOnTypes
  <2>3. CASE End("refused") /\ UNCHANGED troubles
    BY <1>1, <1>2, <2>1, <2>3, EndTypes
  <2>4. CASE End("unanswered") /\ troubles > 0 /\ troubles' = troubles - 1
    BY <1>1, <1>2, <2>1, <2>4, EndTypes, TroubleTypes
  <2> QED
    BY <1>5, <2>2, <2>3, <2>4 DEF Login, LoginRefused
<1>6. CASE Lookup
  BY <1>1, <1>2, <1>3, <1>6, EndTypes, GoOnTypes DEF Lookup
<1>7. CASE Prepare
  BY <1>1, <1>2, <1>3, <1>7, EndTypes, GoOnTypes DEF Prepare, Close
<1>8. CASE Return
  BY <1>1, <1>2, <1>8, EndTypes DEF Return, Close
<1>9. CASE Restart \/ Reap \/ Correct
  BY <1>1, <1>2, <1>9 DEF Restart, Reap, Correct, Stages, After
<1>10. CASE Drain \/ Expire \/ Misconfigure
  BY <1>1, <1>10, TroubleTypes DEF Drain, Expire, Misconfigure, Stages
<1>11. CASE Kill
  BY <1>1, <1>2, <1>11, EndTypes, TroubleTypes DEF Kill
<1>12. CASE UNCHANGED startupVars
  BY <1>1, <1>12 DEF startupVars
<1> QED
  BY <1>4, <1>5, <1>6, <1>7, <1>8, <1>9, <1>10, <1>11, <1>12
     DEF StartupNext, Starts, Trouble

LEMMA InitTypes == StartupInit => StartupTypes
<1> SUFFICES ASSUME StartupInit
             PROVE  StartupTypes
  OBVIOUS
<1>1. TableOK
  BY StartupAssumption, FS_EmptySet DEF StartupInit, TableOK
<1>2. wrong \subseteq Settings
  BY DEF StartupInit
<1>3. stage \in Stages /\ ended \in [Runs -> Ends]
  BY DEF StartupInit, Stages, After, Ends
<1>4. loaded \subseteq Settings /\ run \in Runs /\ about \in BOOLEAN
  BY DEF StartupInit
<1>5. troubles \in 0..MaxTroubles
  BY StartupAssumption DEF StartupInit
<1> QED
  BY <1>1, <1>2, <1>3, <1>4, <1>5 DEF StartupTypes

LEMMA TypesHold == StartupSpec => []StartupTypes
<1>1. StartupTypes /\ [StartupNext]_startupVars => StartupTypes'
  BY TypesInductive
<1> QED
  BY <1>1, InitTypes, PTL DEF StartupSpec

\* Whatever the operator, the host and docker do, every variable stays in the
\* set its comment names, and the host's table within its bound.
THEOREM StartupTypeCorrect == StartupSpec => []StartupTypeOK
<1>1. StartupTypes => StartupTypeOK
  BY DEF StartupTypes, TableOK, StartupTypeOK
<1> QED
  BY <1>1, TypesHold, PTL

-----------------------------------------------------------------------------
(* The sessions.  A process that is under way has not come to any end, so  *)
(* what is known of how the last one with its name ended is forgotten.     *)

Underway == stage # "down" => ended[run] = "none"

LEMMA SessionStep ==
  ASSUME StartupTypes, Underway, SessionsAccounted, [StartupNext]_startupVars
  PROVE  Underway' /\ SessionsAccounted'
<1> USE DEF StartupTypes, TableOK, Underway, SessionsAccounted, Deferred, GoOn, End, After,
            Ends
<1>1. CASE Load
  BY <1>1 DEF Load
<1>2. CASE Login
  BY <1>2 DEF Login, LoginRefused
<1>3. CASE Lookup
  BY <1>3 DEF Lookup
<1>4. CASE Prepare
  BY <1>4 DEF Prepare, Close
<1>5. CASE Return
  BY <1>5 DEF Return, Close
<1>6. CASE Restart
  BY <1>6 DEF Restart
<1>7. CASE Reap \/ Correct
  BY <1>7 DEF Reap, Correct
<1>8. CASE Trouble
  BY <1>8 DEF Trouble, Drain, Kill, Expire, Misconfigure
<1>9. CASE UNCHANGED startupVars
  BY <1>9 DEF startupVars
<1> QED
  BY <1>1, <1>2, <1>3, <1>4, <1>5, <1>6, <1>7, <1>8, <1>9 DEF StartupNext, Starts

\* docs/TROUBLESHOOTING.md:36-39, "The fix is in the code": every session the
\* host keeps is that of the process under way, or of one that was killed, gave
\* up its login, did not resolve a reference, or whose Logout failed; no other
\* end leaks one.
THEOREM SessionsHaveAReason == StartupSpec => []SessionsAccounted
<1>1. StartupInit => Underway /\ SessionsAccounted
  BY DEF StartupInit, Underway, SessionsAccounted
<1>2. /\ StartupTypes /\ Underway /\ SessionsAccounted
      /\ [StartupNext]_startupVars
      => Underway' /\ SessionsAccounted'
  BY SessionStep
<1> QED
  BY <1>1, <1>2, TypesHold, PTL DEF StartupSpec

-----------------------------------------------------------------------------
(* The settings.                                                           *)

\* The calls that run() has behind it at each stage.
Behind == [load   |-> {},
           login  |-> {"load"},
           lookup |-> {"load", "login"},
           open   |-> {"load", "login", "lookup"},
           pool   |-> {"load", "login", "lookup", "open"},
           render |-> {"load", "login", "lookup", "open", "pool"},
           listen |-> {"load", "login", "lookup", "open", "pool", "render"},
           serving  |-> DOMAIN StumblesOver,
           draining |-> DOMAIN StumblesOver,
           down     |-> {}]

NotStumbled == \A call \in Behind[stage] : StumblesOver[call] \cap loaded = {}

LEMMA SettingStep ==
  ASSUME StartupTypes, NotStumbled, [StartupNext]_startupVars
  PROVE  NotStumbled'
<1> USE DEF NotStumbled, Behind
<1>1. CASE Load
  BY <1>1 DEF Load, GoOn, End, After, StumblesOver
<1>2. CASE Login \/ Lookup \/ Prepare
  <2>1. CASE stage' = "down"
    BY <2>1
  <2>2. CASE /\ stage \in {"login", "lookup", "open", "pool", "render", "listen"}
             /\ StumblesOver[stage] \cap loaded = {}
             /\ stage' = After[stage]
             /\ UNCHANGED loaded
    BY <2>2 DEF After, StumblesOver
  <2> QED
    BY <1>2, <2>1, <2>2 DEF Login, LoginRefused, Lookup, Prepare, Close, Stumbles, GoOn, End
<1>3. CASE Restart
  BY <1>3 DEF Restart
<1>4. CASE stage' = "down" \/ (UNCHANGED <<stage, loaded>>)
  BY <1>4
<1>5. CASE Drain
  BY <1>5 DEF Drain
<1> QED
  BY <1>1, <1>2, <1>3, <1>4, <1>5
     DEF StartupNext, Starts, Trouble, Return, Reap, Correct, Kill, Expire, Misconfigure,
         Close, End, startupVars

\* config.go:5-6, "we fail fast at startup": a daemon that serves has read no
\* wrong setting, of all that some call before the first request can reject.
THEOREM StartsFailFast == StartupSpec => []FailsFast
<1>1. StartupInit => NotStumbled
  BY DEF StartupInit, NotStumbled, Behind
<1>2. StartupTypes /\ NotStumbled /\ [StartupNext]_startupVars => NotStumbled'
  BY SettingStep
<1>3. StartupTypes /\ NotStumbled => FailsFast
  BY DEF StartupTypes, NotStumbled, Behind, StumblesOver, Settings, FailsFast
<1> QED
  BY <1>1, <1>2, <1>3, TypesHold, PTL DEF StartupSpec
=============================================================================
