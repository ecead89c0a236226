----------------------- MODULE SessionRegistry_proof ------------------------
(***************************************************************************)
(* Proofs about SessionRegistry, for any sets of sessions, contexts and    *)
(* plugins.  That sessions() is right needs more than itself: a session    *)
(* only exists behind functions that are in place (Wrapping), and a        *)
(* handler that has yet to update the map finds the session as the C       *)
(* server left it (CallInv).                                               *)
(***************************************************************************)
EXTENDS SessionRegistry, TLAPS

\* The variables have their types: the handlers and the startup keep them.
THEOREM TypeCorrect == Spec => []TypeOK
<1>1. Init => TypeOK
  BY DEF Init, TypeOK, Calls, Idle
<1>2. TypeOK /\ [Next]_vars => TypeOK'
  <2> SUFFICES ASSUME TypeOK, [Next]_vars PROVE TypeOK'
    OBVIOUS
  <2> USE DEF TypeOK, Calls, Idle
  <2>1. ASSUME NEW p \in Plugins, SetAccessControl(p) PROVE TypeOK'
    BY <2>1 DEF SetAccessControl, server, clients
  <2>2. CASE Startup
    BY <2>2 DEF Startup, ApplySessionRegistry, clients
  <2>3. CASE Shutdown
    BY <2>3 DEF Shutdown, server, clients
  <2>4. ASSUME NEW i \in Ids, CreateSession(i) PROVE TypeOK'
    BY <2>4 DEF CreateSession, server
  <2>5. ASSUME NEW i \in Ids, CloseSession(i) PROVE TypeOK'
    BY <2>5 DEF CloseSession, server
  <2>6. ASSUME NEW i \in Ids, NEW t \in Tokens, NEW c \in Contexts, NEW e \in BOOLEAN,
                    ActivateSession(i, t, c, e) PROVE TypeOK'
    BY <2>6 DEF ActivateSession, server
  <2>7. CASE Insert
    BY <2>7 DEF Insert, server, clients
  <2>8. CASE Erase
    BY <2>8 DEF Erase, server, clients
  <2>9. CASE UNCHANGED vars
    BY <2>9 DEF vars, server, clients
  <2> QED BY <2>1, <2>2, <2>3, <2>4, <2>5, <2>6, <2>7, <2>8, <2>9 DEF Next
<1> QED BY <1>1, <1>2, PTL DEF Spec

\* The Server's activateSession and closeSession always call the functions of the
\* plugin that is configured: applySessionRegistry stores what it replaces.
THEOREM CallsThePluginCorrect == Spec => []CallsThePlugin
<1>1. Init => CallsThePlugin
  BY DEF Init, CallsThePlugin
<1>2. CallsThePlugin /\ [Next]_vars => CallsThePlugin'
  BY DEF CallsThePlugin, Next, vars, server, clients, SetAccessControl, Startup, ApplySessionRegistry,
         Shutdown, CreateSession, CloseSession, ActivateSession, Insert, Erase
<1> QED BY <1>1, <1>2, PTL DEF Spec

-----------------------------------------------------------------------------
Wrapping ==
    /\ running => wrapped
    /\ \A i \in Ids : native[i] # "none" => wrapped

CallInv ==
    /\ call.at = "insert" => native[call.id] = "active"
    /\ call.at = "erase" => native[call.id] = "none"

RegistryInv == TypeOK /\ Wrapping /\ CallInv /\ SessionsAreActive

LEMMA RegistryInvInit == Init => RegistryInv
<1> SUFFICES ASSUME Init PROVE RegistryInv
  OBVIOUS
<1>1. TypeOK
  BY DEF Init, TypeOK, Calls, Idle
<1>2. Wrapping /\ CallInv
  BY DEF Init, Wrapping, CallInv, Idle
<1>3. SessionsAreActive
  BY DEF Init, SessionsAreActive
<1> QED BY <1>1, <1>2, <1>3 DEF RegistryInv

LEMMA RegistryInvNext ==
    ASSUME AnyTime = FALSE, RegistryInv, TypeOK', [Next]_vars PROVE RegistryInv'
<1> USE DEF RegistryInv, Wrapping, CallInv, SessionsAreActive, Busy, TypeOK, Calls, Idle
<1>1. ASSUME NEW p \in Plugins, SetAccessControl(p) PROVE RegistryInv'
  BY <1>1 DEF SetAccessControl, server, clients
<1>2. CASE Startup
  BY <1>2 DEF Startup, ApplySessionRegistry, clients
<1>3. CASE Shutdown
  BY <1>3 DEF Shutdown, server, clients
<1>4. ASSUME NEW i \in Ids, CreateSession(i) PROVE RegistryInv'
  BY <1>4 DEF CreateSession, server
<1>5. ASSUME NEW i \in Ids, CloseSession(i) PROVE RegistryInv'
  BY <1>5 DEF CloseSession, server
<1>6. ASSUME NEW i \in Ids, NEW t \in Tokens, NEW c \in Contexts, NEW e \in BOOLEAN,
                    ActivateSession(i, t, c, e) PROVE RegistryInv'
  BY <1>6 DEF ActivateSession, server
<1>7. CASE Insert
  BY <1>7 DEF Insert, server, clients
<1>8. CASE Erase
  BY <1>8 DEF Erase, server, clients
<1>9. CASE UNCHANGED vars
  BY <1>9 DEF vars, server, clients
<1> QED BY <1>1, <1>2, <1>3, <1>4, <1>5, <1>6, <1>7, <1>8, <1>9 DEF Next

\* sessions() lists exactly the active sessions, with the contexts of the C server,
\* if the access control is not replaced while the C server has sessions.
THEOREM SessionsAreActiveCorrect ==
    ASSUME AnyTime = FALSE PROVE Spec => []SessionsAreActive
<1>1. Init => RegistryInv
  BY RegistryInvInit
<1>2. RegistryInv /\ TypeOK' /\ [Next]_vars => RegistryInv'
  BY RegistryInvNext
<1>3. RegistryInv => SessionsAreActive
  BY DEF RegistryInv
<1> QED BY <1>1, <1>2, <1>3, TypeCorrect, PTL DEF Spec

-----------------------------------------------------------------------------
\* AccessControlDefault accepts a token only from those who may log in.
LEMMA AcceptsTheInvited ==
    ASSUME NEW p \in Plugins, NEW t \in Tokens, ActivateStatus(p, t) = "good"
    PROVE Invited(p, t)
<1>1. CASE t.kind \in {"empty", "anonymous"}
  BY <1>1 DEF ActivateStatus, Invited
<1>2. CASE t.kind = "username"
  BY <1>2 DEF ActivateStatus, Invited
<1>3. CASE t.kind \in {"encoded", "other"}
  BY <1>3 DEF ActivateStatus
<1> QED BY <1>1, <1>2, <1>3 DEF Tokens

ActiveAreInvited == \A i \in Ids : native[i] = "active" => invited[i]

LEMMA ActiveAreInvitedNext ==
    ASSUME TypeOK, CallsThePlugin, ActiveAreInvited, [Next]_vars PROVE ActiveAreInvited'
<1> USE DEF ActiveAreInvited, TypeOK
<1>1. ASSUME NEW i \in Ids, NEW t \in Tokens, NEW c \in Contexts, NEW e \in BOOLEAN,
             ActivateSession(i, t, c, e) PROVE ActiveAreInvited'
  <2>1. Called = plugin
    BY DEF Called, CallsThePlugin
  <2>2. native'[i] = "active" => invited'[i]
    <3>1. CASE ~e /\ ActivateStatus(Called, t) = "good"
      BY <1>1, <2>1, <3>1, AcceptsTheInvited DEF ActivateSession
    <3>2. CASE ~(~e /\ ActivateStatus(Called, t) = "good")
      BY <1>1, <3>2 DEF ActivateSession
    <3> QED BY <3>1, <3>2
  <2>3. \A j \in Ids \ {i} : native'[j] = native[j] /\ invited'[j] = invited[j]
    BY <1>1 DEF ActivateSession
  <2> QED BY <2>2, <2>3
<1>2. ASSUME NEW i \in Ids, CreateSession(i) PROVE ActiveAreInvited'
  BY <1>2 DEF CreateSession
<1>3. ASSUME NEW i \in Ids, CloseSession(i) PROVE ActiveAreInvited'
  BY <1>3 DEF CloseSession
<1>4. ASSUME UNCHANGED clients PROVE ActiveAreInvited'
  BY <1>4 DEF clients
<1>5. (\E p \in Plugins : SetAccessControl(p)) \/ Startup \/ Shutdown \/ Insert \/ Erase
      \/ UNCHANGED vars => UNCHANGED clients
  BY DEF SetAccessControl, Startup, Shutdown, Insert, Erase, vars, clients
<1> QED BY <1>1, <1>2, <1>3, <1>4, <1>5 DEF Next

\* Whom sessions() lists has shown a token that entitles it to log in at the plugin
\* that is configured, if that is not replaced while the C server has sessions.
THEOREM AdmittedCorrect ==
    ASSUME AnyTime = FALSE PROVE Spec => []Admitted
<1>1. Init => RegistryInv /\ CallsThePlugin /\ ActiveAreInvited
  BY RegistryInvInit DEF Init, CallsThePlugin, ActiveAreInvited
<1>2. RegistryInv /\ TypeOK' /\ [Next]_vars => RegistryInv'
  BY RegistryInvNext
<1>3. TypeOK /\ CallsThePlugin /\ ActiveAreInvited /\ [Next]_vars => ActiveAreInvited'
  BY ActiveAreInvitedNext
<1>4. RegistryInv /\ ActiveAreInvited => Admitted
  BY AbsentAssumption DEF RegistryInv, SessionsAreActive, ActiveAreInvited, Admitted
<1> QED BY <1>1, <1>2, <1>3, <1>4, TypeCorrect, CallsThePluginCorrect, PTL DEF Spec
=============================================================================
