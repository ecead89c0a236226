-------------------------- MODULE SessionRegistry ---------------------------
(***************************************************************************)
(* Server::sessions() lists the active sessions although the C server has  *)
(* no such list: at startup the Server puts its own activateSession and    *)
(* closeSession in the place of the access control plugin's                *)
(* (applySessionRegistry); they call the plugin's function and then, under *)
(* a lock, update a map (src/server.cpp).  Other threads may call          *)
(* sessions() between the two.  A C++ plugin is called through an adapter  *)
(* that turns an exception into a refusal (src/plugin/accesscontrol.cpp).  *)
(* The C server and its sessions are external.  An operator Bug... is a    *)
(* wrong version of the one that follows it.                               *)
(***************************************************************************)
EXTENDS Naturals, AccessControl

CONSTANTS
    Ids,        \* session identifiers
    Contexts,   \* what a plugin may set as a session's context
    Absent,     \* no session, no context
    AnyTime     \* TRUE: setAccessControl is called on a Server with sessions, too

ASSUME AbsentAssumption == Absent \notin Contexts \cup Plugins
ASSUME AnyTimeAssumption == AnyTime \in BOOLEAN

VARIABLES
    running,   \* external: the C server is started
    plugin,    \* the plugin in ServerConfig::accessControl
    wrapped,   \* its functions are those of the Server
    user,      \* SessionRegistry::activateSessionUser, closeSessionUser
    native,    \* external: the C server's sessions
    context,   \* external: their contexts
    sessions,  \* SessionRegistry::sessions
    invited,   \* has shown a token that entitles it (for the properties)
    call       \* the handler between the plugin's function and the map, if any

server == <<running, plugin, wrapped, user>>
clients == <<native, context, invited>>
vars == <<server, clients, sessions, call>>

Idle == [at |-> "idle"]
Calls == {Idle} \cup [at : {"insert", "erase"}, id : Ids]

TypeOK ==
    /\ running \in BOOLEAN
    /\ plugin \in Plugins
    /\ wrapped \in BOOLEAN
    /\ user \in Plugins \cup {Absent}
    /\ native \in [Ids -> {"none", "created", "active"}]
    /\ context \in [Ids -> Contexts \cup {Absent}]
    /\ sessions \in [Ids -> Contexts \cup {Absent}]
    /\ invited \in [Ids -> BOOLEAN]
    /\ call \in Calls

Init ==
    /\ running = FALSE
    /\ plugin \in Plugins
    /\ wrapped = FALSE
    /\ user = Absent
    /\ native = [i \in Ids |-> "none"]
    /\ context = [i \in Ids |-> Absent]
    /\ sessions = [i \in Ids |-> Absent]
    /\ invited = [i \in Ids |-> FALSE]
    /\ call = Idle

SetAccessControl(p) ==
    /\ call = Idle
    /\ AnyTime \/ (~running /\ \A i \in Ids : native[i] = "none")
    /\ plugin' = p
    /\ wrapped' = FALSE
    /\ UNCHANGED <<running, user, clients, sessions, call>>

BugApplySessionRegistry ==  \* once and for all
    /\ user' = IF user = Absent THEN plugin ELSE user
    /\ wrapped' = TRUE

\* The two functions are compared, stored and replaced together.
ApplySessionRegistry ==
    IF wrapped
    THEN UNCHANGED <<user, wrapped>>
    ELSE user' = plugin /\ wrapped' = TRUE

\* runStartup; UA_Server_run_startup may fail.
Startup ==
    /\ ~running /\ call = Idle
    /\ ApplySessionRegistry
    /\ running' \in BOOLEAN
    /\ UNCHANGED <<plugin, clients, sessions, call>>

Shutdown ==
    /\ running /\ call = Idle
    /\ running' = FALSE
    /\ UNCHANGED <<plugin, wrapped, user, clients, sessions, call>>

CreateSession(i) ==
    /\ running /\ call = Idle
    /\ native[i] = "none"
    /\ native' = [native EXCEPT ![i] = "created"]
    /\ context' = [context EXCEPT ![i] = Absent]
    /\ UNCHANGED <<server, invited, sessions, call>>

\* The plugin whose function the C server calls.
Called == IF wrapped THEN user ELSE plugin

\* The client of session i presents the identity token t; it may do so again, with
\* another identity.  An override that throws refuses: BadInternalError.  A plugin
\* that accepts may set a context, one that refuses leaves the C session as it was,
\* and only after the first does the Server's function go on to the map.
ActivateSession(i, t, c, throws) ==
    /\ running /\ call = Idle
    /\ native[i] # "none"
    /\ invited' = [invited EXCEPT ![i] = @ \/ Invited(plugin, t)]
    /\ IF ~throws /\ ActivateStatus(Called, t) = "good"
       THEN /\ native' = [native EXCEPT ![i] = "active"]
            /\ context' = [context EXCEPT ![i] = c]
            /\ call' = IF wrapped THEN [at |-> "insert", id |-> i] ELSE Idle
       ELSE UNCHANGED <<native, context, call>>
    /\ UNCHANGED <<server, sessions>>

BugInsert ==  \* does not assign to a session that is already known
    /\ call.at = "insert"
    /\ sessions' = IF sessions[call.id] = Absent
                   THEN [sessions EXCEPT ![call.id] = context[call.id]] ELSE sessions
    /\ call' = Idle
    /\ UNCHANGED <<server, clients>>

Insert ==
    /\ call.at = "insert"
    /\ sessions' = [sessions EXCEPT ![call.id] = context[call.id]]
    /\ call' = Idle
    /\ UNCHANGED <<server, clients>>

\* Sessions are closed by their client, by a timeout, by Session::close, or by the
\* destruction of the C server; also those that have never been active.
CloseSession(i) ==
    /\ call = Idle
    /\ native[i] # "none"
    /\ native' = [native EXCEPT ![i] = "none"]
    /\ context' = [context EXCEPT ![i] = Absent]
    /\ invited' = [invited EXCEPT ![i] = FALSE]
    /\ call' = IF wrapped THEN [at |-> "erase", id |-> i] ELSE Idle
    /\ UNCHANGED <<server, sessions>>

Erase ==
    /\ call.at = "erase"
    /\ sessions' = [sessions EXCEPT ![call.id] = Absent]
    /\ call' = Idle
    /\ UNCHANGED <<server, clients>>

Next ==
    \/ \E p \in Plugins : SetAccessControl(p)
    \/ Startup \/ Shutdown
    \/ \E i \in Ids : CreateSession(i) \/ CloseSession(i)
    \/ \E i \in Ids, t \in Tokens, c \in Contexts, throws \in BOOLEAN : ActivateSession(i, t, c, throws)
    \/ Insert \/ Erase

Spec == Init /\ [][Next]_vars

-----------------------------------------------------------------------------
Busy(i) == call # Idle /\ call.id = i

\* "Get active sessions": outside a handler of the session itself, sessions() lists
\* it exactly if it is active, and with the context that the C server has.
SessionsAreActive ==
    \A i \in Ids : Busy(i) \/ sessions[i] = IF native[i] = "active" THEN context[i] ELSE Absent

\* Whom sessions() lists has shown a token that entitles it to log in, at the plugin
\* that is configured: nobody comes in by a refused token, by an override that
\* throws, or through a plugin that was replaced.
Admitted == \A i \in Ids : sessions[i] # Absent => Busy(i) \/ invited[i]

\* The Server's functions hand on to the plugin that is configured, never to one
\* that was replaced, and never to themselves.
CallsThePlugin == wrapped => user = plugin

============================================================================
