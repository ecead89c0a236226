--------------------------- MODULE AccessControl ----------------------------
(***************************************************************************)
(* The login decision of AccessControlDefault                              *)
(* (src/plugin/accesscontrol_default.cpp): which identity tokens a plugin  *)
(* accepts, and with which status it answers the others.  A text is empty  *)
(* or some name; of a policy identifier only its prefix matters.  The      *)
(* plugin's other functions answer with fixed rights.                      *)
(***************************************************************************)
CONSTANTS
    Texts,    \* user names and passwords
    NoText,   \* the empty one
    Plugins   \* the access control plugins of an instance

ASSUME NoTextAssumption == NoText \in Texts

Logins == [username : Texts, password : Texts]

ASSUME PluginsAssumption == Plugins \subseteq [allowAnonymous : BOOLEAN, logins : SUBSET Logins]

Policies == {"anonymous", "username", "foreign", "none"}

\* What ActivateSession carries: nothing, an encoded body of an unknown type, a
\* certificate or an issued token, or one of the two kinds the plugin knows.
Tokens ==
    [kind : {"empty", "encoded", "other"}]
    \cup [kind : {"anonymous"}, policyId : Policies]
    \cup [kind : {"username"}, policyId : Policies, login : Logins]

BugActivateStatus(p, t) ==  \* does not compare the password
    CASE t.kind = "empty" -> IF p.allowAnonymous THEN "good" ELSE "token invalid"
      [] t.kind = "anonymous" ->
           IF p.allowAnonymous /\ t.policyId \in {"none", "anonymous"} THEN "good" ELSE "token invalid"
      [] t.kind = "username" ->
           IF t.policyId # "username" \/ t.login = [username |-> NoText, password |-> NoText]
           THEN "token invalid"
           ELSE IF \E l \in p.logins : l.username = t.login.username
                THEN "good" ELSE "access denied"
      [] OTHER -> "token invalid"

\* AccessControlDefault::activateSession, the status for plugin p and token t.
ActivateStatus(p, t) ==
    CASE t.kind = "empty" -> IF p.allowAnonymous THEN "good" ELSE "token invalid"
      [] t.kind = "anonymous" ->
           IF p.allowAnonymous /\ t.policyId \in {"none", "anonymous"} THEN "good" ELSE "token invalid"
      [] t.kind = "username" ->
           IF t.policyId # "username" \/ t.login = [username |-> NoText, password |-> NoText]
           THEN "token invalid"
           ELSE IF t.login \in p.logins THEN "good" ELSE "access denied"
      [] OTHER -> "token invalid"

\* "The log-in can be anonymous or username-password": who may log in.
Invited(p, t) ==
    \/ p.allowAnonymous /\ t.kind \in {"empty", "anonymous"}
    \/ t.kind = "username" /\ t.login \in p.logins
=============================================================================
