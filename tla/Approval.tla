------------------------------ MODULE Approval ------------------------------
(***************************************************************************)
(* What the permission layer promises, without saying how: every question  *)
(* a tool asks gets at most one verdict, a verdict of "allow" always rests *)
(* on something a person (or the owner of a headless run) has said, and    *)
(* refusing is always possible.  The service of                            *)
(* internal/permission/permission.go, with its pending map, channels,      *)
(* timers and broker, is shown to implement this in Permission.tla.        *)
(***************************************************************************)
CONSTANTS
    Requests,   \* calls of permissionService.Request, one id each
    Scopes,     \* the (tool, action, session, path) quadruples an approval is matched on
    Sessions,   \* conversations
    ScopeOf,    \* request -> its scope
    SessionOf,  \* scope -> its session
    Headless    \* sessions of `svpc -p`, which their owner trusts as a whole

VARIABLES
    said,       \* every answer given so far: which request, and what was answered
    verdict     \* what each call of Request returned, "none" until it has

Kinds == {"allow", "allow_session", "trust", "deny"}
Answers == [req : Requests, kind : Kinds]

(***************************************************************************)
(* The grounds a request may be allowed on.  allow_session covers the      *)
(* scope of the request it answered, trust (the embedding API's            *)
(* AllowSession) its whole session.                                        *)
(***************************************************************************)
Authorised(r) ==
    \/ SessionOf[ScopeOf[r]] \in Headless
    \/ \E a \in said :
          \/ a.req = r /\ a.kind # "deny"
          \/ a.kind = "allow_session" /\ ScopeOf[a.req] = ScopeOf[r]
          \/ a.kind = "trust" /\ SessionOf[ScopeOf[a.req]] = SessionOf[ScopeOf[r]]

Init ==
    /\ said = {}
    /\ verdict = [r \in Requests |-> "none"]

Say(a) ==
    /\ said' = said \cup {a}
    /\ UNCHANGED verdict

Allow(r) ==
    /\ verdict[r] = "none"
    /\ Authorised(r)
    /\ verdict' = [verdict EXCEPT ![r] = "allow"]
    /\ UNCHANGED said

Refuse(r) ==
    /\ verdict[r] = "none"
    /\ verdict' = [verdict EXCEPT ![r] = "deny"]
    /\ UNCHANGED said

Next ==
    \/ \E a \in Answers : Say(a)
    \/ \E r \in Requests : Allow(r) \/ Refuse(r)

Spec == Init /\ [][Next]_<<said, verdict>>
=============================================================================
