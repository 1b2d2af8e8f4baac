---------------------------- MODULE AccessControl ----------------------------
(***************************************************************************)
(* Servers that bootstrap an administrator when they start, and requests   *)
(* that are authenticated, resolved to a principal, authorized and then    *)
(* handled, over the rows of AccessTables.                                 *)
(*                                                                         *)
(* A request makes several calls of the store and no transaction spans     *)
(* two of them: each call is an action, and what it read is remembered in  *)
(* the record of the request.                                              *)
(***************************************************************************)
EXTENDS AccessTables

CONSTANTS
    Server,       \* server processes on one database
    Request,      \* requests in progress
    Operation,    \* the operations requests ask for
    MaxArrivals   \* bound on the starts of servers and the requests sent, together

ASSUME BoundsAssumption == MaxArrivals \in Nat

VARIABLES
    server,      \* each server, and how far its bootstrap is
    request,     \* each request, and what it has read
    mislaid,     \* history: an act left no administrator with a token to use
    arrived      \* starts and requests so far

vars == <<store, server, request, mislaid, arrived>>

ServerAt == {"down", "look", "create", "issue", "assign", "print", "up"}
Down == [at |-> "down", todo |-> {}, p |-> None, t |-> None]

RequestAt == {"idle", "resolve", "match", "existing", "provision", "authorize", "run",
              "find_provider", "trust", "save", "roles", "unassign", "done"}
Free == [at |-> "idle", identity |-> None, op |-> None, who |-> None,
         rules |-> {}, seen |-> {}, todo |-> {}, found |-> {}, fresh |-> {}]

\* What an operation acts on; an operation "do"es one of these.
OperationType ==
    [do : {"write"}]
        \cup [do : {"create_principal"}, rule : Rule \cup {None},
              identity : Identity \cup {None}]
        \cup [do : {"assign", "unassign"}, p : Principal, role : Role]
        \cup [do : {"issue_token"}, p : Principal]
        \cup [do : {"revoke_token"}, t : Token]
        \cup [do : {"create_rule", "update_rule"}, r : Rule, aud : Audiences, enabled : BOOLEAN]
        \cup [do : {"delete_rule", "reconcile"}, r : Rule]
ASSUME OperationAssumption == Operation \subseteq OperationType

TypeOK ==
    /\ StoreTypeOK
    /\ server \in [Server -> [at : ServerAt, todo : SUBSET Principal,
                              p : Principal \cup {None}, t : Token \cup {None}]]
    /\ request \in [Request -> [at : RequestAt, identity : Identity \cup {None},
                                op : Operation \cup {None},
                                who : Principal \cup {None}, rules : SUBSET Rule,
                                seen : SUBSET Audiences, todo : SUBSET Principal,
                                found : SUBSET Principal, fresh : SUBSET Principal]]
    /\ mislaid \in BOOLEAN
    /\ arrived \in Nat

Administrators == {p \in Principal : AuthManager \in roles[p]}

\* An administrator has a token that somebody can use.
WayIn == \E p \in Administrators : \E t \in Token : token[t].of = p /\ token[t].is = "known"

\* The end of a token or a role of p, or of a bootstrap for p: remembered if nobody has
\* a way in afterwards.
Mislays(p) ==
    mislaid' = \/ mislaid
               \/ /\ p \in Administrators \/ \E s \in Server : server[s].p = p
                  /\ ~WayIn'

-----------------------------------------------------------------------------
(* EnsureBootstrapAdmin, as every server runs it when it starts.            *)

Step(s, at) == server' = [server EXCEPT ![s].at = at]

Arrives == arrived < MaxArrivals /\ arrived' = arrived + 1

(* ListPrincipals of hasAuthManager.                                         *)
Start(s) ==
    /\ server[s] = Down
    /\ Arrives
    /\ server' = [server EXCEPT ![s].at = "look",
                                ![s].todo = {p \in Principal : Exists(p)}]
    /\ UNCHANGED <<store, request, mislaid>>

\* Wrong on purpose: any principal of an earlier bootstrap will do.
IsAdministrator_Bootstrapped(p) == origin[p] = Bootstrapped

\* Wrong on purpose: an administrator without a usable token does not count.
IsAdministrator_Live(p) ==
    /\ AuthManager \in roles[p]
    /\ \E t \in Token : token[t].of = p /\ token[t].is # "ended"

(* The assignments of one principal.                                         *)
IsAdministrator(p) == AuthManager \in roles[p]

Look(s) ==
    /\ server[s].at = "look"
    /\ \/ \E p \in server[s].todo :
            server' = IF IsAdministrator(p)
                      THEN [server EXCEPT ![s] = [Down EXCEPT !.at = "up"]]
                      ELSE [server EXCEPT ![s].todo = @ \ {p}]
       \/ server[s].todo = {} /\ Step(s, "create")
    /\ UNCHANGED <<store, request, mislaid, arrived>>

BootstrapPrincipal(s) ==
    /\ server[s].at = "create"
    /\ \E p \in NewPrincipals :
        /\ CreatePrincipal(p, Bootstrapped)
        /\ server' = [server EXCEPT ![s].at = "issue", ![s].p = p]
    /\ UNCHANGED <<request, mislaid, arrived>>

BootstrapToken(s) ==
    /\ server[s].at = "issue"
    /\ \E t \in NewTokens :
        /\ IssueToken(t, server[s].p, "secret")
        /\ server' = [server EXCEPT ![s].at = "assign", ![s].t = t]
    /\ UNCHANGED <<request, mislaid, arrived>>

BootstrapRole(s) ==
    /\ server[s].at = "assign"
    /\ AssignRole(server[s].p, AuthManager)
    /\ Step(s, "print")
    /\ UNCHANGED <<request, mislaid, arrived>>

(* Printing makes the token known; the server then serves.                   *)
BootstrapPrint(s) ==
    /\ server[s].at = "print"
    /\ token' = [token EXCEPT ![server[s].t].is = IF @ = "secret" THEN "known" ELSE @]
    /\ server' = [server EXCEPT ![s] = [Down EXCEPT !.at = "up"]]
    /\ UNCHANGED <<origin, roles, link, policy, request, mislaid, arrived>>

(* A server stops, or a call of its start or the printing fails.  Its        *)
(* requests are interrupted on their own.                                    *)
Stop(s) ==
    /\ server[s].at # "down"
    /\ server' = [server EXCEPT ![s] = Down]
    /\ UNCHANGED <<store, request, arrived>>
    /\ IF server[s].at = "print" THEN Mislays(server[s].p) ELSE UNCHANGED mislaid

-----------------------------------------------------------------------------
(* The pipeline in front of every protected route.                          *)

Goto(q, at) == request' = [request EXCEPT ![q].at = at]
Return(q) == request' = [request EXCEPT ![q] = Free]

(* requireAction, as registerRoutes and registerAuthRoutes call it.          *)
Action(op) == IF op.do = "write" THEN "content.write" ELSE "auth.manage"

Receive(q, identity, op, at, who) ==
    /\ Arrives
    /\ request[q] = Free
    /\ \E s \in Server : server[s].at = "up"
    /\ request' = [request EXCEPT ![q] =
                      [Free EXCEPT !.at = at, !.identity = identity, !.op = op, !.who = who]]
    /\ UNCHANGED <<store, server, mislaid>>

(* The API-key authenticator; the identity of a token is linked to its owner *)
(* when it is issued.                                                        *)
AuthenticateToken(q, t, op) ==
    /\ Receive(q, None, op, "authorize", token[t].of)
    /\ token[t].is = "known"

(* The OIDC authenticator.                                                   *)
AuthenticateIdentity(q, i, op) ==
    /\ Receive(q, i, op, "resolve", None)
    /\ Audience[i] \in trust

\* The identity is resolved; what was read on the way is not needed again.
Authorizing(q, p) == [Free EXCEPT !.at = "authorize", !.op = request[q].op, !.who = p]

(* ResolveIdentity of the store.                                             *)
ResolveLink(q) ==
    /\ request[q].at = "resolve"
    /\ LET p == link[request[q].identity] IN
       \/ /\ p # None
          /\ request' = [request EXCEPT ![q] = Authorizing(q, p)]
       \/ p = None /\ Goto(q, "match")
    /\ UNCHANGED <<store, server, mislaid, arrived>>

(* managedMatch; without a match the caller is a transient principal.        *)
MatchRules(q) ==
    /\ request[q].at = "match"
    /\ LET matched == MatchingRules(request[q].identity) IN
       request' = [request EXCEPT ![q] =
           IF matched = {} THEN Authorizing(q, None)
           ELSE [@ EXCEPT !.at = "existing", !.rules = matched]]
    /\ UNCHANGED <<store, server, mislaid, arrived>>

ExistingRulePrincipal(q) ==
    /\ request[q].at = "existing"
    /\ LET found == RulePrincipals(request[q].identity, request[q].rules) IN
       \/ \E p \in found :
             request' = [request EXCEPT ![q] = Authorizing(q, p)]
       \/ found = {} /\ Goto(q, "provision")
    /\ UNCHANGED <<store, server, mislaid, arrived>>

\* Everybody who reads principals meanwhile may miss that p was granted its role.
WithFresh(p) == [o \in Request |-> IF request[o].at \in {"roles", "unassign", "done"}
                                  THEN [request[o] EXCEPT !.fresh = @ \cup {p}]
                                  ELSE request[o]]

(* The identity may have been linked since it was looked up: the store then  *)
(* refuses, or answers with the linked principal.                            *)
Provision(q) ==
    LET i == request[q].identity IN
    /\ request[q].at = "provision"
    /\ \/ \E p \in NewPrincipals, r \in request[q].rules :
             /\ ProvisionIdentity(p, i, r)
             /\ request' = [WithFresh(p) EXCEPT ![q] = Authorizing(q, p)]
       \/ /\ link[i] # None
          /\ \/ Return(q)
             \/ request' = [request EXCEPT ![q] = Authorizing(q, link[i])]
          /\ UNCHANGED store
    /\ UNCHANGED <<server, mislaid, arrived>>

(* Authorizer.Can: a transient principal holds no role.                      *)
Can(p, action) == p # None /\ Grants(p, action)

Authorize(q) ==
    /\ request[q].at = "authorize"
    /\ IF Can(request[q].who, Action(request[q].op))
       THEN request' = [request EXCEPT ![q].at = "run", ![q].who = None]
       ELSE Return(q)
    /\ UNCHANGED <<store, server, mislaid, arrived>>

(* The request is cancelled, its server stops, or a call fails.              *)
Interrupt(q) ==
    /\ request[q].at # "idle"
    /\ Return(q)
    /\ UNCHANGED <<store, server, mislaid, arrived>>

-----------------------------------------------------------------------------
(* The handlers.                                                            *)

Runs(q, do) == request[q].at = "run" /\ request[q].op.do = do
Rest == UNCHANGED <<server, arrived>>

(* A content write: what it changes is the subject of other modules.         *)
WriteContent(q) ==
    /\ Runs(q, "write")
    /\ Return(q)
    /\ UNCHANGED <<store, mislaid>> /\ Rest

\* The attributes of the request are stored as they are.
CreateOperatorPrincipal(q) ==
    LET op == request[q].op IN
    /\ Runs(q, "create_principal")
    /\ \E p \in NewPrincipals : CreatePrincipal(p, OperatorMade(op.rule, op.identity))
    /\ Return(q)
    /\ UNCHANGED mislaid /\ Rest

AssignPrincipalRole(q) ==
    LET op == request[q].op IN
    /\ Runs(q, "assign")
    /\ \/ AssignRole(op.p, op.role)
       \/ ~Exists(op.p) /\ UNCHANGED store
    /\ request' = [WithFresh(op.p) EXCEPT ![q] = Free]
    /\ UNCHANGED mislaid /\ Rest

(* Nothing keeps the last auth manager from being unassigned.                *)
UnassignPrincipalRole(q) ==
    LET op == request[q].op IN
    /\ Runs(q, "unassign")
    /\ \/ UnassignRole(op.p, op.role)
       \/ ~Exists(op.p) /\ UNCHANGED store
    /\ IF op.role = AuthManager THEN Mislays(op.p) ELSE UNCHANGED mislaid
    /\ Return(q) /\ Rest

(* The answer, and with it the only copy of the secret, may be lost.         *)
IssueAPIToken(q) ==
    LET op == request[q].op IN
    /\ Runs(q, "issue_token")
    /\ \/ Exists(op.p) /\ \E t \in NewTokens, is \in {"known", "secret"} : IssueToken(t, op.p, is)
       \/ ~Exists(op.p) /\ UNCHANGED store
    /\ Return(q)
    /\ UNCHANGED mislaid /\ Rest

RevokeAPIToken(q) ==
    LET op == request[q].op IN
    /\ Runs(q, "revoke_token")
    /\ \/ EndToken(op.t) /\ Mislays(token[op.t].of)
       \/ token[op.t] = NoToken /\ UNCHANGED <<store, mislaid>>
    /\ Return(q) /\ Rest

(* CreateOIDCProvisioningRule and UpdateOIDCProvisioningRule; only the       *)
(* second looks for the rule first.  Discovery of the provider has no effect *)
(* here.                                                                     *)
SaveRequested(q) ==
    LET op == request[q].op IN
    /\ Runs(q, "create_rule") \/ Runs(q, "update_rule")
    /\ IF op.do = "update_rule" /\ rule[op.r] = NoRule
       THEN Return(q)
       ELSE Goto(q, "find_provider")
    /\ UNCHANGED <<store, mislaid>> /\ Rest

FindProvider(q) ==
    /\ request[q].at = "find_provider"
    /\ request' = [request EXCEPT ![q].at = "trust", ![q].seen = trust]
    /\ UNCHANGED <<store, mislaid>> /\ Rest

(* Nothing keeps another save from reading or writing trust in between.      *)
TrustMerged(q) ==
    /\ request[q].at = "trust"
    /\ TrustProvider(request[q].seen, request[q].op.aud,
                     \E o \in Request \ {q} : request[o].at = "trust")
    /\ request' = [request EXCEPT ![q].at = "save", ![q].seen = {}]
    /\ UNCHANGED mislaid /\ Rest

SaveProvisioningRule(q) ==
    LET op == request[q].op
        exists == rule[op.r] # NoRule IN
    /\ request[q].at = "save"
    /\ \/ (op.do = "update_rule") = exists /\ SaveRule(op.r, op.aud, op.enabled)
       \/ (op.do = "update_rule") # exists /\ UNCHANGED store
    /\ Return(q)
    /\ UNCHANGED mislaid /\ Rest

DeleteOIDCProvisioningRule(q) ==
    LET op == request[q].op IN
    /\ Runs(q, "delete_rule")
    /\ \/ DeleteRule(op.r)
       \/ rule[op.r] = NoRule /\ UNCHANGED store
    /\ Return(q)
    /\ UNCHANGED mislaid /\ Rest

(* ReconcileOIDCProvisioningRule: the list of principals, then the roles of  *)
(* each of them, and only then the removals.  The principals that are        *)
(* skipped because another rule made them are left out of the list.          *)
ReconcileList(q) ==
    /\ Runs(q, "reconcile")
    /\ request' = [request EXCEPT ![q].at = "roles",
           ![q].todo = {p \in Principal : origin[p].rule = request[q].op.r}]
    /\ UNCHANGED <<store, mislaid>> /\ Rest

\* Wrong on purpose: the wrong role is looked for.
WritesContent_Manager(p) == AuthManager \in roles[p]

WritesContent(p) == ContentWriter \in roles[p]

ReconcileRead(q) ==
    /\ request[q].at = "roles"
    /\ \/ \E p \in request[q].todo :
             request' = [request EXCEPT
                 ![q].todo = @ \ {p},
                 ![q].found = IF WritesContent(p) THEN @ \cup {p} ELSE @]
       \/ request[q].todo = {} /\ Goto(q, "unassign")
    /\ UNCHANGED <<store, mislaid>> /\ Rest

ReconcileUnassign(q) ==
    /\ request[q].at = "unassign"
    /\ \/ \E p \in request[q].found :
             /\ UnassignRole(p, ContentWriter)
             /\ request' = [request EXCEPT ![q].found = @ \ {p}]
       \/ /\ request[q].found = {}
          /\ Goto(q, "done")
          /\ UNCHANGED store
    /\ UNCHANGED mislaid /\ Rest

(* The answer is sent.                                                       *)
Answer(q) ==
    /\ request[q].at = "done"
    /\ Return(q)
    /\ UNCHANGED <<store, mislaid>> /\ Rest

(* A token reaches its expiry.                                               *)
TokenExpires(t) ==
    /\ token[t].is \in {"secret", "known"}
    /\ EndToken(t)
    /\ Mislays(token[t].of)
    /\ UNCHANGED request /\ Rest

-----------------------------------------------------------------------------
FreshStore ==
    /\ origin = [p \in Principal |-> NoOrigin]
    /\ roles = [p \in Principal |-> {}]
    /\ token = [t \in Token |-> NoToken]
    /\ rule = [r \in Rule |-> NoRule]
    /\ trust = {}
    /\ server = [s \in Server |-> Down]
    /\ arrived = 0

(* A store some time later: p's token t of its bootstrap is known, rule r    *)
(* was saved with nobody else saving, and maybe an operator has made an auth *)
(* manager m with the attributes of that rule and identity i.                *)
Managed(p, m, t, s, r, i) ==
    /\ origin = [x \in Principal |-> CASE x = p -> Bootstrapped
                                       [] x = m -> OperatorMade(r, i)
                                       [] OTHER -> NoOrigin]
    /\ roles = [x \in Principal |-> IF x \in {p, m} THEN {AuthManager} ELSE {}]
    /\ token = [x \in Token |-> IF x = t THEN [of |-> p, is |-> "known"] ELSE NoToken]
    /\ rule = [x \in Rule |-> IF x = r THEN [aud |-> Audience[i], enabled |-> TRUE] ELSE NoRule]
    /\ trust = {Audience[i]}
    /\ server = [x \in Server |-> IF x = s THEN [Down EXCEPT !.at = "up"] ELSE Down]
    /\ arrived = 1

\* Which principals, token and identity they are makes no difference.
ManagedStore ==
    \E p, m \in Principal, t \in Token, s \in Server, r \in Rule, i \in Identity :
        /\ p = CHOOSE x \in Principal : TRUE
        /\ m \in {p, CHOOSE x \in Principal : x # p}
        /\ t = CHOOSE x \in Token : TRUE
        /\ i = CHOOSE x \in Identity : TRUE
        /\ Managed(p, m, t, s, r, i)

Init ==
    /\ FreshStore \/ ManagedStore
    /\ raced = {}
    /\ link = [i \in Identity |-> None]
    /\ request = [q \in Request |-> Free]
    /\ mislaid = FALSE

ServerStep(s) ==
    \/ Start(s) \/ Look(s) \/ Stop(s)
    \/ BootstrapPrincipal(s) \/ BootstrapToken(s) \/ BootstrapRole(s) \/ BootstrapPrint(s)

PipelineStep(q) ==
    \/ \E t \in Token, op \in Operation : AuthenticateToken(q, t, op)
    \/ \E i \in Identity, op \in Operation : AuthenticateIdentity(q, i, op)
    \/ ResolveLink(q) \/ MatchRules(q) \/ ExistingRulePrincipal(q) \/ Provision(q)
    \/ Authorize(q) \/ Interrupt(q)

HandlerStep(q) ==
    \/ WriteContent(q) \/ CreateOperatorPrincipal(q)
    \/ AssignPrincipalRole(q) \/ UnassignPrincipalRole(q)
    \/ IssueAPIToken(q) \/ RevokeAPIToken(q)
    \/ SaveRequested(q) \/ FindProvider(q) \/ TrustMerged(q) \/ SaveProvisioningRule(q)
    \/ DeleteOIDCProvisioningRule(q)
    \/ ReconcileList(q) \/ ReconcileRead(q) \/ ReconcileUnassign(q) \/ Answer(q)

Next ==
    \/ \E s \in Server : ServerStep(s)
    \/ \E q \in Request : PipelineStep(q) \/ HandlerStep(q)
    \/ \E t \in Token : TokenExpires(t)

Spec == Init /\ [][Next]_vars

-----------------------------------------------------------------------------
\* A server serves only when an administrator has a token in hand, or is being printed
\* one: however the bootstraps of several servers interleave, wherever they stop or
\* fail, with rules and principals coming and going.  Excused: since an act that took
\* the last such token, by expiry, revocation, removal of the role or a start that
\* ended before it printed (EnsureBootstrapAdmin).
AdministratorReachable ==
    (\E s \in Server : server[s].at = "up") =>
        \/ WayIn
        \/ \E s \in Server : server[s].at = "print"
        \/ mislaid

\* An identity that is linked to an administrator, or would be matched by the rules with
\* one whose attributes name its subject.
Claims(i, rules) == link[i] \in Administrators \/ RulePrincipals(i, rules) \cap Administrators # {}

\* An administrator exists but nobody can act as one: no token, no identity whose
\* audience is trusted, no call in progress, no bootstrap that saw none.
LockedOut ==
    /\ Administrators # {}
    /\ ~WayIn
    /\ \A i \in Identity : Audience[i] \in trust => ~Claims(i, MatchingRules(i))
    /\ \A q \in Request :
          \/ request[q].at = "idle"
          \/ /\ request[q].at \in {"resolve", "match", "existing", "provision"}
             /\ ~Claims(request[q].identity, MatchingRules(request[q].identity))
             /\ ~Claims(request[q].identity, request[q].rules)
          \/ request[q].at = "authorize" /\ request[q].who \notin Administrators
          \/ request[q].op.do = "write"
    /\ \A s \in Server :
          \/ server[s].at \in {"down", "up"}
          \/ server[s].at = "look" /\ server[s].todo \cap Administrators # {}

\* manage-auth.md, "Recover when the auth-manager is locked out": once no token and no
\* identity leads to an administrator there is no in-band path back in.  No restart,
\* expiry, first request of another identity, rule read before it was deleted or call in
\* progress ends a lockout (hasAuthManager, Authorizer.Can, existingRulePrincipal).
LockoutIsFinal == [][LockedOut => LockedOut']_vars

\* The audience of a rule is trusted, so that tokens the rule is meant for are verified
\* at all, unless its own last save overlapped another one between reading and writing
\* trust: nobody else's saves take it away, and saving the rule again alone mends it
\* (trustProvider).
TrustIsLostOnlyToRaces == \A r \in Rule : rule[r] # NoRule => rule[r].aud \in trust \cup raced

\* Two first requests of one identity that both find it unknown make one principal
\* (ResolveIdentity looks and provisions in separate calls).
OnePrincipalPerIdentity ==
    \A p, q \in Principal :
        /\ origin[p].by = "rule" /\ origin[q].by = "rule"
        /\ origin[p].identity = origin[q].identity
        => p = q

\* A reconciliation that answers has taken content-writer from every principal its rule
\* ever made, except those that were granted the role while it ran: none is lost between
\* its list, its reading of roles and its removals (oidcProvisioningRuleReconciliation).
ReconciliationRevokes ==
    \A q \in Request : request[q].at = "done" =>
        \A p \in Principal :
            origin[p].rule = request[q].op.r /\ ContentWriter \in roles[p] =>
                p \in request[q].fresh

-----------------------------------------------------------------------------
(* Why the safety properties hold: an inductive strengthening of them.      *)

\* A request is only where its operation leads.
RequestsFit ==
    \A q \in Request : request[q].at # "idle" =>
        /\ request[q].op \in Operation
        /\ request[q].at \in {"resolve", "match", "existing", "provision"} =>
              request[q].identity \in Identity
        /\ request[q].at \in {"find_provider", "trust", "save"} =>
              request[q].op.do \in {"create_rule", "update_rule"}
        /\ request[q].at \in {"roles", "unassign", "done"} => request[q].op.do = "reconcile"

\* Roles are assigned to principals that exist (the foreign key of the assignments).
RolesBelong == \A p \in Principal : roles[p] # {} => Exists(p)

\* An identity is linked to the one principal that was provisioned for it.
LinksAgree ==
    /\ \A i \in Identity : link[i] # None => origin[link[i]].by = "rule"
    /\ \A p \in Principal : origin[p].by = "rule" => link[origin[p].identity] = p

\* What a save has read of trust is what is trusted, and what another one has read, but
\* for audiences that were saved meanwhile: those have raced.
TrustIsMerged ==
    /\ \A q \in Request : request[q].at = "trust" =>
          /\ trust \subseteq request[q].seen \cup raced
          /\ request[q].seen \subseteq trust \cup raced
          /\ \A o \in Request : request[o].at = "trust" =>
                request[q].seen \subseteq request[o].seen \cup raced
    /\ \A q \in Request : request[q].at = "save" => request[q].op.aud \in trust \cup raced
    /\ TrustIsLostOnlyToRaces

\* What a bootstrap has created so far is still there, unless there is another way in or
\* somebody ended it.
BootstrapsKnow ==
    \A s \in Server :
        /\ server[s].at \in {"issue", "assign", "print"} =>
              server[s].p \in Principal /\ Exists(server[s].p)
        /\ server[s].at \in {"assign", "print"} =>
              /\ server[s].t \in Token
              /\ token[server[s].t].of = server[s].p
              /\ token[server[s].t].is # "ended" \/ WayIn \/ mislaid
        /\ server[s].at = "print" => server[s].p \in Administrators \/ WayIn \/ mislaid

\* Once there was an administrator there is one, with a token or just being printed one.
AdministratorsStay ==
    \/ mislaid
    \/ /\ \/ \E s \in Server : server[s].at = "up"
          \/ \E q \in Request : request[q].at = "run" /\ request[q].op.do # "write"
          => Administrators # {}
       /\ Administrators # {} => WayIn \/ \E s \in Server : server[s].at = "print"

\* A reconciliation has yet to look at, has found, or was overtaken by, every principal
\* of its rule that writes content.
ReconciliationsKnow ==
    \A q \in Request : request[q].at \in {"roles", "unassign", "done"} =>
        \A p \in Principal : origin[p].rule = request[q].op.r /\ ContentWriter \in roles[p] =>
            \/ p \in request[q].fresh
            \/ p \in request[q].found /\ request[q].at # "done"
            \/ p \in request[q].todo /\ request[q].at = "roles"

Inductive ==
    /\ TypeOK
    /\ RequestsFit
    /\ RolesBelong
    /\ LinksAgree
    /\ TrustIsMerged
    /\ BootstrapsKnow
    /\ AdministratorsStay
    /\ ReconciliationsKnow
=============================================================================
