------------------------- MODULE AccessControlProofs -------------------------
(***************************************************************************)
(* Proofs about AccessControl for every set of principals, tokens,         *)
(* identities, rules, servers and requests, and every set of operations.   *)
(***************************************************************************)
EXTENDS AccessControl, TLAPS

-----------------------------------------------------------------------------
(* What one step can do to the rows.                                        *)

\* What an operation names has its type.
LEMMA OperationTypes ==
    ASSUME NEW op \in Operation
    PROVE  /\ op.do \in {"assign", "unassign"} => op.p \in Principal /\ op.role \in Role
           /\ op.do = "create_principal" =>
                 op.rule \in Rule \cup {None} /\ op.identity \in Identity \cup {None}
           /\ op.do = "issue_token" => op.p \in Principal
           /\ op.do = "revoke_token" => op.t \in Token
           /\ op.do \in {"create_rule", "update_rule"} =>
                 op.r \in Rule /\ op.aud \in Audiences /\ op.enabled \in BOOLEAN
           /\ op.do \in {"delete_rule", "reconcile"} => op.r \in Rule
<1>1. op \in OperationType
  BY OperationAssumption
<1> QED BY <1>1 DEF OperationType

\* An administrator, or what a bootstrap made.
Concerns(p) == p \in Administrators \/ \E s \in Server : server[s].p = p

\* Taking something from p does not go unnoticed.
Noticed(p) == Concerns(p) => WayIn' \/ mislaid'

\* One call of the store; mislaid remembers what it takes from administrators.
StoreStep ==
    \/ UNCHANGED store
    \/ \E p \in Principal, made \in MadeOrigins : CreatePrincipal(p, made)
    \/ \E p \in Principal, role \in Role :
          AssignRole(p, role) \/ (UnassignRole(p, role) /\ (role = AuthManager => Noticed(p)))
    \/ \E t \in Token, p \in Principal, is \in {"known", "secret"} : Exists(p) /\ IssueToken(t, p, is)
    \/ \E t \in Token : EndToken(t) /\ Noticed(token[t].of)
    \/ \E t \in Token : /\ token' = [token EXCEPT ![t].is = IF @ = "secret" THEN "known" ELSE @]
                        /\ UNCHANGED <<origin, roles, link, policy>>
    \/ \E r \in Rule, aud \in Audiences, enabled \in BOOLEAN : SaveRule(r, aud, enabled)
    \/ \E r \in Rule : DeleteRule(r)
    \/ \E seen \in SUBSET Audiences, aud \in Audiences, overlapped \in BOOLEAN :
          TrustProvider(seen, aud, overlapped)
    \/ \E p \in Principal, i \in Identity, r \in Rule : ProvisionIdentity(p, i, r)

\* What is mislaid stays so, and what an act takes from somebody it concerns is noticed.
LEMMA MislaidIsNoticed ==
    ASSUME NEW p, Mislays(p)
    PROVE  Noticed(p) /\ (mislaid => mislaid')
BY DEF Mislays, Noticed, Concerns

\* Every step of a server is one, and touches no rule, link or trust.
LEMMA ServersMakeStoreSteps ==
    ASSUME Inductive, NEW s \in Server, ServerStep(s)
    PROVE  StoreStep
<1> USE DEF StoreStep
<1>1. TypeOK /\ BootstrapsKnow
  BY DEF Inductive
<1>2. CASE Start(s) \/ Look(s) \/ Stop(s)
  BY <1>2 DEF Start, Look, Stop
<1>3. CASE BootstrapPrincipal(s)
  BY <1>3 DEF BootstrapPrincipal, NewPrincipals, MadeOrigins
<1>4. CASE BootstrapToken(s)
  BY <1>1, <1>4 DEF BootstrapToken, BootstrapsKnow, NewTokens
<1>5. CASE BootstrapRole(s)
  BY <1>1, <1>5 DEF BootstrapRole, BootstrapsKnow, Role
<1>6. CASE BootstrapPrint(s)
  BY <1>1, <1>6 DEF BootstrapPrint, BootstrapsKnow
<1> QED BY <1>2, <1>3, <1>4, <1>5, <1>6 DEF ServerStep

LEMMA RequestsMakeStoreSteps ==
    ASSUME Inductive, NEW q \in Request, PipelineStep(q) \/ HandlerStep(q)
    PROVE  StoreStep
<1> USE DEF StoreStep
<1> DEFINE op == request[q].op
<1>1. TypeOK /\ RequestsFit
  BY DEF Inductive
<1>2. request[q].at # "idle" => op \in Operation
  BY <1>1 DEF RequestsFit
<1>3. CASE \/ \E t \in Token, o \in Operation : AuthenticateToken(q, t, o)
           \/ \E i \in Identity, o \in Operation : AuthenticateIdentity(q, i, o)
           \/ ResolveLink(q) \/ MatchRules(q) \/ ExistingRulePrincipal(q)
           \/ Authorize(q) \/ Interrupt(q)
  BY <1>3 DEF AuthenticateToken, AuthenticateIdentity, Receive, ResolveLink, MatchRules,
     ExistingRulePrincipal, Authorize, Interrupt
<1>4. CASE Provision(q)
  <2>1. request[q].identity \in Identity /\ request[q].rules \subseteq Rule
    BY <1>1, <1>4 DEF Provision, RequestsFit, TypeOK
  <2> QED BY <1>4, <2>1 DEF Provision, NewPrincipals
<1>5. CASE \/ WriteContent(q) \/ SaveRequested(q) \/ FindProvider(q)
           \/ ReconcileList(q) \/ ReconcileRead(q) \/ Answer(q)
  BY <1>5 DEF WriteContent, SaveRequested, FindProvider, ReconcileList, ReconcileRead, Answer
<1>6. CASE CreateOperatorPrincipal(q)
  <2>1. OperatorMade(op.rule, op.identity) \in MadeOrigins
    BY <1>2, <1>6, OperationTypes DEF CreateOperatorPrincipal, Runs, MadeOrigins
  <2> QED BY <1>6, <2>1 DEF CreateOperatorPrincipal, NewPrincipals
<1>7. CASE AssignPrincipalRole(q)
  BY <1>2, <1>7, OperationTypes DEF AssignPrincipalRole, Runs
<1>14. CASE UnassignPrincipalRole(q)
  <2>1. op.p \in Principal /\ op.role \in Role
    BY <1>2, <1>14, OperationTypes DEF UnassignPrincipalRole, Runs
  <2>2. op.role = AuthManager => Noticed(op.p)
    BY <1>14, MislaidIsNoticed DEF UnassignPrincipalRole
  <2> QED BY <1>14, <2>1, <2>2 DEF UnassignPrincipalRole
<1>8. CASE IssueAPIToken(q)
  BY <1>2, <1>8, OperationTypes DEF IssueAPIToken, Runs, NewTokens
<1>9. CASE RevokeAPIToken(q)
  BY <1>2, <1>9, OperationTypes, MislaidIsNoticed DEF RevokeAPIToken, Runs
<1>10. CASE TrustMerged(q)
  <2>1. op.aud \in Audiences /\ request[q].seen \in SUBSET Audiences
    BY <1>1, <1>2, <1>10, OperationTypes DEF TrustMerged, RequestsFit, TypeOK
  <2> QED BY <1>10, <2>1 DEF TrustMerged
<1>11. CASE SaveProvisioningRule(q)
  <2>1. op.r \in Rule /\ op.aud \in Audiences /\ op.enabled \in BOOLEAN
    BY <1>1, <1>2, <1>11, OperationTypes DEF SaveProvisioningRule, RequestsFit
  <2> QED BY <1>11, <2>1 DEF SaveProvisioningRule
<1>12. CASE DeleteOIDCProvisioningRule(q)
  BY <1>2, <1>12, OperationTypes DEF DeleteOIDCProvisioningRule, Runs
<1>13. CASE ReconcileUnassign(q)
  BY <1>1, <1>13 DEF ReconcileUnassign, TypeOK, Role, AuthManager, ContentWriter
<1> QED BY <1>3, <1>4, <1>5, <1>6, <1>7, <1>8, <1>9, <1>10, <1>11, <1>12, <1>13, <1>14
        DEF PipelineStep, HandlerStep

\* The rows change only in these ways.
LEMMA StepsAreStoreSteps ==
    ASSUME Inductive, [Next]_vars
    PROVE  StoreStep
<1>1. ASSUME NEW t \in Token, TokenExpires(t) PROVE StoreStep
  BY <1>1, MislaidIsNoticed DEF TokenExpires, StoreStep
<1>2. CASE UNCHANGED vars
  BY <1>2 DEF vars, StoreStep
<1> QED BY <1>1, <1>2, ServersMakeStoreSteps, RequestsMakeStoreSteps DEF Next

-----------------------------------------------------------------------------
(* Types.                                                                   *)

\* Every call of the store keeps the types of its rows.
LEMMA StoreTypes ==
    ASSUME StoreTypeOK, StoreStep
    PROVE  StoreTypeOK'
<1> USE DEF StoreTypeOK, grants, policy
<1>1. CASE UNCHANGED store
  BY <1>1 DEF store
<1>2. ASSUME NEW p \in Principal, NEW made \in MadeOrigins, CreatePrincipal(p, made)
      PROVE  StoreTypeOK'
  BY <1>2 DEF CreatePrincipal, Origin
<1>3. ASSUME NEW p \in Principal, NEW role \in Role, AssignRole(p, role) \/ UnassignRole(p, role)
      PROVE  StoreTypeOK'
  BY <1>3 DEF AssignRole, UnassignRole
<1>4. ASSUME NEW t \in Token, NEW p \in Principal, NEW is \in {"known", "secret"}, IssueToken(t, p, is)
      PROVE  StoreTypeOK'
  BY <1>4 DEF IssueToken, TokenRow
<1>5. ASSUME NEW t \in Token, EndToken(t) PROVE StoreTypeOK'
  BY <1>5 DEF EndToken, TokenRow, NoToken
<1>6. ASSUME NEW t \in Token,
             token' = [token EXCEPT ![t].is = IF @ = "secret" THEN "known" ELSE @],
             UNCHANGED <<origin, roles, link, policy>>
      PROVE  StoreTypeOK'
  BY <1>6 DEF TokenRow, NoToken
<1>7. ASSUME NEW r \in Rule, NEW aud \in Audiences, NEW enabled \in BOOLEAN, SaveRule(r, aud, enabled)
      PROVE  StoreTypeOK'
  BY <1>7 DEF SaveRule, RuleRow
<1>8. ASSUME NEW r \in Rule, DeleteRule(r) PROVE StoreTypeOK'
  BY <1>8 DEF DeleteRule, RuleRow
<1>9. ASSUME NEW seen \in SUBSET Audiences, NEW aud \in Audiences, NEW overlapped \in BOOLEAN,
             TrustProvider(seen, aud, overlapped)
      PROVE  StoreTypeOK'
  BY <1>9 DEF TrustProvider, Merged
<1>10. ASSUME NEW p \in Principal, NEW i \in Identity, NEW r \in Rule, ProvisionIdentity(p, i, r)
       PROVE  StoreTypeOK'
  BY <1>10 DEF ProvisionIdentity, Origin, Role
<1> QED BY <1>1, <1>2, <1>3, <1>4, <1>5, <1>6, <1>7, <1>8, <1>9, <1>10 DEF StoreStep

\* Servers keep their types.
LEMMA ServerTypes ==
    ASSUME TypeOK, [Next]_vars
    PROVE  /\ server' \in [Server -> [at : ServerAt, todo : SUBSET Principal,
                                      p : Principal \cup {None}, t : Token \cup {None}]]
           /\ mislaid' \in BOOLEAN /\ arrived' \in Nat
<1> DEFINE S == [at : ServerAt, todo : SUBSET Principal,
                 p : Principal \cup {None}, t : Token \cup {None}]
<1> DEFINE Typed == /\ server' \in [Server -> S]
                    /\ mislaid' \in BOOLEAN /\ arrived' \in Nat
<1>1. server \in [Server -> S] /\ mislaid \in BOOLEAN /\ arrived \in Nat
  BY DEF TypeOK
<1>2. CASE UNCHANGED <<server, mislaid, arrived>>
  BY <1>1, <1>2
<1>3. ASSUME NEW s \in Server, ServerStep(s) PROVE Typed
  <2>1. CASE Start(s) \/ Look(s)
    BY <1>1, <2>1 DEF Start, Arrives, Look, Step, Down, ServerAt
  <2>2. CASE BootstrapPrincipal(s) \/ BootstrapToken(s)
    BY <1>1, <2>2 DEF BootstrapPrincipal, BootstrapToken, NewPrincipals, NewTokens, ServerAt
  <2>3. CASE BootstrapRole(s)
    BY <1>1, <2>3 DEF BootstrapRole, Step, ServerAt
  <2>4. CASE BootstrapPrint(s)
    BY <1>1, <2>4 DEF BootstrapPrint, Down, ServerAt
  <2>5. CASE Stop(s)
    BY <1>1, <2>5 DEF Stop, Mislays, Down, ServerAt
  <2> QED BY <1>3, <2>1, <2>2, <2>3, <2>4, <2>5 DEF ServerStep
<1>4. ASSUME NEW q \in Request, PipelineStep(q) PROVE Typed
  <2>1. UNCHANGED <<server, mislaid>> /\ (arrived' = arrived \/ arrived' = arrived + 1)
    BY <1>4 DEF PipelineStep, AuthenticateToken, AuthenticateIdentity, Receive, Arrives, ResolveLink,
       MatchRules, ExistingRulePrincipal, Provision, Authorize, Interrupt
  <2> QED BY <1>1, <2>1
<1>5. ASSUME NEW q \in Request, HandlerStep(q) PROVE Typed
  <2>1. UNCHANGED <<server, arrived>> /\ mislaid' \in BOOLEAN
    BY <1>1, <1>5 DEF HandlerStep, Rest, Mislays, WriteContent, CreateOperatorPrincipal, AssignPrincipalRole,
       UnassignPrincipalRole, IssueAPIToken, RevokeAPIToken, SaveRequested, FindProvider,
       TrustMerged, SaveProvisioningRule, DeleteOIDCProvisioningRule, ReconcileList,
       ReconcileRead, ReconcileUnassign, Answer
  <2> QED BY <1>1, <2>1
<1>6. ASSUME NEW t \in Token, TokenExpires(t) PROVE Typed
  BY <1>1, <1>6 DEF TokenExpires, Mislays, Rest
<1> QED BY <1>2, <1>3, <1>4, <1>5, <1>6 DEF Next, vars

RequestRecord ==
    [at : RequestAt, identity : Identity \cup {None}, op : Operation \cup {None},
     who : Principal \cup {None}, rules : SUBSET Rule, seen : SUBSET Audiences,
     todo : SUBSET Principal, found : SUBSET Principal, fresh : SUBSET Principal]

\* A request is where its operation leads.
Fits(x) ==
    x.at # "idle" =>
        /\ x.op \in Operation
        /\ x.at \in {"resolve", "match", "existing", "provision"} => x.identity \in Identity
        /\ x.at \in {"find_provider", "trust", "save"} => x.op.do \in {"create_rule", "update_rule"}
        /\ x.at \in {"roles", "unassign", "done"} => x.op.do = "reconcile"


\* Every step of the pipeline leads a request on, or ends it.
LEMMA PipelineMoves ==
    ASSUME TypeOK, RequestsFit, NEW q \in Request, PipelineStep(q)
    PROVE  /\ request'[q] \in RequestRecord /\ Fits(request'[q])
           /\ \/ request' = [request EXCEPT ![q] = request'[q]]
              \/ \E p \in Principal : request' = [WithFresh(p) EXCEPT ![q] = request'[q]]
<1> USE DEF RequestRecord, Fits, RequestAt
<1> DEFINE Moves == /\ request'[q] \in RequestRecord /\ Fits(request'[q])
                    /\ \/ request' = [request EXCEPT ![q] = request'[q]]
                       \/ \E p \in Principal : request' = [WithFresh(p) EXCEPT ![q] = request'[q]]
<1>1. request \in [Request -> RequestRecord] /\ Fits(request[q])
  BY DEF TypeOK, RequestsFit
<1>2. Free \in RequestRecord /\ Fits(Free)
  BY DEF Free
<1>a. ASSUME NEW p \in Principal \cup {None}, request[q].at # "idle"
      PROVE  Authorizing(q, p) \in RequestRecord /\ Fits(Authorizing(q, p))
  BY <1>1, <1>a DEF Authorizing, Free
<1>3. ASSUME NEW t \in Token, NEW op \in Operation, AuthenticateToken(q, t, op) PROVE Moves
  <2>1. token[t].of \in Principal
    BY <1>3 DEF AuthenticateToken, TypeOK, StoreTypeOK, TokenRow, NoToken
  <2> QED BY <1>1, <1>3, <2>1 DEF AuthenticateToken, Receive, Free
<1>4. ASSUME NEW i \in Identity, NEW op \in Operation, AuthenticateIdentity(q, i, op) PROVE Moves
  BY <1>1, <1>4 DEF AuthenticateIdentity, Receive, Free
<1>5. CASE ResolveLink(q)
  <2>1. link[request[q].identity] \in Principal \cup {None}
    BY <1>1, <1>5 DEF ResolveLink, TypeOK, StoreTypeOK
  <2>2. CASE request' = [request EXCEPT ![q] = Authorizing(q, link[request[q].identity])]
    BY <1>1, <1>5, <1>a, <2>1, <2>2 DEF ResolveLink
  <2>3. CASE Goto(q, "match")
    BY <1>1, <1>5, <2>3 DEF ResolveLink, Goto
  <2> QED BY <1>5, <2>2, <2>3 DEF ResolveLink
<1>6. CASE MatchRules(q)
  <2> DEFINE matched == MatchingRules(request[q].identity)
  <2>1. matched \in SUBSET Rule
    BY DEF MatchingRules
  <2>2. CASE request' = [request EXCEPT ![q] = Authorizing(q, None)]
    BY <1>1, <1>6, <1>a, <2>2 DEF MatchRules
  <2>3. CASE request' = [request EXCEPT ![q] = [@ EXCEPT !.at = "existing", !.rules = matched]]
    <3> DEFINE x == [request[q] EXCEPT !.at = "existing", !.rules = matched]
    <3> HIDE DEF matched
    <3>1. request' = [request EXCEPT ![q] = x] /\ request'[q] = x
      BY <1>1, <2>3
    <3>2. x \in RequestRecord /\ Fits(x)
      BY <1>1, <1>6, <2>1, ZenonT(60) DEF MatchRules
    <3> HIDE DEF x
    <3> QED BY <3>1, <3>2
  <2> QED BY <1>6, <2>2, <2>3 DEF MatchRules
<1>7. CASE ExistingRulePrincipal(q)
  <2>1. ASSUME NEW p \in Principal, request' = [request EXCEPT ![q] = Authorizing(q, p)] PROVE Moves
    BY <1>1, <1>7, <1>a, <2>1 DEF ExistingRulePrincipal
  <2>2. CASE Goto(q, "provision")
    BY <1>1, <1>7, <2>2 DEF ExistingRulePrincipal, Goto
  <2> QED BY <1>7, <2>1, <2>2 DEF ExistingRulePrincipal, RulePrincipals
<1>8. CASE Provision(q)
  <2>1. ASSUME NEW p \in Principal, request' = [WithFresh(p) EXCEPT ![q] = Authorizing(q, p)] PROVE Moves
    BY <1>1, <1>8, <1>a, <2>1 DEF Provision, WithFresh
  <2>2. CASE Return(q)
    BY <1>1, <1>2, <2>2 DEF Return
  <2>3. ASSUME link[request[q].identity] # None,
               request' = [request EXCEPT ![q] = Authorizing(q, link[request[q].identity])]
        PROVE  Moves
    <3>1. link[request[q].identity] \in Principal
      BY <1>1, <1>8, <2>3 DEF Provision, TypeOK, StoreTypeOK
    <3> QED BY <1>1, <1>8, <1>a, <2>3, <3>1 DEF Provision
  <2> QED BY <1>8, <2>1, <2>2, <2>3 DEF Provision, NewPrincipals
<1>9. CASE Authorize(q) \/ Interrupt(q)
  BY <1>1, <1>2, <1>9 DEF Authorize, Interrupt, Return
<1> QED BY <1>3, <1>4, <1>5, <1>6, <1>7, <1>8, <1>9 DEF PipelineStep

\* Every step of a handler leads a request on, or ends it.
LEMMA HandlerMoves ==
    ASSUME TypeOK, RequestsFit, NEW q \in Request, HandlerStep(q)
    PROVE  /\ request'[q] \in RequestRecord /\ Fits(request'[q])
           /\ \/ request' = [request EXCEPT ![q] = request'[q]]
              \/ \E p \in Principal : request' = [WithFresh(p) EXCEPT ![q] = request'[q]]
<1> USE DEF RequestRecord, Fits, RequestAt
<1> DEFINE Moves == /\ request'[q] \in RequestRecord /\ Fits(request'[q])
                    /\ \/ request' = [request EXCEPT ![q] = request'[q]]
                       \/ \E p \in Principal : request' = [WithFresh(p) EXCEPT ![q] = request'[q]]
<1>1. request \in [Request -> RequestRecord] /\ Fits(request[q])
  BY DEF TypeOK, RequestsFit
<1>2. Free \in RequestRecord /\ Fits(Free)
  BY DEF Free
<1>3. CASE Return(q)
  BY <1>1, <1>2, <1>3 DEF Return
<1>4. CASE AssignPrincipalRole(q)
  <2>1. request[q].op.p \in Principal
    BY <1>1, <1>4, OperationTypes DEF AssignPrincipalRole, Runs
  <2>2. request' = [WithFresh(request[q].op.p) EXCEPT ![q] = Free]
    BY <1>4 DEF AssignPrincipalRole
  <2> QED BY <1>1, <1>2, <2>1, <2>2 DEF WithFresh
<1>5. CASE SaveRequested(q)
  BY <1>1, <1>3, <1>5 DEF SaveRequested, Runs, Goto
<1>6. CASE FindProvider(q)
  <2>1. trust \in SUBSET Audiences
    BY DEF TypeOK, StoreTypeOK
  <2> QED BY <1>1, <1>6, <2>1, ZenonT(60) DEF FindProvider
<1>7. CASE TrustMerged(q)
  BY <1>1, <1>7, ZenonT(60) DEF TrustMerged
<1>8. CASE ReconcileList(q)
  <2> DEFINE todo == {p \in Principal : origin[p].rule = request[q].op.r}
  <2> DEFINE x == [request[q] EXCEPT !.at = "roles", !.todo = todo]
  <2>1. todo \in SUBSET Principal /\ request' = [request EXCEPT ![q].at = "roles", ![q].todo = todo]
    BY <1>8 DEF ReconcileList
  <2> HIDE DEF todo
  <2>2. request' = [request EXCEPT ![q] = x] /\ request'[q] = x
    BY <1>1, <2>1
  <2>3. x \in RequestRecord
    BY <1>1, <2>1, ZenonT(60)
  <2>4. Fits(x)
    BY <1>1, <1>8 DEF ReconcileList, Runs
  <2> HIDE DEF x
  <2> QED BY <2>2, <2>3, <2>4
<1>9. CASE ReconcileRead(q)
  <2>1. ASSUME NEW p \in request[q].todo,
               request' = [request EXCEPT
                   ![q].todo = @ \ {p},
                   ![q].found = IF WritesContent(p) THEN @ \cup {p} ELSE @]
        PROVE  Moves
    <3>1. p \in Principal
      BY <1>1, <2>1
    <3> DEFINE found == IF WritesContent(p) THEN request[q].found \cup {p} ELSE request[q].found
    <3> DEFINE todo == request[q].todo \ {p}
    <3> DEFINE x == [request[q] EXCEPT !.todo = todo, !.found = found]
    <3>2. request' = [request EXCEPT ![q] = x] /\ request'[q] = x
      BY <1>1, <2>1
    <3>3. found \in SUBSET Principal /\ todo \in SUBSET Principal
      BY <1>1, <3>1
    <3> HIDE DEF found, todo
    <3>4. x \in RequestRecord
      BY <1>1, <3>3, ZenonT(60)
    <3>5. Fits(x)
      BY <1>1, <1>9 DEF ReconcileRead
    <3> HIDE DEF x
    <3> QED BY <3>2, <3>4, <3>5
  <2>2. CASE Goto(q, "unassign")
    BY <1>1, <1>9, <2>2, ZenonT(60) DEF ReconcileRead, Goto
  <2> QED BY <1>9, <2>1, <2>2 DEF ReconcileRead
<1>10. CASE ReconcileUnassign(q)
  BY <1>1, <1>10 DEF ReconcileUnassign, Goto
<1> QED BY <1>3, <1>4, <1>5, <1>6, <1>7, <1>8, <1>9, <1>10 DEF HandlerStep, WriteContent,
        CreateOperatorPrincipal, UnassignPrincipalRole, IssueAPIToken, RevokeAPIToken,
        SaveProvisioningRule, DeleteOIDCProvisioningRule, Answer

\* Requests keep their types, and stay where their operations lead.
LEMMA RequestTypes ==
    ASSUME TypeOK, RequestsFit, [Next]_vars
    PROVE  request' \in [Request -> RequestRecord] /\ RequestsFit'
<1>1. request \in [Request -> RequestRecord] /\ \A q \in Request : Fits(request[q])
  BY DEF TypeOK, RequestsFit, Fits, RequestRecord
<1>2. ASSUME request' \in [Request -> RequestRecord], \A q \in Request : Fits(request'[q])
      PROVE  request' \in [Request -> RequestRecord] /\ RequestsFit'
  BY <1>2 DEF RequestsFit, Fits
<1>3. ASSUME NEW q \in Request, PipelineStep(q) \/ HandlerStep(q)
      PROVE  request' \in [Request -> RequestRecord] /\ \A o \in Request : Fits(request'[o])
  <2>1. request'[q] \in RequestRecord /\ Fits(request'[q])
    BY <1>3, PipelineMoves, HandlerMoves
  <2>2. CASE request' = [request EXCEPT ![q] = request'[q]]
    BY <1>1, <2>1, <2>2
  <2>3. ASSUME NEW p \in Principal, request' = [WithFresh(p) EXCEPT ![q] = request'[q]]
        PROVE  request' \in [Request -> RequestRecord] /\ \A o \in Request : Fits(request'[o])
    <3>1. ASSUME NEW o \in Request PROVE WithFresh(p)[o] \in RequestRecord /\ Fits(WithFresh(p)[o])
      BY <1>1 DEF WithFresh, Fits, RequestRecord
    <3>2. WithFresh(p) \in [Request -> RequestRecord]
      BY <3>1 DEF WithFresh
    <3> QED BY <2>1, <2>3, <3>1, <3>2
  <2> QED BY <1>3, <2>2, <2>3, PipelineMoves, HandlerMoves
<1>4. CASE UNCHANGED request
  BY <1>1, <1>2, <1>4
<1> QED BY <1>2, <1>3, <1>4 DEF Next, ServerStep, Start, Look, Stop, BootstrapPrincipal, BootstrapToken,
        BootstrapRole, BootstrapPrint, TokenExpires, vars

\* A step of one request leaves the others as they are, except that reconciliations may be
\* told of a principal.
LEMMA OthersStay ==
    ASSUME TypeOK, RequestsFit, NEW q \in Request, PipelineStep(q) \/ HandlerStep(q),
           NEW o \in Request, o # q
    PROVE  /\ request'[o].at = request[o].at /\ request'[o].op = request[o].op
           /\ request'[o].todo = request[o].todo /\ request'[o].found = request[o].found
           /\ request[o].fresh \subseteq request'[o].fresh
           /\ request[o].at \notin {"roles", "unassign", "done"} => request'[o] = request[o]
<1>1. request \in [Request -> RequestRecord]
  BY DEF TypeOK, RequestRecord
<1>2. CASE request' = [request EXCEPT ![q] = request'[q]]
  <2>1. request'[o] = request[o]
    BY <1>1, <1>2
  <2> QED BY <2>1
<1>3. ASSUME NEW p \in Principal, request' = [WithFresh(p) EXCEPT ![q] = request'[q]]
      PROVE  request'[o] = IF request[o].at \in {"roles", "unassign", "done"}
                           THEN [request[o] EXCEPT !.fresh = @ \cup {p}] ELSE request[o]
  BY <1>1, <1>3 DEF WithFresh
<1>4. ASSUME NEW p \in Principal, request'[o] = [request[o] EXCEPT !.fresh = @ \cup {p}]
      PROVE  /\ request'[o].at = request[o].at /\ request'[o].op = request[o].op
             /\ request'[o].todo = request[o].todo /\ request'[o].found = request[o].found
             /\ request[o].fresh \subseteq request'[o].fresh
  BY <1>1, <1>4 DEF RequestRecord
<1> QED BY <1>2, <1>3, <1>4, PipelineMoves, HandlerMoves

-----------------------------------------------------------------------------
(* Rows that agree.                                                         *)

\* Roles are assigned to principals that exist, and an identity keeps its principal.
LEMMA PrincipalsAgree ==
    ASSUME TypeOK, RolesBelong, LinksAgree, StoreStep
    PROVE  RolesBelong' /\ LinksAgree'
<1> USE DEF RolesBelong, LinksAgree, Exists
<1>0. StoreTypeOK
  BY DEF TypeOK
<1>1. CASE UNCHANGED <<origin, roles, link>>
  BY <1>1
<1>2. ASSUME NEW p \in Principal, NEW made \in MadeOrigins, CreatePrincipal(p, made)
      PROVE  RolesBelong' /\ LinksAgree'
  <2>1. made # NoOrigin /\ made.by # "rule"
    BY DEF MadeOrigins, Bootstrapped, OperatorMade, NoOrigin
  <2> QED BY <1>0, <1>2, <2>1 DEF CreatePrincipal, NoOrigin, StoreTypeOK
<1>3. ASSUME NEW p \in Principal, NEW role \in Role, AssignRole(p, role) \/ UnassignRole(p, role)
      PROVE  RolesBelong' /\ LinksAgree'
  BY <1>0, <1>3 DEF AssignRole, UnassignRole, StoreTypeOK
<1>4. ASSUME NEW p \in Principal, NEW i \in Identity, NEW r \in Rule, ProvisionIdentity(p, i, r)
      PROVE  RolesBelong' /\ LinksAgree'
  BY <1>0, <1>4, AbsenceAssumption DEF ProvisionIdentity, Provisioned, NoOrigin, StoreTypeOK, Origin,
     Bootstrapped, OperatorMade
<1> QED BY <1>1, <1>2, <1>3, <1>4 DEF StoreStep, store, grants, IssueToken, EndToken, SaveRule, DeleteRule,
        TrustProvider

\* What administrators have stays, or somebody took it: principals, tokens and their
\* owners, the use of a token, and the role.
LEMMA NothingIsLost ==
    ASSUME Inductive, [Next]_vars
    PROVE  /\ mislaid => mislaid'
           /\ \A p \in Principal : Exists(p) => origin'[p] = origin[p]
           /\ \A t \in Token : token[t] # NoToken =>
                 /\ token'[t].of = token[t].of
                 /\ token[t].is # "ended" => token'[t].is # "ended" \/ Noticed(token[t].of)
                 /\ token[t].is = "known" => token'[t].is = "known" \/ Noticed(token[t].of)
           /\ \A p \in Principal : AuthManager \in roles[p] => AuthManager \in roles'[p] \/ Noticed(p)
<1> USE DEF Exists
<1>1. TypeOK /\ StoreTypeOK /\ RolesBelong /\ StoreStep
  BY StepsAreStoreSteps DEF Inductive, TypeOK
<1>2. mislaid => mislaid'
  BY MislaidIsNoticed, ZenonT(60) DEF Next, ServerStep, Start, Look, Stop, BootstrapPrincipal, BootstrapToken, BootstrapRole,
     BootstrapPrint, PipelineStep, AuthenticateToken, AuthenticateIdentity, Receive, ResolveLink,
     MatchRules, ExistingRulePrincipal, Provision, Authorize, Interrupt, HandlerStep, Rest, WriteContent,
     CreateOperatorPrincipal, AssignPrincipalRole, UnassignPrincipalRole, IssueAPIToken, RevokeAPIToken,
     SaveRequested, FindProvider, TrustMerged, SaveProvisioningRule, DeleteOIDCProvisioningRule,
     ReconcileList, ReconcileRead, ReconcileUnassign, Answer, TokenExpires, vars
<1>3. \A p \in Principal : Exists(p) => origin'[p] = origin[p]
  BY <1>1 DEF StoreStep, StoreTypeOK, store, grants, CreatePrincipal, AssignRole, UnassignRole, IssueToken,
     EndToken, SaveRule, DeleteRule, TrustProvider, ProvisionIdentity
<1>4. \A t \in Token : token[t] # NoToken =>
         /\ token'[t].of = token[t].of
         /\ token[t].is # "ended" => token'[t].is # "ended" \/ Noticed(token[t].of)
         /\ token[t].is = "known" => token'[t].is = "known" \/ Noticed(token[t].of)
  <2>1. CASE UNCHANGED token
    BY <2>1
  <2>2. ASSUME NEW t \in Token, NEW p \in Principal, NEW is \in {"known", "secret"}, IssueToken(t, p, is)
        PROVE  \A x \in Token : token[x] # NoToken => token'[x] = token[x]
    BY <1>1, <2>2 DEF IssueToken, StoreTypeOK
  <2>3. ASSUME NEW t \in Token, EndToken(t)
        PROVE  \A x \in Token : token[x] # NoToken =>
                  token'[x].of = token[x].of /\ (x # t => token'[x] = token[x])
    BY <1>1, <2>3 DEF EndToken, StoreTypeOK, TokenRow, NoToken
  <2>4. ASSUME NEW t \in Token, token' = [token EXCEPT ![t].is = IF @ = "secret" THEN "known" ELSE @]
        PROVE  \A x \in Token : /\ token'[x].of = token[x].of
                                /\ token'[x].is = token[x].is
                                   \/ (token[x].is = "secret" /\ token'[x].is = "known")
    BY <1>1, <2>4 DEF StoreTypeOK, TokenRow, NoToken
  <2> QED BY <1>1, <2>1, <2>2, <2>3, <2>4 DEF StoreStep, store, grants, CreatePrincipal, AssignRole,
          UnassignRole, SaveRule, DeleteRule, TrustProvider, ProvisionIdentity
<1>5. \A p \in Principal : AuthManager \in roles[p] => AuthManager \in roles'[p] \/ Noticed(p)
  BY <1>1 DEF StoreStep, StoreTypeOK, RolesBelong, store, grants, CreatePrincipal, AssignRole, UnassignRole,
     IssueToken, EndToken, SaveRule, DeleteRule, TrustProvider, ProvisionIdentity
<1> QED BY <1>2, <1>3, <1>4, <1>5

\* A way in stays, or its loss is remembered.
LEMMA WayInStays ==
    ASSUME Inductive, [Next]_vars, WayIn
    PROVE  WayIn' \/ mislaid'
<1>1. PICK p \in Administrators, t \in Token : token[t].of = p /\ token[t].is = "known"
  BY DEF WayIn
<1>2. p \in Principal /\ AuthManager \in roles[p] /\ token[t] # NoToken /\ Concerns(p)
  BY <1>1 DEF Administrators, NoToken, Concerns
<1>3. AuthManager \in roles'[p] \/ WayIn' \/ mislaid'
  BY <1>2, NothingIsLost DEF Noticed
<1>4. token'[t].of = p /\ (token'[t].is = "known" \/ WayIn' \/ mislaid')
  BY <1>1, <1>2, NothingIsLost DEF Noticed
<1> QED BY <1>2, <1>3, <1>4 DEF WayIn, Administrators

-----------------------------------------------------------------------------
(* What processes know.                                                     *)

\* What a bootstrap created is there until it is printed, whatever other servers and
\* requests do.
LEMMA BootstrapsStay ==
    ASSUME Inductive, [Next]_vars
    PROVE  BootstrapsKnow'
<1>1. TypeOK /\ StoreTypeOK /\ BootstrapsKnow
  BY DEF Inductive, TypeOK
<1>2. ASSUME NEW s \in Server
      PROVE  /\ server[s].at \in {"issue", "assign", "print"} =>
                   server[s].p \in Principal /\ origin'[server[s].p] # NoOrigin
             /\ server[s].at \in {"assign", "print"} =>
                   /\ server[s].t \in Token
                   /\ token'[server[s].t].of = server[s].p
                   /\ token'[server[s].t].is # "ended" \/ WayIn' \/ mislaid'
             /\ server[s].at = "print" => AuthManager \in roles'[server[s].p] \/ WayIn' \/ mislaid'
  <2>1. server[s].at \in {"assign", "print"} => token[server[s].t] # NoToken
    BY <1>1, AbsenceAssumption DEF BootstrapsKnow, NoToken
  <2>2. WayIn \/ mislaid => WayIn' \/ mislaid'
    BY WayInStays, NothingIsLost
  <2>3. Concerns(server[s].p)
    BY DEF Concerns
  <2>4. server[s].at \in {"issue", "assign", "print"} =>
           server[s].p \in Principal /\ origin'[server[s].p] # NoOrigin
    BY <1>1, NothingIsLost DEF BootstrapsKnow, Exists
  <2>5. server[s].at \in {"assign", "print"} =>
           /\ server[s].t \in Token
           /\ token'[server[s].t].of = server[s].p
           /\ token'[server[s].t].is # "ended" \/ WayIn' \/ mislaid'
    BY <1>1, <2>1, <2>2, <2>3, NothingIsLost DEF BootstrapsKnow, Noticed
  <2>6. server[s].at = "print" => AuthManager \in roles'[server[s].p] \/ WayIn' \/ mislaid'
    BY <1>1, <2>2, <2>3, NothingIsLost DEF BootstrapsKnow, Noticed, Administrators
  <2> QED BY <2>4, <2>5, <2>6
<1>3. CASE UNCHANGED server
  BY <1>2, <1>3 DEF BootstrapsKnow, Administrators, Exists
<1>4. ASSUME NEW z \in Server, ServerStep(z) PROVE BootstrapsKnow'
  <2>1. ASSUME NEW s \in Server, s # z PROVE server'[s] = server[s]
    BY <1>1, <1>4, <2>1 DEF ServerStep, Start, Look, Stop, BootstrapPrincipal, BootstrapToken,
       BootstrapRole, BootstrapPrint, Step, TypeOK
  <2> DEFINE Knows == /\ server'[z].at \in {"issue", "assign", "print"} =>
                            server'[z].p \in Principal /\ origin'[server'[z].p] # NoOrigin
                      /\ server'[z].at \in {"assign", "print"} =>
                            /\ server'[z].t \in Token
                            /\ token'[server'[z].t].of = server'[z].p
                            /\ token'[server'[z].t].is # "ended" \/ WayIn' \/ mislaid'
                      /\ server'[z].at = "print" =>
                            AuthManager \in roles'[server'[z].p] \/ WayIn' \/ mislaid'
  <2>2. ASSUME Start(z) \/ Look(z) \/ BootstrapPrint(z) \/ Stop(z) PROVE Knows
    <3>1. server'[z].at \notin {"issue", "assign", "print"}
      BY <1>1, <2>2 DEF Start, Look, BootstrapPrint, Stop, Step, Down, TypeOK
    <3> QED BY <3>1
  <2>3. ASSUME BootstrapPrincipal(z) PROVE Knows
    <3>1. PICK p \in Principal : CreatePrincipal(p, Bootstrapped) /\ server' = [server EXCEPT ![z].at = "issue", ![z].p = p]
      BY <2>3 DEF BootstrapPrincipal, NewPrincipals
    <3>2. server'[z].at = "issue" /\ server'[z].p = p
      BY <1>1, <3>1 DEF TypeOK
    <3>3. origin'[p] # NoOrigin
      BY <1>1, <3>1 DEF CreatePrincipal, StoreTypeOK, Bootstrapped, NoOrigin
    <3> QED BY <3>2, <3>3
  <2>4. ASSUME BootstrapToken(z) PROVE Knows
    <3>1. PICK t \in Token : IssueToken(t, server[z].p, "secret") /\ server' = [server EXCEPT ![z].at = "assign", ![z].t = t]
      BY <2>4 DEF BootstrapToken, NewTokens
    <3>2. server'[z].at = "assign" /\ server'[z].p = server[z].p /\ server'[z].t = t
      BY <1>1, <3>1 DEF TypeOK
    <3>3. token'[t].of = server[z].p /\ token'[t].is = "secret"
      BY <1>1, <3>1 DEF IssueToken, StoreTypeOK
    <3>4. server[z].at = "issue"
      BY <2>4 DEF BootstrapToken
    <3> QED BY <1>2, <3>2, <3>3, <3>4
  <2>5. ASSUME BootstrapRole(z) PROVE Knows
    <3>1. server'[z].at = "print" /\ server'[z].p = server[z].p /\ server'[z].t = server[z].t
      BY <1>1, <2>5 DEF BootstrapRole, Step, TypeOK
    <3>2. server[z].at = "assign" /\ AuthManager \in roles'[server[z].p]
      BY <1>1, <2>5 DEF BootstrapRole, AssignRole, StoreTypeOK, BootstrapsKnow
    <3> QED BY <1>2, <3>1, <3>2
  <2>6. Knows
    BY <1>4, <2>2, <2>3, <2>4, <2>5 DEF ServerStep
  <2> QED BY <1>2, <2>1, <2>6 DEF BootstrapsKnow, Administrators, Exists
<1>5. ASSUME NEW q \in Request, PipelineStep(q) \/ HandlerStep(q) PROVE UNCHANGED server
  BY <1>5 DEF PipelineStep, AuthenticateToken, AuthenticateIdentity, Receive, ResolveLink,
     MatchRules, ExistingRulePrincipal, Provision, Authorize, Interrupt, HandlerStep, Rest, WriteContent,
     CreateOperatorPrincipal, AssignPrincipalRole, UnassignPrincipalRole, IssueAPIToken, RevokeAPIToken,
     SaveRequested, FindProvider, TrustMerged, SaveProvisioningRule, DeleteOIDCProvisioningRule,
     ReconcileList, ReconcileRead, ReconcileUnassign, Answer
<1> QED BY <1>3, <1>4, <1>5 DEF Next, TokenExpires, Rest, vars

\* A principal becomes an administrator only at the end of a bootstrap, or by a request
\* that an administrator was allowed to make.
LEMMA NewAdministrators ==
    ASSUME Inductive, [Next]_vars, NEW p \in Principal, AuthManager \in roles'[p], AuthManager \notin roles[p]
    PROVE  \/ \E s \in Server : BootstrapRole(s)
           \/ \E q \in Request : request[q].at = "run" /\ request[q].op.do = "assign"
<1>1. TypeOK /\ StoreTypeOK
  BY DEF Inductive, TypeOK
<1>2. ASSUME NEW s \in Server, ServerStep(s) PROVE BootstrapRole(s)
  BY <1>2 DEF ServerStep, Start, Look, Stop, BootstrapPrincipal, CreatePrincipal, BootstrapToken, IssueToken,
     BootstrapPrint, store, grants
<1>3. ASSUME NEW q \in Request, PipelineStep(q) PROVE FALSE
  <2>1. CASE UNCHANGED store
    BY <2>1 DEF store, grants
  <2>2. ASSUME NEW x \in Principal, NEW i, NEW r, ProvisionIdentity(x, i, r) PROVE FALSE
    BY <1>1, <2>2 DEF ProvisionIdentity, StoreTypeOK, AuthManager, ContentWriter
  <2> QED BY <1>3, <2>1, <2>2 DEF PipelineStep, AuthenticateToken, AuthenticateIdentity, Receive, ResolveLink,
          MatchRules, ExistingRulePrincipal, Provision, NewPrincipals, Authorize, Interrupt
<1>4. ASSUME NEW q \in Request, HandlerStep(q) PROVE AssignPrincipalRole(q)
  BY <1>1, <1>4 DEF HandlerStep, WriteContent, CreateOperatorPrincipal, CreatePrincipal, UnassignPrincipalRole,
     UnassignRole, IssueAPIToken, IssueToken, RevokeAPIToken, EndToken, SaveRequested, FindProvider, TrustMerged,
     TrustProvider, SaveProvisioningRule, SaveRule, DeleteOIDCProvisioningRule, DeleteRule, ReconcileList,
     ReconcileRead, ReconcileUnassign, Answer, store, grants, StoreTypeOK
<1>5. ASSUME NEW t \in Token PROVE ~TokenExpires(t)
  BY <1>5 DEF TokenExpires, EndToken
<1>6. ~UNCHANGED vars
  BY DEF vars, store, grants
<1> QED BY <1>2, <1>3, <1>4, <1>5, <1>6 DEF Next, AssignPrincipalRole, Runs

\* A server begins to serve only when there is an administrator, and a request is only
\* handled when there is one.
LEMMA ServingNeedsAdministrator ==
    ASSUME Inductive, [Next]_vars, ~mislaid'
    PROVE  (\/ \E s \in Server : server'[s].at = "up"
            \/ \E q \in Request : request'[q].at = "run" /\ request'[q].op.do # "write")
           => Administrators # {}
<1>1. TypeOK /\ AdministratorsStay /\ BootstrapsKnow /\ ~mislaid
  BY NothingIsLost DEF Inductive
<1> SUFFICES ASSUME Administrators = {}
             PROVE  /\ \A s \in Server : server'[s].at # "up"
                    /\ \A q \in Request : request'[q].at = "run" => request'[q].op.do = "write"
  OBVIOUS
<1>2. /\ \A s \in Server : server[s].at # "up"
      /\ \A q \in Request : request[q].at = "run" => request[q].op.do = "write"
  BY <1>1 DEF AdministratorsStay
<1>3. CASE UNCHANGED <<server, request>>
  BY <1>2, <1>3
<1>4. ASSUME NEW z \in Server, ServerStep(z)
      PROVE  UNCHANGED request /\ \A s \in Server : server'[s].at # "up"
  <2>1. CASE Start(z) \/ Stop(z) \/ BootstrapPrincipal(z) \/ BootstrapToken(z) \/ BootstrapRole(z)
    BY <1>1, <1>2, <2>1 DEF Start, Stop, BootstrapPrincipal, BootstrapToken, BootstrapRole, Step, Down, TypeOK
  <2>2. CASE Look(z)
    <3>1. \A p \in server[z].todo : ~IsAdministrator(p)
      BY <1>1 DEF IsAdministrator, Administrators, TypeOK
    <3> QED BY <1>1, <1>2, <2>2, <3>1 DEF Look, Step, TypeOK
  <2>3. CASE BootstrapPrint(z)
    BY <1>1, <2>3 DEF BootstrapPrint, BootstrapsKnow, WayIn
  <2> QED BY <1>4, <2>1, <2>2, <2>3 DEF ServerStep
<1>a. request \in [Request -> RequestRecord]
  BY <1>1 DEF TypeOK, RequestRecord
<1>b. ASSUME NEW o \in Request, PipelineStep(o) \/ HandlerStep(o), request'[o].at # "run"
      PROVE  \A q \in Request : request'[q].at = "run" => request'[q].op.do = "write"
  BY <1>2, <1>b, OthersStay DEF Inductive
<1>5. ASSUME NEW o \in Request, PipelineStep(o)
      PROVE  /\ UNCHANGED server
             /\ \A q \in Request : request'[q].at = "run" => request'[q].op.do = "write"
  <2>1. CASE Authorize(o)
    <3>1. request[o].who \in Principal \cup {None}
      BY <1>1 DEF TypeOK
    <3>2. ~Can(request[o].who, "auth.manage")
      BY <3>1 DEF Can, Grants, Administrators
    <3>3. Can(request[o].who, Action(request[o].op)) => request[o].op.do = "write"
      BY <3>2 DEF Action
    <3> QED BY <1>1, <1>2, <2>1, <3>3 DEF Authorize, Return, Free, TypeOK
  <2>2. CASE \/ \E t \in Token, op \in Operation : AuthenticateToken(o, t, op)
             \/ \E i \in Identity, op \in Operation : AuthenticateIdentity(o, i, op)
    BY <1>1, <1>2, <2>2 DEF AuthenticateToken, AuthenticateIdentity, Receive, TypeOK
  <2>3. CASE ResolveLink(o) \/ MatchRules(o) \/ ExistingRulePrincipal(o) \/ Provision(o) \/ Interrupt(o)
    <3>1. request'[o].at # "run"
      <4> USE <1>a DEF RequestRecord, Authorizing, Goto, Return, Free
      <4>1. CASE ResolveLink(o)
        BY <4>1 DEF ResolveLink
      <4>2. CASE MatchRules(o)
        BY <4>2 DEF MatchRules
      <4>3. CASE ExistingRulePrincipal(o)
        BY <4>3 DEF ExistingRulePrincipal
      <4>4. ASSUME NEW p \in Principal \cup {None}, NEW x \in Principal,
                   \/ request' = [request EXCEPT ![o] = Authorizing(o, p)]
                   \/ request' = [WithFresh(x) EXCEPT ![o] = Authorizing(o, p)]
            PROVE  request'[o].at # "run"
        BY <4>4 DEF WithFresh
      <4>5. CASE Return(o)
        BY <4>5
      <4>6. CASE Provision(o)
        <5>1. link[request[o].identity] # None => link[request[o].identity] \in Principal
          BY <1>1, <4>6 DEF Inductive, RequestsFit, Provision, TypeOK, StoreTypeOK
        <5> QED BY <4>4, <4>5, <4>6, <5>1 DEF Provision, NewPrincipals
      <4> QED BY <2>3, <4>1, <4>2, <4>3, <4>5, <4>6 DEF Interrupt
    <3> QED BY <1>5, <1>b, <2>3, <3>1
            DEF ResolveLink, MatchRules, ExistingRulePrincipal, Provision, Interrupt
  <2> QED BY <1>5, <2>1, <2>2, <2>3 DEF PipelineStep
<1>6. ASSUME NEW o \in Request, HandlerStep(o)
      PROVE  /\ UNCHANGED server
             /\ \A q \in Request : request'[q].at = "run" => request'[q].op.do = "write"
  <2>1. UNCHANGED server
    BY <1>6 DEF HandlerStep, Rest, WriteContent, CreateOperatorPrincipal, AssignPrincipalRole,
       UnassignPrincipalRole, IssueAPIToken, RevokeAPIToken, SaveRequested, FindProvider, TrustMerged,
       SaveProvisioningRule, DeleteOIDCProvisioningRule, ReconcileList, ReconcileRead, ReconcileUnassign, Answer
  <2>2. request'[o].at # "run"
    <3> USE <1>a DEF RequestRecord, Goto
    <3>1. CASE Return(o)
      BY <3>1 DEF Return, Free
    <3>2. CASE AssignPrincipalRole(o)
      BY <3>2 DEF AssignPrincipalRole, WithFresh, Free
    <3>3. CASE SaveRequested(o) \/ FindProvider(o)
      BY <3>1, <3>3 DEF SaveRequested, FindProvider
    <3>4. CASE TrustMerged(o) \/ ReconcileList(o)
      BY <3>4 DEF TrustMerged, ReconcileList
    <3>5. CASE ReconcileRead(o)
      BY <3>5 DEF ReconcileRead
    <3>6. CASE ReconcileUnassign(o)
      BY <3>6 DEF ReconcileUnassign
    <3> QED BY <1>6, <3>1, <3>2, <3>3, <3>4, <3>5, <3>6 DEF HandlerStep, WriteContent,
            CreateOperatorPrincipal, UnassignPrincipalRole, IssueAPIToken, RevokeAPIToken,
            SaveProvisioningRule, DeleteOIDCProvisioningRule, Answer
  <2> QED BY <1>6, <1>b, <2>1, <2>2
<1> QED BY <1>2, <1>3, <1>4, <1>5, <1>6 DEF Next, TokenExpires, Rest, vars

\* As long as nothing is mislaid, an administrator remains, with a token or about to be
\* printed one.
LEMMA AdministratorsRemain ==
    ASSUME Inductive, [Next]_vars
    PROVE  AdministratorsStay'
<1>0. SUFFICES ASSUME ~mislaid', ~WayIn'
               PROVE  /\ (\/ \E s \in Server : server'[s].at = "up"
                          \/ \E q \in Request : request'[q].at = "run" /\ request'[q].op.do # "write")
                         => Administrators' # {}
                      /\ Administrators' # {} => \E s \in Server : server'[s].at = "print"
  BY DEF AdministratorsStay, WayIn
<1>1. /\ TypeOK /\ StoreTypeOK /\ AdministratorsStay /\ BootstrapsKnow
      /\ ~mislaid /\ ~WayIn
  BY <1>0, NothingIsLost, WayInStays DEF Inductive, TypeOK
<1>2. Administrators \subseteq Administrators'
  BY <1>0, NothingIsLost DEF Administrators, Noticed, Concerns
<1>4. ASSUME NEW s \in Server, server[s].at = "print", server'[s].at # "print"
      PROVE  FALSE
  <2>1. /\ server[s].p \in Administrators /\ server[s].t \in Token
        /\ token[server[s].t].of = server[s].p /\ token[server[s].t].is # "ended"
    BY <1>1, <1>4 DEF BootstrapsKnow
  <2>2. \E z \in Server : ServerStep(z)
    BY <1>4, ZenonT(60) DEF Next, TokenExpires, Rest, vars, PipelineStep, AuthenticateToken, AuthenticateIdentity, Receive,
       ResolveLink, MatchRules, ExistingRulePrincipal, Provision, Authorize, Interrupt, HandlerStep, WriteContent,
       CreateOperatorPrincipal, AssignPrincipalRole, UnassignPrincipalRole, IssueAPIToken, RevokeAPIToken,
       SaveRequested, FindProvider, TrustMerged, SaveProvisioningRule, DeleteOIDCProvisioningRule,
       ReconcileList, ReconcileRead, ReconcileUnassign, Answer
  <2>3. BootstrapPrint(s)
    <3>1. server \in [Server -> [at : ServerAt, todo : SUBSET Principal,
                                 p : Principal \cup {None}, t : Token \cup {None}]]
      BY <1>1 DEF TypeOK
    <3>2. PICK z \in Server : ServerStep(z)
      BY <2>2
    <3>3. z = s
      BY <1>4, <3>1, <3>2 DEF ServerStep, Start, Look, Stop, BootstrapPrincipal, BootstrapToken, BootstrapRole,
         BootstrapPrint, Step
    <3>4. ~Stop(s)
      BY <1>0, <1>4, MislaidIsNoticed DEF Stop, Noticed, Concerns
    <3> QED BY <1>4, <3>2, <3>3, <3>4 DEF ServerStep, Start, Look, BootstrapPrincipal, BootstrapToken,
            BootstrapRole, Down
  <2>4. token'[server[s].t].of = server[s].p /\ token'[server[s].t].is = "known"
    BY <1>1, <2>1, <2>3, AbsenceAssumption DEF BootstrapPrint, StoreTypeOK, TokenRow, NoToken, Administrators
  <2> QED BY <1>0, <1>2, <2>1, <2>4 DEF WayIn
<1>5. ASSUME Administrators' # {}
      PROVE  \E s \in Server : server'[s].at = "print"
  <2>1. CASE Administrators # {}
    BY <1>1, <1>4, <2>1 DEF AdministratorsStay
  <2>2. CASE Administrators = {}
    <3>1. PICK p \in Principal : AuthManager \in roles'[p] /\ AuthManager \notin roles[p]
      BY <1>5, <2>2 DEF Administrators
    <3>2. ~\E q \in Request : request[q].at = "run" /\ request[q].op.do = "assign"
      BY <1>1, <2>2 DEF AdministratorsStay
    <3>3. PICK s \in Server : BootstrapRole(s)
      BY <3>1, <3>2, NewAdministrators
    <3>4. server'[s].at = "print"
      BY <1>1, <3>3 DEF BootstrapRole, Step, TypeOK
    <3> QED BY <3>4
  <2> QED BY <2>1, <2>2
<1> QED BY <1>0, <1>2, <1>5, ServingNeedsAdministrator

\* Only its own steps bring a request to a place.
LEMMA Arrivals ==
    ASSUME Inductive, [Next]_vars, NEW o \in Request
    PROVE  /\ request'[o].at \in {"trust", "save"} =>
                 request'[o] = request[o] \/ FindProvider(o) \/ TrustMerged(o)
           /\ request'[o].at \in {"roles", "unassign", "done"} =>
                 \/ /\ request'[o].at = request[o].at /\ request'[o].op = request[o].op
                    /\ request'[o].todo = request[o].todo /\ request'[o].found = request[o].found
                    /\ request[o].fresh \subseteq request'[o].fresh
                 \/ ReconcileList(o) \/ ReconcileRead(o) \/ ReconcileUnassign(o)
<1>1. TypeOK /\ RequestsFit /\ request \in [Request -> RequestRecord]
  BY DEF Inductive, TypeOK, RequestRecord
<1>2. CASE UNCHANGED request
  BY <1>2
<1>3. ASSUME NEW q \in Request, q # o, PipelineStep(q) \/ HandlerStep(q)
      PROVE  /\ request'[o].at \in {"trust", "save"} => request'[o] = request[o]
             /\ request'[o].at = request[o].at /\ request'[o].op = request[o].op
             /\ request'[o].todo = request[o].todo /\ request'[o].found = request[o].found
             /\ request[o].fresh \subseteq request'[o].fresh
  BY <1>1, <1>3, OthersStay
<1>4. ASSUME PipelineStep(o)
      PROVE  request'[o].at \notin {"trust", "save", "roles", "unassign", "done"}
  <2> USE <1>1 DEF RequestRecord, Authorizing, Goto, Return, Free
  <2>1. CASE \/ \E t \in Token, op \in Operation : AuthenticateToken(o, t, op)
             \/ \E i \in Identity, op \in Operation : AuthenticateIdentity(o, i, op)
    <3>1. ASSUME NEW i, NEW op, NEW at \in {"authorize", "resolve"}, NEW who, Receive(o, i, op, at, who)
          PROVE  request'[o].at = at
      BY <3>1 DEF Receive
    <3> QED BY <2>1, <3>1 DEF AuthenticateToken, AuthenticateIdentity
  <2>2. CASE ResolveLink(o)
    BY <2>2, ZenonT(60) DEF ResolveLink
  <2>3. CASE MatchRules(o)
    BY <2>3 DEF MatchRules
  <2>4. CASE ExistingRulePrincipal(o)
    BY <2>4, ZenonT(60) DEF ExistingRulePrincipal
  <2>5. CASE Return(o)
    BY <2>5
  <2>6. CASE Authorize(o)
    BY <2>5, <2>6 DEF Authorize
  <2>7. CASE Provision(o)
    <3>1. ASSUME NEW p \in Principal, NEW x, \/ request' = [WithFresh(p) EXCEPT ![o] = Authorizing(o, x)]
                                             \/ request' = [request EXCEPT ![o] = Authorizing(o, x)]
          PROVE  request'[o].at = "authorize"
      BY <3>1, ZenonT(60) DEF WithFresh
    <3>2. link[request[o].identity] # None => link[request[o].identity] \in Principal
      BY <2>7 DEF RequestsFit, Provision, TypeOK, StoreTypeOK
    <3> QED BY <2>5, <2>7, <3>1, <3>2 DEF Provision, NewPrincipals
  <2> QED BY <1>4, <2>1, <2>2, <2>3, <2>4, <2>5, <2>6, <2>7 DEF PipelineStep, Interrupt
<1>5. ASSUME HandlerStep(o)
      PROVE  /\ request'[o].at \in {"trust", "save"} => FindProvider(o) \/ TrustMerged(o)
             /\ request'[o].at \in {"roles", "unassign", "done"} =>
                   ReconcileList(o) \/ ReconcileRead(o) \/ ReconcileUnassign(o)
  <2> USE <1>1 DEF RequestRecord, Goto, Return, Free
  <2>1. CASE Return(o)
    BY <2>1
  <2>2. CASE AssignPrincipalRole(o)
    BY <2>2 DEF AssignPrincipalRole, WithFresh
  <2>3. CASE SaveRequested(o)
    BY <2>1, <2>3 DEF SaveRequested
  <2>4. CASE FindProvider(o)
    BY <2>4 DEF FindProvider
  <2>5. CASE TrustMerged(o)
    BY <2>5 DEF TrustMerged
  <2>6. CASE ReconcileList(o)
    BY <2>6 DEF ReconcileList
  <2>7. CASE ReconcileRead(o)
    BY <2>7 DEF ReconcileRead
  <2>8. CASE ReconcileUnassign(o)
    BY <2>8 DEF ReconcileUnassign
  <2> QED BY <1>5, <2>1, <2>2, <2>3, <2>4, <2>5, <2>6, <2>7, <2>8 DEF HandlerStep, WriteContent,
          CreateOperatorPrincipal, UnassignPrincipalRole, IssueAPIToken, RevokeAPIToken,
          SaveProvisioningRule, DeleteOIDCProvisioningRule, Answer
<1> QED BY <1>2, <1>3, <1>4, <1>5 DEF Next, ServerStep, Start, Look, Stop, BootstrapPrincipal,
        BootstrapToken, BootstrapRole, BootstrapPrint, TokenExpires, vars

\* Trust is changed by one request at a time, and rules are saved by one that made sure
\* their audience is trusted.
LEMMA PolicyChanges ==
    ASSUME Inductive, [Next]_vars
    PROVE  /\ UNCHANGED <<trust, raced>> \/ \E q \in Request : TrustMerged(q)
           /\ \A r \in Rule :
                 \/ rule'[r] \in {rule[r], NoRule}
                 \/ \E q \in Request : request[q].at = "save" /\ rule'[r].aud = request[q].op.aud
<1>1. StoreTypeOK
  BY DEF Inductive, TypeOK
<1>2. CASE UNCHANGED policy
  BY <1>2 DEF policy
<1>3. ASSUME NEW s \in Server, ServerStep(s) PROVE UNCHANGED policy
  BY <1>3 DEF ServerStep, Start, Look, Stop, BootstrapPrincipal, CreatePrincipal, BootstrapToken, IssueToken,
     BootstrapRole, AssignRole, BootstrapPrint, store, policy
<1>4. ASSUME NEW q \in Request, PipelineStep(q) PROVE UNCHANGED policy
  BY <1>4 DEF PipelineStep, AuthenticateToken, AuthenticateIdentity, Receive, ResolveLink, MatchRules,
     ExistingRulePrincipal, Provision, ProvisionIdentity, Authorize, Interrupt, store, policy
<1>5. ASSUME NEW q \in Request, HandlerStep(q)
      PROVE  UNCHANGED policy \/ TrustMerged(q) \/ SaveProvisioningRule(q) \/ DeleteOIDCProvisioningRule(q)
  BY <1>5 DEF HandlerStep, WriteContent, CreateOperatorPrincipal, CreatePrincipal, AssignPrincipalRole,
     AssignRole, UnassignPrincipalRole, UnassignRole, IssueAPIToken, IssueToken, RevokeAPIToken, EndToken,
     SaveRequested, FindProvider, ReconcileList, ReconcileRead, ReconcileUnassign, Answer, store, policy
<1>6. ASSUME NEW q \in Request, TrustMerged(q) PROVE UNCHANGED rule
  BY <1>6 DEF TrustMerged, TrustProvider
<1>7. ASSUME NEW q \in Request, SaveProvisioningRule(q)
      PROVE  /\ UNCHANGED <<trust, raced>>
             /\ \A r \in Rule : rule'[r] = rule[r] \/ rule'[r].aud = request[q].op.aud
             /\ request[q].at = "save"
  BY <1>1, <1>7 DEF SaveProvisioningRule, SaveRule, store, policy, StoreTypeOK
<1>8. ASSUME NEW q \in Request, DeleteOIDCProvisioningRule(q)
      PROVE  UNCHANGED <<trust, raced>> /\ \A r \in Rule : rule'[r] \in {rule[r], NoRule}
  BY <1>1, <1>8 DEF DeleteOIDCProvisioningRule, DeleteRule, store, policy, StoreTypeOK
<1>9. ASSUME NEW t \in Token, TokenExpires(t) PROVE UNCHANGED policy
  BY <1>9 DEF TokenExpires, EndToken, policy
<1> QED BY <1>2, <1>3, <1>4, <1>5, <1>6, <1>7, <1>8, <1>9 DEF Next, vars, store, policy

\* Trust loses no audience but those that have raced, and whoever is about to write trust
\* has read all others.
LEMMA TrustStaysMerged ==
    ASSUME Inductive, [Next]_vars
    PROVE  TrustIsMerged'
<1>1. TrustIsMerged /\ request \in [Request -> RequestRecord]
  BY DEF Inductive, TypeOK, RequestRecord
<1>2. ASSUME NEW q \in Request, TrustMerged(q)
      PROVE  /\ trust' = request[q].seen \cup {request[q].op.aud} /\ request[q].at = "trust"
             /\ raced' = IF \E o \in Request \ {q} : request[o].at = "trust"
                         THEN raced \cup {request[q].op.aud} ELSE raced \ {request[q].op.aud}
             /\ request'[q].at = "save" /\ request'[q].op = request[q].op
             /\ \A o \in Request \ {q} : request'[o] = request[o]
  BY <1>1, <1>2 DEF TrustMerged, TrustProvider, Merged, RequestRecord
<1>3. ASSUME NEW q \in Request, FindProvider(q)
      PROVE  /\ request'[q].at = "trust" /\ request'[q].seen = trust
             /\ \A o \in Request \ {q} : request'[o] = request[o]
             /\ UNCHANGED <<trust, raced>>
  BY <1>1, <1>3 DEF FindProvider, RequestRecord, store, policy
<1>4. trust \cup raced \subseteq trust' \cup raced'
  BY <1>1, <1>2, PolicyChanges DEF TrustIsMerged
<1>5. ASSUME NEW q \in Request, TrustMerged(q), NEW o \in Request, request'[o].at = "trust"
      PROVE  /\ request'[o] = request[o] /\ raced \subseteq raced'
             /\ trust' \subseteq request[q].seen \cup raced'
             /\ request[q].seen \subseteq trust'
  BY <1>2, <1>5
<1>6. ASSUME NEW q \in Request, request'[q].at = "trust"
      PROVE  /\ trust' \subseteq request'[q].seen \cup raced'
             /\ request'[q].seen \subseteq trust' \cup raced'
             /\ \A o \in Request : request'[o].at = "trust" =>
                   request'[q].seen \subseteq request'[o].seen \cup raced'
  <2>1. CASE \E x \in Request : TrustMerged(x)
    <3>1. PICK x \in Request : TrustMerged(x)
      BY <2>1
    <3> QED BY <1>1, <1>2, <1>5, <1>6, <3>1 DEF TrustIsMerged
  <2>2. ASSUME NEW x \in Request, FindProvider(x)
        PROVE  /\ trust' \subseteq request'[q].seen \cup raced'
               /\ request'[q].seen \subseteq trust' \cup raced'
               /\ \A o \in Request : request'[o].at = "trust" =>
                     request'[q].seen \subseteq request'[o].seen \cup raced'
    BY <1>1, <1>3, <1>6, <2>2 DEF TrustIsMerged
  <2>3. CASE ~\E x \in Request : TrustMerged(x) \/ FindProvider(x)
    <3>1. UNCHANGED <<trust, raced>>
      BY <2>3, PolicyChanges
    <3>2. \A o \in Request : request'[o].at = "trust" => request'[o] = request[o]
      BY <2>3, Arrivals
    <3> QED BY <1>1, <1>6, <3>1, <3>2 DEF TrustIsMerged
  <2> QED BY <2>1, <2>2, <2>3
<1>7. ASSUME NEW q \in Request, request'[q].at = "save" PROVE request'[q].op.aud \in trust' \cup raced'
  BY <1>1, <1>2, <1>3, <1>4, <1>7, Arrivals DEF TrustIsMerged
<1>8. TrustIsLostOnlyToRaces'
  BY <1>1, <1>4, PolicyChanges DEF TrustIsMerged, TrustIsLostOnlyToRaces
<1> QED BY <1>6, <1>7, <1>8 DEF TrustIsMerged

\* A principal gets content-writer only in a way that reconciliations in progress hear of.
LEMMA NewWriters ==
    ASSUME Inductive, [Next]_vars, NEW p \in Principal, NEW r \in Rule,
           origin'[p].rule = r, ContentWriter \in roles'[p]
    PROVE  \/ origin[p].rule = r /\ ContentWriter \in roles[p]
           \/ \A o \in Request : request'[o].at \in {"roles", "unassign", "done"} => p \in request'[o].fresh
<1>1. TypeOK /\ StoreTypeOK /\ RequestsFit /\ RolesBelong /\ request \in [Request -> RequestRecord]
  BY DEF Inductive, TypeOK, RequestRecord
<1>2. CASE UNCHANGED <<origin, roles>>
  BY <1>2
<1>3. ASSUME NEW x \in Principal, NEW made, CreatePrincipal(x, made)
      PROVE  origin[p].rule = r /\ ContentWriter \in roles[p]
  BY <1>1, <1>3 DEF CreatePrincipal, StoreTypeOK, RolesBelong
<1>4. ASSUME NEW s \in Server, ServerStep(s) PROVE origin[p].rule = r /\ ContentWriter \in roles[p]
  <2>1. CASE BootstrapRole(s)
    BY <1>1, <2>1 DEF BootstrapRole, AssignRole, StoreTypeOK, AuthManager, ContentWriter
  <2>2. CASE BootstrapPrincipal(s)
    BY <1>3, <2>2 DEF BootstrapPrincipal, NewPrincipals
  <2> QED BY <1>2, <1>4, <2>1, <2>2 DEF ServerStep, Start, Look, Stop, BootstrapToken, IssueToken,
          BootstrapPrint, store, grants
<1>5. ASSUME NEW q \in Request, NEW x \in Principal,
             \/ request' = [WithFresh(x) EXCEPT ![q] = Free]
             \/ \E y : request' = [WithFresh(x) EXCEPT ![q] = Authorizing(q, y)]
      PROVE  \A o \in Request : request'[o].at \in {"roles", "unassign", "done"} => x \in request'[o].fresh
  <2>1. request'[q].at \notin {"roles", "unassign", "done"}
    <3>1. request'[q] = Free \/ \E y : request'[q] = Authorizing(q, y)
      BY <1>5 DEF WithFresh
    <3>2. Free.at = "idle" /\ \A y : Authorizing(q, y).at = "authorize"
      BY DEF Free, Authorizing
    <3> QED BY <3>1, <3>2
  <2>2. ASSUME NEW o \in Request, o # q
        PROVE  request'[o] = IF request[o].at \in {"roles", "unassign", "done"}
                             THEN [request[o] EXCEPT !.fresh = @ \cup {x}] ELSE request[o]
    BY <1>1, <1>5, <2>2 DEF WithFresh
  <2>3. ASSUME NEW o \in Request, o # q, request'[o].at \in {"roles", "unassign", "done"}
        PROVE  x \in request'[o].fresh
    BY <1>1, <2>2, <2>3, ZenonT(60) DEF RequestRecord
  <2> QED BY <2>1, <2>3
<1>6. ASSUME NEW q \in Request, PipelineStep(q)
      PROVE  \/ origin[p].rule = r /\ ContentWriter \in roles[p]
             \/ \A o \in Request : request'[o].at \in {"roles", "unassign", "done"} => p \in request'[o].fresh
  <2>1. CASE UNCHANGED store
    BY <1>2, <2>1 DEF store, grants
  <2>2. ASSUME NEW x \in NewPrincipals, NEW y \in request[q].rules,
               ProvisionIdentity(x, request[q].identity, y),
               request' = [WithFresh(x) EXCEPT ![q] = Authorizing(q, x)]
        PROVE  \/ origin[p].rule = r /\ ContentWriter \in roles[p]
               \/ \A o \in Request : request'[o].at \in {"roles", "unassign", "done"} => p \in request'[o].fresh
    BY <1>1, <1>5, <2>2 DEF ProvisionIdentity, StoreTypeOK, NewPrincipals
  <2> QED BY <1>6, <2>1, <2>2 DEF PipelineStep, AuthenticateToken, AuthenticateIdentity, Receive, ResolveLink,
          MatchRules, ExistingRulePrincipal, Provision, Authorize, Interrupt
<1>7. ASSUME NEW q \in Request, HandlerStep(q)
      PROVE  \/ origin[p].rule = r /\ ContentWriter \in roles[p]
             \/ \A o \in Request : request'[o].at \in {"roles", "unassign", "done"} => p \in request'[o].fresh
  <2>1. CASE AssignPrincipalRole(q)
    <3>1. request[q].op.p \in Principal
      BY <1>1, <2>1, OperationTypes DEF AssignPrincipalRole, Runs, RequestsFit
    <3>2. \A o \in Request : request'[o].at \in {"roles", "unassign", "done"} =>
             request[q].op.p \in request'[o].fresh
      BY <1>5, <2>1, <3>1 DEF AssignPrincipalRole
    <3> QED BY <1>1, <2>1, <3>1, <3>2 DEF AssignPrincipalRole, AssignRole, StoreTypeOK, store, grants
  <2>2. CASE UnassignPrincipalRole(q) \/ ReconcileUnassign(q)
    BY <1>1, <2>2 DEF UnassignPrincipalRole, ReconcileUnassign, UnassignRole, StoreTypeOK, store, grants
  <2>3. CASE CreateOperatorPrincipal(q)
    BY <1>3, <2>3 DEF CreateOperatorPrincipal, NewPrincipals
  <2> QED BY <1>2, <1>7, <2>1, <2>2, <2>3 DEF HandlerStep, WriteContent, IssueAPIToken, IssueToken, RevokeAPIToken,
          EndToken, SaveRequested, FindProvider, TrustMerged, TrustProvider, SaveProvisioningRule, SaveRule,
          DeleteOIDCProvisioningRule, DeleteRule, ReconcileList, ReconcileRead, Answer, store, grants
<1>8. ASSUME NEW t \in Token, TokenExpires(t) PROVE UNCHANGED <<origin, roles>>
  BY <1>8 DEF TokenExpires, EndToken
<1> QED BY <1>2, <1>4, <1>6, <1>7, <1>8 DEF Next, vars, store, grants

\* Reconciliations keep track of the writers of their rule.
LEMMA ReconciliationsStay ==
    ASSUME Inductive, [Next]_vars
    PROVE  ReconciliationsKnow'
<1> SUFFICES ASSUME NEW o \in Request, request'[o].at \in {"roles", "unassign", "done"},
                    NEW p \in Principal, origin'[p].rule = request'[o].op.r, ContentWriter \in roles'[p]
             PROVE  \/ p \in request'[o].fresh
                    \/ p \in request'[o].found /\ request'[o].at # "done"
                    \/ p \in request'[o].todo /\ request'[o].at = "roles"
  BY DEF ReconciliationsKnow
<1>1. TypeOK /\ StoreTypeOK /\ RequestsFit /\ ReconciliationsKnow /\ request \in [Request -> RequestRecord]
  BY DEF Inductive, TypeOK, RequestRecord
<1>2. request'[o].op.r \in Rule
  BY <1>1, RequestTypes, OperationTypes DEF RequestsFit
<1>3. SUFFICES ASSUME origin[p].rule = request'[o].op.r, ContentWriter \in roles[p]
               PROVE  \/ p \in request'[o].fresh
                      \/ p \in request'[o].found /\ request'[o].at # "done"
                      \/ p \in request'[o].todo /\ request'[o].at = "roles"
  BY <1>2, NewWriters
<1> USE <1>1, <1>3 DEF RequestRecord
<1>4. CASE ReconcileList(o)
  <2>1. /\ request'[o].at = "roles" /\ request'[o].op = request[o].op
        /\ request'[o].todo = {x \in Principal : origin[x].rule = request[o].op.r}
    BY <1>4 DEF ReconcileList
  <2> QED BY <2>1
<1>5. CASE ReconcileRead(o)
  <2>1. ASSUME NEW x \in request[o].todo,
               request' = [request EXCEPT ![o].todo = @ \ {x},
                                          ![o].found = IF WritesContent(x) THEN @ \cup {x} ELSE @]
        PROVE  \/ p \in request'[o].fresh
               \/ p \in request'[o].found /\ request'[o].at # "done"
               \/ p \in request'[o].todo /\ request'[o].at = "roles"
    <3>1. /\ request'[o].at = "roles" /\ request'[o].op = request[o].op /\ request'[o].fresh = request[o].fresh
          /\ request'[o].todo = request[o].todo \ {x}
          /\ request'[o].found = IF WritesContent(x) THEN request[o].found \cup {x} ELSE request[o].found
      <4> DEFINE found == IF WritesContent(x) THEN request[o].found \cup {x} ELSE request[o].found
      <4>1. request' = [request EXCEPT ![o].todo = @ \ {x}, ![o].found = found] /\ request[o].at = "roles"
        BY <1>5, <2>1 DEF ReconcileRead
      <4> HIDE DEF found
      <4>2. /\ request'[o].at = "roles" /\ request'[o].op = request[o].op
            /\ request'[o].fresh = request[o].fresh
            /\ request'[o].todo = request[o].todo \ {x} /\ request'[o].found = found
        BY <4>1
      <4> QED BY <4>2 DEF found
    <3> QED BY <1>5, <3>1 DEF ReconcileRead, ReconciliationsKnow, WritesContent
  <2>2. CASE request[o].todo = {} /\ Goto(o, "unassign")
    BY <1>5, <2>2 DEF ReconcileRead, Goto, ReconciliationsKnow
  <2> QED BY <1>5, <2>1, <2>2 DEF ReconcileRead
<1>6. CASE ReconcileUnassign(o)
  <2>1. ASSUME NEW x \in request[o].found, UnassignRole(x, ContentWriter),
               request' = [request EXCEPT ![o].found = @ \ {x}]
        PROVE  p \in request'[o].fresh \/ (p \in request'[o].found /\ request'[o].at # "done")
    <3>1. /\ request'[o].at = "unassign" /\ request'[o].op = request[o].op /\ request'[o].fresh = request[o].fresh
          /\ request'[o].found = request[o].found \ {x}
      BY <1>6, <2>1 DEF ReconcileUnassign
    <3>2. p # x
      BY <2>1 DEF UnassignRole, StoreTypeOK
    <3> QED BY <1>6, <3>1, <3>2 DEF ReconcileUnassign, ReconciliationsKnow
  <2>2. CASE request[o].found = {} /\ Goto(o, "done")
    BY <1>6, <2>2 DEF ReconcileUnassign, Goto, ReconciliationsKnow
  <2> QED BY <1>6, <2>1, <2>2 DEF ReconcileUnassign
<1> QED BY <1>4, <1>5, <1>6, Arrivals DEF ReconciliationsKnow

-----------------------------------------------------------------------------
(* The inductive invariant.                                                 *)

LEMMA InductiveInit == Init => Inductive
<1> SUFFICES ASSUME Init PROVE Inductive
  OBVIOUS
<1>1. /\ request = [q \in Request |-> Free] /\ link = [i \in Identity |-> None]
      /\ raced = {} /\ mislaid = FALSE
  BY DEF Init
<1>2. RequestsFit /\ ReconciliationsKnow
  BY <1>1 DEF RequestsFit, ReconciliationsKnow, Free
<1>3. CASE FreshStore
  <2>1. TypeOK
    <3>1. StoreTypeOK
      BY <1>1, <1>3 DEF FreshStore, StoreTypeOK, Origin, TokenRow, RuleRow
    <3>2. server \in [Server -> [at : ServerAt, todo : SUBSET Principal,
                                p : Principal \cup {None}, t : Token \cup {None}]]
      BY <1>3 DEF FreshStore, Down, ServerAt
    <3> QED BY <1>1, <1>3, <3>1, <3>2 DEF FreshStore, TypeOK, Free, RequestAt
  <2>2. RolesBelong /\ LinksAgree /\ BootstrapsKnow
    BY <1>1, <1>3 DEF FreshStore, RolesBelong, LinksAgree, BootstrapsKnow, Exists, NoOrigin, Down
  <2>3. AdministratorsStay
    BY <1>1, <1>3 DEF FreshStore, AdministratorsStay, Administrators, Down, Free
  <2>4. TrustIsMerged
    BY <1>1, <1>3 DEF FreshStore, TrustIsMerged, TrustIsLostOnlyToRaces, Free
  <2> QED BY <1>2, <2>1, <2>2, <2>3, <2>4 DEF Inductive
<1>4. CASE ManagedStore
  <2>1. PICK p \in Principal, m \in Principal, t \in Token, s \in Server, r \in Rule, i \in Identity :
           Managed(p, m, t, s, r, i)
    BY <1>4, ZenonT(60) DEF ManagedStore
  <2>2. \A x \in Principal : origin[x] \in {Bootstrapped, OperatorMade(r, i), NoOrigin}
                             /\ (x \in {p, m} => origin[x] # NoOrigin)
    BY <2>1 DEF Managed, Bootstrapped, OperatorMade, NoOrigin
  <2>3. StoreTypeOK
    <3>1. origin \in [Principal -> Origin]
      <4>1. {Bootstrapped, OperatorMade(r, i), NoOrigin} \subseteq Origin
        BY DEF Origin, MadeOrigins
      <4>2. origin = [x \in Principal |-> origin[x]]
        BY <2>1 DEF Managed
      <4> QED BY <2>2, <4>1, <4>2
    <3>2. Audience[i] \in Audiences
      BY DEF Audiences
    <3> QED BY <1>1, <2>1, <3>1, <3>2 DEF Managed, StoreTypeOK, TokenRow, RuleRow, Role
  <2>4. TypeOK
    <3>1. server \in [Server -> [at : ServerAt, todo : SUBSET Principal,
                                p : Principal \cup {None}, t : Token \cup {None}]]
      BY <2>1 DEF Managed, Down, ServerAt
    <3>2. arrived \in Nat
      BY <2>1 DEF Managed
    <3>3. request \in [Request -> RequestRecord]
      BY <1>1 DEF RequestRecord, Free, RequestAt
    <3> QED BY <1>1, <2>3, <3>1, <3>2, <3>3 DEF TypeOK, RequestRecord
  <2>5. RolesBelong
    BY <2>1, <2>2 DEF Managed, RolesBelong, Exists
  <2>6. LinksAgree
    BY <1>1, <2>2 DEF LinksAgree, Bootstrapped, OperatorMade, NoOrigin
  <2>7. BootstrapsKnow
    BY <2>1 DEF Managed, BootstrapsKnow, Down
  <2>8. AdministratorsStay
    <3>1. p \in Administrators /\ token[t].of = p /\ token[t].is = "known"
      BY <2>1 DEF Managed, Administrators
    <3> QED BY <3>1 DEF AdministratorsStay, WayIn
  <2>9. TrustIsMerged
    BY <1>1, <2>1 DEF Managed, TrustIsMerged, TrustIsLostOnlyToRaces, Free
  <2> QED BY <1>2, <2>4, <2>5, <2>6, <2>7, <2>8, <2>9 DEF Inductive
<1> QED BY <1>3, <1>4 DEF Init

LEMMA InductiveNext == Inductive /\ [Next]_vars => Inductive'
<1> SUFFICES ASSUME Inductive, [Next]_vars PROVE Inductive'
  OBVIOUS
<1>1. TypeOK /\ StoreTypeOK /\ RequestsFit /\ RolesBelong /\ LinksAgree
  BY DEF Inductive, TypeOK
<1>2. TypeOK'
  BY <1>1, StepsAreStoreSteps, StoreTypes, ServerTypes, RequestTypes DEF TypeOK, RequestRecord
<1>3. RolesBelong' /\ LinksAgree'
  BY <1>1, StepsAreStoreSteps, PrincipalsAgree
<1>4. RequestsFit'
  BY <1>1, RequestTypes
<1> QED BY <1>2, <1>3, <1>4, TrustStaysMerged, BootstrapsStay, AdministratorsRemain, ReconciliationsStay
        DEF Inductive

\* The inductive invariant holds however many servers start and stop, and whatever
\* requests are sent and interrupted.
THEOREM InductiveHolds == Spec => []Inductive
<1>1. Inductive /\ [Next]_vars => Inductive'
  BY InductiveNext
<1> QED BY InductiveInit, <1>1, PTL DEF Spec

\* Every row, server and request keeps its type.
THEOREM TypeCorrect == Spec => []TypeOK
<1>1. Inductive => TypeOK
  BY DEF Inductive
<1> QED BY InductiveHolds, <1>1, PTL

\* A server serves only when an administrator has a token in hand, is being printed one,
\* or an act took the last one, however bootstraps interleave and fail.
THEOREM AdministratorsGetIn == Spec => []AdministratorReachable
<1>1. Inductive => AdministratorReachable
  BY DEF Inductive, AdministratorsStay, AdministratorReachable
<1> QED BY InductiveHolds, <1>1, PTL

\* First requests of one identity make one principal, however many race.
THEOREM IdentitiesHaveOnePrincipal == Spec => []OnePrincipalPerIdentity
<1>1. Inductive => OnePrincipalPerIdentity
  BY DEF Inductive, LinksAgree, OnePrincipalPerIdentity
<1> QED BY InductiveHolds, <1>1, PTL

\* A reconciliation that answers has overlooked no principal of its rule.
THEOREM ReconciliationsRevoke == Spec => []ReconciliationRevokes
<1>1. Inductive => ReconciliationRevokes
  BY DEF Inductive, ReconciliationsKnow, ReconciliationRevokes
<1> QED BY InductiveHolds, <1>1, PTL

\* A rule's audience is trusted unless its own last save overlapped another save, however
\* many rules are saved at once.
THEOREM TrustLossesAreRaces == Spec => []TrustIsLostOnlyToRaces
<1>1. Inductive => TrustIsLostOnlyToRaces
  BY DEF Inductive, TrustIsMerged
<1> QED BY InductiveHolds, <1>1, PTL

-----------------------------------------------------------------------------
(* A lockout is final.                                                      *)

\* What LockedOut says of a request, and of a server.
Resolving == {"resolve", "match", "existing", "provision"}
Harmless(x) ==
    \/ x.at = "idle"
    \/ /\ x.at \in Resolving
       /\ ~Claims(x.identity, MatchingRules(x.identity))
       /\ ~Claims(x.identity, x.rules)
    \/ x.at = "authorize" /\ x.who \notin Administrators
    \/ x.op.do = "write"
Detained(x) ==
    \/ x.at \in {"down", "up"}
    \/ x.at = "look" /\ x.todo \cap Administrators # {}

\* A handler that runs in a lockout writes content.
LEMMA OnlyWritersRun ==
    ASSUME Inductive, LockedOut, NEW q \in Request, HandlerStep(q)
    PROVE  WriteContent(q)
<1>1. /\ request[q].at \notin {"idle", "resolve", "match", "existing", "provision", "authorize"} =>
             request[q].op.do = "write"
      /\ request[q].at \in {"find_provider", "trust", "save"} =>
             request[q].op.do \in {"create_rule", "update_rule"}
      /\ request[q].at \in {"roles", "unassign", "done"} => request[q].op.do = "reconcile"
  BY DEF LockedOut, Inductive, RequestsFit
<1> QED BY <1>1 DEF HandlerStep, CreateOperatorPrincipal, AssignPrincipalRole, UnassignPrincipalRole, IssueAPIToken,
        RevokeAPIToken, SaveRequested, FindProvider, TrustMerged, SaveProvisioningRule, DeleteOIDCProvisioningRule,
        ReconcileList, ReconcileRead, ReconcileUnassign, Answer, Runs

\* A bootstrap that starts in a lockout finds the administrator and makes no other.
LEMMA OnlyFinders ==
    ASSUME Inductive, LockedOut, NEW s \in Server, ServerStep(s)
    PROVE  /\ UNCHANGED <<store, request>>
           /\ server' = [server EXCEPT ![s] = server'[s]] /\ Detained(server'[s])
<1>1. TypeOK /\ RolesBelong /\ Administrators # {} /\ Detained(server[s])
  BY DEF Inductive, LockedOut, Detained
<1>2. server[s].at \in {"down", "up", "look"}
  BY <1>1 DEF Detained
<1>3. CASE Start(s)
  <2> DEFINE all == {p \in Principal : Exists(p)}
  <2>1. /\ UNCHANGED <<store, request>>
        /\ server' = [server EXCEPT ![s].at = "look", ![s].todo = all]
    BY <1>3 DEF Start
  <2>2. Administrators \subseteq all
    BY <1>1 DEF RolesBelong, Administrators
  <2> HIDE DEF all
  <2>3. server' = [server EXCEPT ![s] = server'[s]] /\ server'[s].at = "look" /\ server'[s].todo = all
    BY <1>1, <2>1 DEF TypeOK
  <2> QED BY <1>1, <2>1, <2>2, <2>3 DEF Detained
<1>4. CASE Look(s)
  <2>1. PICK p \in server[s].todo :
          server' = IF IsAdministrator(p)
                    THEN [server EXCEPT ![s] = [Down EXCEPT !.at = "up"]]
                    ELSE [server EXCEPT ![s].todo = @ \ {p}]
    BY <1>1, <1>4 DEF Look, Detained
  <2>2. UNCHANGED <<store, request>> /\ server[s].at = "look"
    BY <1>4 DEF Look
  <2>3. CASE IsAdministrator(p)
    <3>1. server' = [server EXCEPT ![s] = server'[s]] /\ server'[s].at = "up"
      BY <1>1, <2>1, <2>3 DEF TypeOK, Down
    <3> QED BY <2>2, <3>1 DEF Detained
  <2>4. CASE ~IsAdministrator(p)
    <3>1. /\ server' = [server EXCEPT ![s] = server'[s]] /\ server'[s].at = "look"
          /\ server'[s].todo = server[s].todo \ {p}
      BY <1>1, <2>1, <2>2, <2>4 DEF TypeOK
    <3>2. p \notin Administrators
      BY <2>4 DEF IsAdministrator, Administrators
    <3> QED BY <1>1, <2>2, <3>1, <3>2 DEF Detained
  <2> QED BY <2>3, <2>4
<1>5. CASE Stop(s)
  BY <1>1, <1>5 DEF Stop, TypeOK, Detained, Down
<1> QED BY <1>2, <1>3, <1>4, <1>5 DEF ServerStep, BootstrapPrincipal, BootstrapToken, BootstrapRole, BootstrapPrint

\* The rows during a lockout: tokens end, and principals that are no administrators are
\* provisioned.
QuietStep ==
    \/ UNCHANGED store
    \/ \E t \in Token : /\ token' = [token EXCEPT ![t].is = "ended"]
                        /\ UNCHANGED <<origin, roles, link, policy>>
    \/ \E p \in Principal, i \in Identity, r \in Rule :
          /\ ~Exists(p)
          /\ origin' = [origin EXCEPT ![p] = Provisioned(r, i)]
          /\ roles' = [roles EXCEPT ![p] = {ContentWriter}]
          /\ link' = [link EXCEPT ![i] = p]
          /\ UNCHANGED <<token, policy>>

\* Then there are the same administrators, still nobody has a token of one, and no
\* identity has become linked to one or comes to be matched with one.
LEMMA QuietStepsKeepClaims ==
    ASSUME Inductive, LockedOut, QuietStep
    PROVE  /\ Administrators' = Administrators /\ ~WayIn' /\ UNCHANGED policy
           /\ \A i \in Identity, rules \in SUBSET Rule :
                 ~Claims(i, rules) =>
                    /\ link'[i] \notin Administrators
                    /\ \A p \in Administrators :
                          ~(/\ origin'[p].identity # None
                            /\ Subject[origin'[p].identity] = Subject[i]
                            /\ origin'[p].rule \in rules)
<1>1. StoreTypeOK /\ RolesBelong /\ ~WayIn
  BY DEF Inductive, TypeOK, LockedOut
<1>2. UNCHANGED policy
  BY DEF QuietStep, store
<1>3. Administrators' = Administrators
      /\ \A p \in Administrators : origin'[p] = origin[p]
      /\ \A i \in Identity : link'[i] \in Administrators => link'[i] = link[i]
  <2>1. CASE UNCHANGED <<origin, roles, link>>
    BY <2>1 DEF Administrators
  <2>2. ASSUME NEW p \in Principal, NEW i \in Identity, NEW made, ~Exists(p),
               origin' = [origin EXCEPT ![p] = made],
               roles' = [roles EXCEPT ![p] = {ContentWriter}],
               link' = [link EXCEPT ![i] = p]
        PROVE  /\ Administrators' = Administrators
               /\ \A a \in Administrators : origin'[a] = origin[a]
               /\ \A j \in Identity : link'[j] \in Administrators => link'[j] = link[j]
    <3>1. p \notin Administrators /\ AuthManager # ContentWriter
      BY <1>1, <2>2 DEF RolesBelong, Administrators, AuthManager, ContentWriter
    <3> QED BY <1>1, <2>2, <3>1 DEF Administrators, StoreTypeOK
  <2> QED BY <2>1, <2>2 DEF QuietStep, store, grants
<1>4. \A t \in Token : token'[t].is = "known" => token'[t] = token[t]
  <2>1. CASE UNCHANGED token
    BY <2>1
  <2>2. ASSUME NEW t \in Token, token' = [token EXCEPT ![t].is = "ended"]
        PROVE  \A u \in Token : token'[u].is = "known" => token'[u] = token[u]
    BY <1>1, <2>2 DEF StoreTypeOK, TokenRow, NoToken
  <2> QED BY <2>1, <2>2 DEF QuietStep, store, grants
<1>5. ~WayIn'
  BY <1>1, <1>3, <1>4 DEF WayIn
<1>6. ASSUME NEW i \in Identity, NEW rules \in SUBSET Rule, ~Claims(i, rules)
      PROVE  /\ link'[i] \notin Administrators
             /\ \A p \in Administrators :
                   ~(/\ origin'[p].identity # None
                     /\ Subject[origin'[p].identity] = Subject[i]
                     /\ origin'[p].rule \in rules)
  BY <1>3, <1>6 DEF Claims, RulePrincipals, Administrators
<1> QED BY <1>2, <1>3, <1>5, <1>6

\* Nobody who is authenticated in a lockout is an administrator, and nobody who is not
\* gets to manage anything.
LEMMA OnlyOthersGetIn ==
    ASSUME Inductive, LockedOut, NEW q \in Request, PipelineStep(q)
    PROVE  UNCHANGED server /\ Harmless(request'[q]) /\ QuietStep
<1> DEFINE Kept == UNCHANGED server /\ Harmless(request'[q]) /\ QuietStep
<1>1. /\ TypeOK /\ StoreTypeOK /\ RolesBelong /\ Harmless(request[q])
      /\ request \in [Request -> RequestRecord]
  BY DEF Inductive, LockedOut, Harmless, Resolving, TypeOK, RequestRecord
<1>2. /\ None \notin Administrators
      /\ \A t \in Token : token[t].is = "known" => token[t].of \notin Administrators
      /\ \A i \in Identity : Audience[i] \in trust =>
            ~Claims(i, MatchingRules(i)) /\ ~Claims(i, {})
  BY AbsenceAssumption DEF LockedOut, WayIn, Administrators, Claims, RulePrincipals
\* Who is resolved is no administrator, or writes content.
<1>a. ASSUME request[q].at \in Resolving, request[q].op.do # "write"
      PROVE  /\ ~Claims(request[q].identity, MatchingRules(request[q].identity))
             /\ ~Claims(request[q].identity, request[q].rules)
             /\ link[request[q].identity] \notin Administrators
             /\ RulePrincipals(request[q].identity, request[q].rules) \cap Administrators = {}
  BY <1>1, <1>a DEF Harmless, Resolving, Claims
<1>3. ASSUME UNCHANGED <<store, server>>, NEW x, request' = [request EXCEPT ![q] = x], Harmless(x)
      PROVE  Kept
  BY <1>1, <1>3 DEF QuietStep
<1>4. ASSUME UNCHANGED <<store, server>>, Return(q) PROVE Kept
  BY <1>3, <1>4 DEF Return, Harmless, Free
<1>5. ASSUME NEW t \in Token, NEW op \in Operation, AuthenticateToken(q, t, op) PROVE Kept
  <2>1. token[t].of \notin Administrators /\ UNCHANGED <<store, server>>
    BY <1>2, <1>5 DEF AuthenticateToken, Receive
  <2> DEFINE x == [Free EXCEPT !.at = "authorize", !.identity = None, !.op = op, !.who = token[t].of]
  <2>2. request' = [request EXCEPT ![q] = x]
    BY <1>5 DEF AuthenticateToken, Receive
  <2>3. Harmless(x)
    BY <2>1 DEF Harmless, Free
  <2> HIDE DEF x
  <2> QED BY <1>3, <2>1, <2>2, <2>3
<1>6. ASSUME NEW i \in Identity, NEW op \in Operation, AuthenticateIdentity(q, i, op) PROVE Kept
  <2> DEFINE x == [Free EXCEPT !.at = "resolve", !.identity = i, !.op = op, !.who = None]
  <2>1. UNCHANGED <<store, server>> /\ request' = [request EXCEPT ![q] = x]
    BY <1>6 DEF AuthenticateIdentity, Receive
  <2>2. ~Claims(i, MatchingRules(i)) /\ ~Claims(i, {})
    BY <1>2, <1>6 DEF AuthenticateIdentity
  <2>3. x.at = "resolve" /\ x.identity = i /\ x.rules = {}
    BY DEF Free
  <2> HIDE DEF x
  <2>4. Harmless(x)
    BY <2>2, <2>3 DEF Harmless, Resolving
  <2> QED BY <1>3, <2>1, <2>4
<1>7. ASSUME NEW p, p \notin Administrators \/ request[q].op.do = "write"
      PROVE  Harmless(Authorizing(q, p))
  <2>1. /\ Authorizing(q, p).at = "authorize" /\ Authorizing(q, p).who = p
        /\ Authorizing(q, p).op = request[q].op
    BY DEF Authorizing, Free
  <2> QED BY <1>7, <2>1 DEF Harmless
<1>8. ASSUME NEW at \in Resolving, request[q].at \in Resolving, UNCHANGED <<store, server>>,
             request' = [request EXCEPT ![q].at = at]
      PROVE  Kept
  <2> DEFINE x == [request[q] EXCEPT !.at = at]
  <2>1. request' = [request EXCEPT ![q] = x]
    BY <1>1, <1>8
  <2>2. /\ x.at = at /\ x.op = request[q].op /\ x.rules = request[q].rules
        /\ x.identity = request[q].identity
    BY <1>1 DEF RequestRecord
  <2> HIDE DEF x
  <2>3. Harmless(x)
    BY <1>8, <1>a, <2>2 DEF Harmless
  <2> QED BY <1>3, <1>8, <2>1, <2>3
<1>9. ASSUME ResolveLink(q) PROVE Kept
  <2>1. request[q].at = "resolve" /\ UNCHANGED <<store, server>>
    BY <1>9 DEF ResolveLink
  <2> DEFINE p == link[request[q].identity]
  <2>2. CASE request' = [request EXCEPT ![q] = Authorizing(q, p)]
    <3>1. Harmless(Authorizing(q, p))
      BY <1>7, <1>a, <2>1 DEF Resolving
    <3> QED BY <1>3, <2>1, <2>2, <3>1
  <2>3. CASE Goto(q, "match")
    BY <1>8, <2>1, <2>3 DEF Goto, Resolving
  <2> QED BY <1>9, <2>2, <2>3 DEF ResolveLink
<1>10. ASSUME MatchRules(q) PROVE Kept
  <2>1. UNCHANGED <<store, server>> /\ request[q].at = "match"
    BY <1>10 DEF MatchRules
  <2> DEFINE matched == MatchingRules(request[q].identity)
  <2>2. CASE matched = {}
    <3>1. request' = [request EXCEPT ![q] = Authorizing(q, None)] /\ Harmless(Authorizing(q, None))
      BY <1>2, <1>7, <1>10, <2>2 DEF MatchRules
    <3> QED BY <1>3, <2>1, <3>1
  <2>3. CASE matched # {}
    <3> DEFINE x == [request[q] EXCEPT !.at = "existing", !.rules = matched]
    <3>1. request' = [request EXCEPT ![q] = x]
      BY <1>1, <1>10, <2>3 DEF MatchRules
    <3>2. /\ x.at = "existing" /\ x.op = request[q].op /\ x.rules = matched
          /\ x.identity = request[q].identity
      BY <1>1 DEF RequestRecord
    <3> HIDE DEF x
    <3>3. Harmless(x)
      BY <1>a, <2>1, <3>2 DEF Harmless, Resolving
    <3> QED BY <1>3, <2>1, <3>1, <3>3
  <2> QED BY <2>2, <2>3
<1>11. ASSUME ExistingRulePrincipal(q) PROVE Kept
  <2>1. UNCHANGED <<store, server>> /\ request[q].at = "existing"
    BY <1>11 DEF ExistingRulePrincipal
  <2>2. ASSUME NEW p \in RulePrincipals(request[q].identity, request[q].rules),
               request' = [request EXCEPT ![q] = Authorizing(q, p)]
        PROVE  Kept
    <3>1. Harmless(Authorizing(q, p))
      BY <1>7, <1>a, <2>1 DEF Resolving
    <3> QED BY <1>3, <2>1, <2>2, <3>1
  <2>3. CASE Goto(q, "provision")
    BY <1>8, <2>1, <2>3 DEF Goto, Resolving
  <2> QED BY <1>11, <2>2, <2>3 DEF ExistingRulePrincipal
<1>12. ASSUME Provision(q) PROVE Kept
  <2> DEFINE i == request[q].identity
  <2>0. UNCHANGED server /\ i \in Identity /\ request[q].at = "provision"
    BY <1>12 DEF Provision, Inductive, RequestsFit
  <2>1. ASSUME NEW p \in NewPrincipals, NEW r \in request[q].rules, ProvisionIdentity(p, i, r),
               request' = [WithFresh(p) EXCEPT ![q] = Authorizing(q, p)]
        PROVE  Kept
    <3>1. p \in Principal /\ ~Exists(p) /\ p \notin Administrators /\ r \in Rule
      BY <1>1 DEF NewPrincipals, RolesBelong, Administrators, RequestRecord
    <3>2. request'[q] = Authorizing(q, p)
      BY <2>1 DEF WithFresh
    <3>3. Harmless(Authorizing(q, p))
      BY <1>7, <3>1
    <3>4. QuietStep
      BY <2>0, <2>1, <3>1 DEF ProvisionIdentity, QuietStep
    <3> QED BY <2>0, <3>2, <3>3, <3>4
  <2>2. CASE UNCHANGED store /\ Return(q)
    BY <1>4, <2>0, <2>2
  <2>3. CASE UNCHANGED store /\ request' = [request EXCEPT ![q] = Authorizing(q, link[i])]
    <3>1. Harmless(Authorizing(q, link[i]))
      BY <1>7, <1>a, <2>0 DEF Resolving
    <3> QED BY <1>3, <2>0, <2>3, <3>1
  <2> HIDE DEF Kept
  <2>4. \/ \E p \in NewPrincipals, r \in request[q].rules :
             ProvisionIdentity(p, i, r) /\ request' = [WithFresh(p) EXCEPT ![q] = Authorizing(q, p)]
        \/ UNCHANGED store /\ Return(q)
        \/ UNCHANGED store /\ request' = [request EXCEPT ![q] = Authorizing(q, link[i])]
    BY <1>12 DEF Provision
  <2> QED BY <2>1, <2>2, <2>3, <2>4
<1>13. ASSUME Authorize(q) PROVE Kept
  <2>1. UNCHANGED <<store, server>> /\ request[q].at = "authorize" /\ request[q].op \in Operation
    BY <1>13 DEF Authorize, Inductive, RequestsFit
  <2>2. CASE Return(q)
    BY <1>4, <2>1, <2>2
  <2>3. CASE /\ Can(request[q].who, Action(request[q].op))
             /\ request' = [request EXCEPT ![q].at = "run", ![q].who = None]
    <3>1. request[q].op.do = "write"
      <4>1. CASE request[q].who \notin Administrators
        <5>1. request[q].who \in Principal \cup {None}
          BY <1>1 DEF RequestRecord
        <5>2. ~Can(request[q].who, "auth.manage")
          BY <4>1, <5>1 DEF Can, Grants, Administrators
        <5> QED BY <2>3, <5>2 DEF Action
      <4> QED BY <1>1, <2>1, <4>1 DEF Harmless, Resolving
    <3>2. request'[q].op = request[q].op
      BY <1>1, <2>3 DEF RequestRecord
    <3>3. Harmless(request'[q])
      BY <3>1, <3>2 DEF Harmless
    <3> QED BY <2>1, <3>3 DEF QuietStep
  <2> QED BY <1>13, <2>2, <2>3 DEF Authorize
<1>14. ASSUME Interrupt(q) PROVE Kept
  BY <1>4, <1>14 DEF Interrupt
<1> HIDE DEF Kept
<1>15. Kept
  BY <1>5, <1>6, <1>9, <1>10, <1>11, <1>12, <1>13, <1>14 DEF PipelineStep
<1> QED BY <1>15 DEF Kept

\* Administrators and what leads to them stay as they are while nobody can act as one.
LEMMA LockoutsStay ==
    ASSUME Inductive, LockedOut, [Next]_vars
    PROVE  LockedOut'
<1>1. TypeOK /\ request \in [Request -> RequestRecord] /\ Administrators # {}
      /\ (\A q \in Request : Harmless(request[q])) /\ (\A s \in Server : Detained(server[s]))
      /\ \A i \in Identity : Audience[i] \in trust => ~Claims(i, MatchingRules(i))
  BY DEF Inductive, LockedOut, Harmless, Resolving, Detained, TypeOK, RequestRecord
<1>2. ASSUME QuietStep, \A q \in Request : Harmless(request'[q]), \A s \in Server : Detained(server'[s])
      PROVE  LockedOut'
  <2>1. /\ Administrators' = Administrators /\ ~WayIn' /\ rule' = rule /\ trust' = trust
        /\ \A i \in Identity, rules \in SUBSET Rule :
              ~Claims(i, rules) =>
                 /\ link'[i] \notin Administrators
                 /\ \A p \in Administrators :
                       ~(/\ origin'[p].identity # None
                         /\ Subject[origin'[p].identity] = Subject[i]
                         /\ origin'[p].rule \in rules)
    BY <1>2, QuietStepsKeepClaims DEF policy
  <2>2. ASSUME NEW i \in Identity, NEW rules \in SUBSET Rule, ~Claims(i, rules)
        PROVE  ~Claims(i, rules)'
    BY <2>1, <2>2 DEF Claims, RulePrincipals
  <2>3. ASSUME NEW i \in Identity
        PROVE  MatchingRules(i)' = MatchingRules(i) /\ MatchingRules(i) \in SUBSET Rule
    BY <2>1 DEF MatchingRules
  <2>4. ASSUME NEW i \in Identity, ~Claims(i, MatchingRules(i)) PROVE ~Claims(i, MatchingRules(i))'
    BY <2>1, <2>3, <2>4 DEF Claims, RulePrincipals
  <2>5. ASSUME NEW q \in Request, request'[q].at \in Resolving,
               ~Claims(request'[q].identity, MatchingRules(request'[q].identity)),
               ~Claims(request'[q].identity, request'[q].rules)
        PROVE  /\ ~Claims(request[q].identity, MatchingRules(request[q].identity))'
               /\ ~Claims(request[q].identity, request[q].rules)'
    <3>1. request'[q].identity \in Identity /\ request'[q].rules \in SUBSET Rule
      BY <1>1, <2>5, RequestTypes DEF Inductive, RequestsFit, RequestRecord, Resolving
    <3>2. MatchingRules(request[q].identity)' = MatchingRules(request'[q].identity)
      BY <2>1 DEF MatchingRules
    <3>3. MatchingRules(request'[q].identity) \in SUBSET Rule
      BY DEF MatchingRules
    <3>4. ASSUME NEW rules \in SUBSET Rule, ~Claims(request'[q].identity, rules)
          PROVE  /\ link'[request'[q].identity] \notin Administrators'
                 /\ \A p \in Administrators' :
                       ~(/\ origin'[p].identity # None
                         /\ Subject[origin'[p].identity] = Subject[request'[q].identity]
                         /\ origin'[p].rule \in rules)
      BY <2>1, <3>1, <3>4
    <3>5. ~Claims(request[q].identity, MatchingRules(request[q].identity))'
      BY <2>5, <3>2, <3>3, <3>4 DEF Claims, RulePrincipals
    <3>6. ~Claims(request[q].identity, request[q].rules)'
      BY <2>5, <3>1, <3>4 DEF Claims, RulePrincipals
    <3> QED BY <3>5, <3>6
  <2>6. ASSUME NEW q \in Request
        PROVE  \/ request'[q].at = "idle"
               \/ /\ request'[q].at \in Resolving
                  /\ ~Claims(request[q].identity, MatchingRules(request[q].identity))'
                  /\ ~Claims(request[q].identity, request[q].rules)'
               \/ request'[q].at = "authorize" /\ request'[q].who \notin Administrators'
               \/ request'[q].op.do = "write"
    BY <1>2, <2>1, <2>5 DEF Harmless
  <2>7. ASSUME NEW i \in Identity, Audience[i] \in trust' PROVE ~Claims(i, MatchingRules(i))'
    BY <1>1, <2>1, <2>4, <2>7
  <2>8. ASSUME NEW s \in Server
        PROVE  \/ server'[s].at \in {"down", "up"}
               \/ server'[s].at = "look" /\ server'[s].todo \cap Administrators' # {}
    BY <1>2, <2>1 DEF Detained
  <2> QED BY <1>1, <2>1, <2>6, <2>7, <2>8 DEF LockedOut, Resolving
<1>4. ASSUME NEW s \in Server, ServerStep(s) PROVE LockedOut'
  <2>1. /\ UNCHANGED <<store, request>>
        /\ server' = [server EXCEPT ![s] = server'[s]] /\ Detained(server'[s])
    BY <1>4, OnlyFinders
  <2>2. \A z \in Server : Detained(server'[z])
    BY <1>1, <2>1 DEF TypeOK
  <2>3. \A q \in Request : Harmless(request'[q])
    BY <1>1, <2>1
  <2> QED BY <1>2, <2>1, <2>2, <2>3 DEF QuietStep
<1>5. ASSUME NEW q \in Request, PipelineStep(q) PROVE LockedOut'
  <2>1. UNCHANGED server /\ Harmless(request'[q]) /\ QuietStep
    BY <1>5, OnlyOthersGetIn
  <2>2. \A o \in Request : Harmless(request'[o])
    <3> SUFFICES ASSUME NEW o \in Request, o # q PROVE Harmless(request'[o])
      BY <2>1
    <3>1. /\ request'[o].at = request[o].at /\ request'[o].op = request[o].op
          /\ request[o].at \notin {"roles", "unassign", "done"} => request'[o] = request[o]
      BY <1>1, <1>5, OthersStay DEF Inductive
    <3> QED BY <1>1, <3>1 DEF Harmless, Resolving
  <2>4. \A s \in Server : Detained(server'[s])
    BY <1>1, <2>1
  <2> QED BY <1>2, <2>1, <2>2, <2>4
<1>6. ASSUME NEW q \in Request, HandlerStep(q) PROVE LockedOut'
  <2>1. UNCHANGED store /\ UNCHANGED server /\ request' = [request EXCEPT ![q] = Free]
    BY <1>6, OnlyWritersRun DEF WriteContent, Return, Rest
  <2>2. \A o \in Request : Harmless(request'[o])
    BY <1>1, <2>1 DEF Harmless, Free
  <2>3. \A s \in Server : Detained(server'[s])
    BY <1>1, <2>1
  <2> QED BY <1>2, <2>1, <2>2, <2>3 DEF QuietStep
<1>7. ASSUME NEW t \in Token, TokenExpires(t) PROVE LockedOut'
  <2>1. /\ UNCHANGED <<origin, roles, link, policy, request, server>>
        /\ token' = [token EXCEPT ![t].is = "ended"]
    BY <1>7 DEF TokenExpires, EndToken, Rest
  <2>2. QuietStep
    BY <2>1 DEF QuietStep
  <2>3. (\A q \in Request : Harmless(request'[q])) /\ \A s \in Server : Detained(server'[s])
    BY <1>1, <2>1
  <2> QED BY <1>2, <2>2, <2>3
<1>8. CASE UNCHANGED vars
  <2>1. UNCHANGED store /\ UNCHANGED <<request, server>>
    BY <1>8 DEF vars
  <2> QED BY <1>1, <1>2, <2>1 DEF QuietStep
<1> QED BY <1>4, <1>5, <1>6, <1>7, <1>8 DEF Next

\* No restart, expiry, request of another identity, rule read before it was deleted or
\* call in progress ends a lockout.
THEOREM LockoutsAreFinal == Spec => LockoutIsFinal
<1>1. Inductive /\ [Next]_vars => [LockedOut => LockedOut']_vars
  BY LockoutsStay
<1> QED BY InductiveHolds, <1>1, PTL DEF Spec, LockoutIsFinal
=============================================================================
