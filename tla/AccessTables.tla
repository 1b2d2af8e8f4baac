---------------------------- MODULE AccessTables ----------------------------
(***************************************************************************)
(* Who may do what: the rows of the authkit store that imgsrv keeps in     *)
(* Postgres, and the single calls of internal/authz on them.               *)
(*                                                                         *)
(* An identity stands for a subject of the one trusted issuer together     *)
(* with a set of claims (claimFingerprintIdentity makes each set of claims *)
(* an identity of its own); two identities may belong to one subject.      *)
(***************************************************************************)
EXTENDS Naturals, FiniteSets

CONSTANTS
    Principal,   \* ids of principals, chosen when they are created
    Token,       \* ids of API tokens, chosen when they are issued
    Identity,    \* OIDC identities: a subject with its claims
    Subject,     \* the subject of each identity
    Audience,    \* the audience in each identity's tokens
    Rule,        \* ids of OIDC provisioning rules
    None         \* absence of a value

ASSUME AbsenceAssumption ==
    /\ None \notin Principal \cup Token \cup Identity \cup Rule
    /\ \A i \in Identity : Audience[i] # None

VARIABLES
    origin,      \* how a principal came to be: None, or who made it from what
    roles,       \* its role assignments
    token,       \* the API tokens: owner, and whether somebody can use them
    link,        \* the principal an identity is linked to
    rule,        \* the provisioning rules
    trust,       \* the audiences of the trusted provider
    raced        \* history: the audiences whose last save overlapped another save

grants == <<origin, roles, token, link>>
policy == <<rule, trust, raced>>
store == <<grants, policy>>

ContentWriter == "content-writer"
AuthManager == "auth-manager"
Role == {ContentWriter, AuthManager}

NoOrigin == [by |-> "none", rule |-> None, identity |-> None]
Bootstrapped == [by |-> "bootstrap", rule |-> None, identity |-> None]
Provisioned(r, i) == [by |-> "rule", rule |-> r, identity |-> i]
\* An operator chooses the attributes that tell the rule and the subject, or leaves
\* them out.
OperatorMade(r, i) == [by |-> "operator", rule |-> r, identity |-> i]
MadeOrigins ==
    {Bootstrapped} \cup {OperatorMade(r, i) : r \in Rule \cup {None}, i \in Identity \cup {None}}
Origin == {NoOrigin} \cup MadeOrigins \cup {Provisioned(r, i) : r \in Rule, i \in Identity}

NoToken == [of |-> None, is |-> "none"]
TokenRow == {NoToken} \cup [of : Principal, is : {"secret", "known", "ended"}]

Audiences == {Audience[i] : i \in Identity}
NoRule == [aud |-> None, enabled |-> FALSE]
RuleRow == {NoRule} \cup [aud : Audiences, enabled : BOOLEAN]

StoreTypeOK ==
    /\ origin \in [Principal -> Origin]
    /\ roles \in [Principal -> SUBSET Role]
    /\ token \in [Token -> TokenRow]
    /\ link \in [Identity -> Principal \cup {None}]
    /\ rule \in [Rule -> RuleRow]
    /\ trust \subseteq Audiences
    /\ raced \subseteq Audiences

Exists(p) == origin[p] # NoOrigin

\* Ids are generated: which unused one is taken makes no difference.
NewPrincipals == {p \in Principal : ~Exists(p) /\ p = CHOOSE x \in Principal : ~Exists(x)}
NewTokens == {t \in Token : token[t] = NoToken /\ t = CHOOSE x \in Token : token[x] = NoToken}

-----------------------------------------------------------------------------
(* Principals, roles and tokens.                                            *)

CreatePrincipal(p, made) ==
    /\ ~Exists(p)
    /\ origin' = [origin EXCEPT ![p] = made]
    /\ UNCHANGED <<roles, token, link, policy>>

(* AssignPrincipalRole; both built-in roles exist since startup, so that     *)
(* EnsureBuiltinRoles changes nothing.                                       *)
AssignRole(p, role) ==
    /\ Exists(p)
    /\ roles' = [roles EXCEPT ![p] = @ \cup {role}]
    /\ UNCHANGED <<origin, token, link, policy>>

UnassignRole(p, role) ==
    /\ Exists(p)
    /\ roles' = [roles EXCEPT ![p] = @ \ {role}]
    /\ UNCHANGED <<origin, token, link, policy>>

IssueToken(t, p, is) ==
    /\ token[t] = NoToken
    /\ token' = [token EXCEPT ![t] = [of |-> p, is |-> is]]
    /\ UNCHANGED <<origin, roles, link, policy>>

EndToken(t) ==
    /\ token[t] # NoToken
    /\ token' = [token EXCEPT ![t].is = "ended"]
    /\ UNCHANGED <<origin, roles, link, policy>>

-----------------------------------------------------------------------------
(* Rules and trust.                                                         *)

\* Wrong on purpose: the condition is stored without its audience.
SaveRule_AnyAudience(r, aud, enabled) ==
    /\ rule' = [rule EXCEPT ![r] = [aud |-> None, enabled |-> enabled]]
    /\ UNCHANGED <<grants, trust, raced>>

SaveRule(r, aud, enabled) ==
    /\ rule' = [rule EXCEPT ![r] = [aud |-> aud, enabled |-> enabled]]
    /\ UNCHANGED <<grants, trust, raced>>

DeleteRule(r) ==
    /\ rule[r] # NoRule
    /\ rule' = [rule EXCEPT ![r] = NoRule]
    /\ UNCHANGED <<grants, trust, raced>>

\* Wrong on purpose (see README, "Mutants"): what was trusted is forgotten.
Merged_Replaced(seen, aud) == {aud}

(* mergeProviders, on what FindProvider returned some time ago.              *)
Merged(seen, aud) == seen \cup {aud}

TrustProvider(seen, aud, overlapped) ==
    /\ trust' = Merged(seen, aud)
    /\ raced' = IF overlapped THEN raced \cup {aud} ELSE raced \ {aud}
    /\ UNCHANGED <<grants, rule>>

-----------------------------------------------------------------------------
(* Identities.                                                              *)

(* provisioning.MatchRules: the rule is enabled and its condition, which     *)
(* managedRuleCondition conjoins with the rule's audience, accepts the claims. *)
MatchingRules(i) == {r \in Rule : rule[r].enabled /\ rule[r].aud = Audience[i]}

(* The principals existingRulePrincipal may return: it looks at attributes   *)
(* only, whoever wrote them.                                                 *)
RulePrincipals(i, rules) ==
    {p \in Principal : /\ origin[p].identity # None
                       /\ Subject[origin[p].identity] = Subject[i]
                       /\ origin[p].rule \in rules}

\* Wrong on purpose: the link of the identity is not looked at.
ProvisionIdentity_Unlinked(p, i, r) ==
    /\ ~Exists(p)
    /\ origin' = [origin EXCEPT ![p] = Provisioned(r, i)]
    /\ roles' = [roles EXCEPT ![p] = {ContentWriter}]
    /\ link' = [link EXCEPT ![i] = p]
    /\ UNCHANGED <<token, policy>>

(* ProvisionIdentity: principal, link and roles in one transaction, unless   *)
(* the identity is linked already.                                           *)
ProvisionIdentity(p, i, r) ==
    /\ link[i] = None
    /\ ~Exists(p)
    /\ origin' = [origin EXCEPT ![p] = Provisioned(r, i)]
    /\ roles' = [roles EXCEPT ![p] = {ContentWriter}]
    /\ link' = [link EXCEPT ![i] = p]
    /\ UNCHANGED <<token, policy>>

(* roleauth: the action a principal's roles must grant.                      *)
Grants(p, action) ==
    \/ action = "content.write" /\ ContentWriter \in roles[p]
    \/ action = "auth.manage" /\ AuthManager \in roles[p]
=============================================================================
