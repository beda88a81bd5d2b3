------------------------------- MODULE Access -------------------------------
(***************************************************************************)
(* internal/platform/auth and internal/platform/pg/rls.go: who a token     *)
(* stands for, what its roles may do, and which documents the sessions     *)
(* that serve it see.  A principal is carried from the gateway to a        *)
(* service in signed metadata; the keys are taken to agree and the clocks  *)
(* to be less than five minutes apart.                                     *)
(***************************************************************************)
EXTENDS Naturals, FiniteSets, FiniteSetsExt

CONSTANTS
  Tokens,
  Definition,     \* Definition[t]: records [issuer, user, roles, access] of the
                  \* demo tokens and of the OIDC tokens that verify
  Mode,           \* auth.mode
  None

AccessLevels == <<"public", "internal", "confidential", "restricted">>

RoleLevel == [partner |-> 1, researcher |-> 2, analyst |-> 2,
              manager |-> 3, expert |-> 3, admin |-> 4]

ASSUME AccessAssumption ==
  /\ Mode \in {"", "demo", "oidc", "hybrid"}
  /\ \A t \in DOMAIN Definition : Definition[t].issuer \in {"demo", "oidc"}

(* Whom a token names is not looked at by the verifiers; OIDC demands it.    *)
ASSUME UsersAssumption == \A t \in DOMAIN Definition : Definition[t].user # ""

KnownRoles(roles) == roles \cap DOMAIN RoleLevel

DocAccessForRoles(roles) == AccessLevels[Max({1} \cup {RoleLevel[r] : r \in roles})]

(* An access that the token states is taken as it stands.                   *)
PrincipalOf(t) ==
  LET roles == KnownRoles(Definition[t].roles) IN
  [user |-> Definition[t].user, roles |-> roles,
   access |-> IF Definition[t].access = "" THEN DocAccessForRoles(roles)
              ELSE Definition[t].access]

Verifiers == CASE Mode \in {"", "demo"} -> {"demo"}
               [] Mode = "oidc" -> {"oidc"}
               [] OTHER -> {"demo", "oidc"}

(* While its issuer is out of reach no OIDC token verifies.                 *)
Accepts(verifier, t, issuerUp) ==
  /\ t \in DOMAIN Definition
  /\ Definition[t].issuer = verifier
  /\ verifier = "oidc" => issuerUp

(* None: not authorized.                                                    *)
Verify(t, issuerUp) ==
  IF \E verifier \in Verifiers : Accepts(verifier, t, issuerUp) THEN PrincipalOf(t) ELSE None

-----------------------------------------------------------------------------
Everyone == DOMAIN RoleLevel

operationRoles ==
  [ask |-> Everyone,
   search |-> Everyone \ {"partner"},
   browse |-> Everyone \ {"partner"},
   upload |-> {"analyst", "admin"},
   fact |-> {"expert", "admin"},
   merge |-> {"expert", "admin"},
   contradiction |-> {"expert", "admin"}]

Allowed(operation, principal) ==
  operation \in DOMAIN operationRoles /\ principal.roles \cap operationRoles[operation] # {}

(* What a service reads back from the metadata: a principal without a user  *)
(* is none, one without an access has the least.                            *)
Carried(principal) ==
  IF principal = None THEN None
  ELSE IF principal.user = "" THEN None
  ELSE [principal EXCEPT !.access = IF @ = "" THEN "public" ELSE @]

(* app.doc_access of a session with a context.                              *)
normalizeRLS(principal) ==
  IF principal = None THEN "internal"
  ELSE IF principal.access = "" THEN "internal" ELSE principal.access

(* The policy documents_select; facts and chunks follow their documents.    *)
Sees(access, level) ==
  CASE access = "restricted" -> TRUE
    [] access = "confidential" -> level # "restricted"
    [] access = "internal" -> level \in {"public", "internal"}
    [] OTHER -> level = "public"
=============================================================================
