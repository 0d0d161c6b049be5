------------------------------ MODULE Tenancy ------------------------------
(***************************************************************************)
(* For whom a request speaks (auth.go and its counterparts in              *)
(* grpc_server.go and nats_binding.go): the principal that the HTTP        *)
(* middleware or the gRPC interceptor derives from the request's           *)
(* credentials, and the tenant that the handlers of each binding then put  *)
(* into the message header before they call the service.                   *)
(***************************************************************************)
EXTENDS Envelope

CONSTANTS
    TenantNames,      \* tenant ids; the word "unknown" may be one of them
    AuthMode,         \* cfg.Auth.Mode, after ConfigFromEnv: "none" or "jwt"
    RequireTenant     \* cfg.Auth.RequireTenant

ASSUME TenantNamesAssumption == EmptyString \notin TenantNames
ASSUME AuthAssumption == AuthMode \in {"none", "jwt"} /\ RequireTenant \in BOOLEAN

(* What tenantFromRequest says when there is no X-Tenant-ID. *)
Unknown == <<"unknown">>

MaybeTenant == TenantNames \cup {EmptyString}

(* The Authorization header: is it a bearer token, does the signature      *)
(* verify, and the two claims a tenant is looked for in.                   *)
Authorization ==
    [bearer : BOOLEAN, valid : BOOLEAN, tenantID : MaybeTenant, tenant : MaybeTenant]

(* The tenant a token names: claim tenant_id, else claim tenant. *)
Claimed(auth) == IF auth.tenantID = EmptyString THEN auth.tenant ELSE auth.tenantID

Granted == "granted"

(* The error PrincipalFromAuthHeaders ends with, if any, as the code that  *)
(* migCodeForAuthErr and grpcStatusFromAuthErr make of its message:        *)
(* forbidden when the message speaks of the tenant, else unauthorized.     *)
AuthVerdict(auth, xTenant) ==
    IF AuthMode = "none"
      THEN IF RequireTenant /\ xTenant = EmptyString THEN ErrorForbidden ELSE Granted
    ELSE IF ~auth.bearer \/ ~auth.valid THEN ErrorUnauthorized
    ELSE IF \/ Claimed(auth) = EmptyString
            \/ RequireTenant /\ xTenant = EmptyString
            \/ xTenant # EmptyString /\ xTenant # Claimed(auth)
      THEN ErrorForbidden
    ELSE Granted

(* Principal.TenantID: the header's tenant is believed without a token. *)
PrincipalTenant(auth, xTenant) ==
    IF AuthMode = "none" THEN xTenant ELSE Claimed(auth)

tenantFromRequest(xTenant) == IF xTenant = EmptyString THEN Unknown ELSE xTenant

-----------------------------------------------------------------------------
(* The tenant of the header once the handler has completed it, and whether *)
(* the handler goes on.  principal is a Principal.TenantID.                *)

HTTPTenant(tenant, principal, xTenant) ==
    IF tenant # EmptyString THEN tenant
    ELSE IF principal # EmptyString THEN principal
    ELSE tenantFromRequest(xTenant)

(* Mutant of applyPrincipalHeader: a tenant in the header is believed. *)
applyPrincipalHeaderTrusting(tenant, principal, xTenant) ==
    IF HTTPTenant(tenant, principal, xTenant) = Unknown THEN ErrorInvalidRequest
    ELSE Granted

applyPrincipalHeader(tenant, principal, xTenant) ==
    LET t == HTTPTenant(tenant, principal, xTenant) IN
    IF principal # EmptyString /\ t # principal THEN ErrorForbidden
    ELSE IF t = Unknown THEN ErrorInvalidRequest
    ELSE Granted

GRPCTenant(tenant, principal) == IF tenant = EmptyString THEN principal ELSE tenant

applyPrincipalHeaderFromPrincipal(tenant, principal) ==
    LET t == GRPCTenant(tenant, principal) IN
    IF principal # EmptyString /\ t # principal THEN ErrorForbidden
    ELSE IF t = EmptyString THEN ErrorInvalidRequest
    ELSE Granted

(* The two, by the binding of a connection. *)
HeaderTenant(binding, tenant, principal, xTenant) ==
    IF binding = "http" THEN HTTPTenant(tenant, principal, xTenant)
    ELSE GRPCTenant(tenant, principal)

HeaderVerdict(binding, tenant, principal, xTenant) ==
    IF binding = "http" THEN applyPrincipalHeader(tenant, principal, xTenant)
    ELSE applyPrincipalHeaderFromPrincipal(tenant, principal)

(* A NATS message has no principal, and the tenant of its subject where    *)
(* its header has none.                                                    *)
NATSTenant(tenant, subjectTenant) ==
    IF tenant = EmptyString THEN subjectTenant ELSE tenant
=============================================================================
