----------------------------- MODULE RoleGrants -----------------------------
(***************************************************************************)
(* What a user may see: permissions (auth), roles, the links between them, *)
(* the user's roles, and the list of resources each sign-in computes,      *)
(* caches and answers (RoleManagementService, AuthService).                *)
(*                                                                         *)
(* One user.  Administrators' calls check and then write one row; a unique *)
(* index settles two that overlap, so each is one step.  A sign-in reads   *)
(* the roles and the permissions in two steps, writes the cache and, when  *)
(* the browser asks who it is, reads the cache again.                      *)
(***************************************************************************)
EXTENDS Naturals

CONSTANTS Roles, Auths, None,
          Requests       \* sign-ins in flight

VARIABLES
    authOn,     \* auth.status; "none": no row
    link,       \* auth_role.status, per role and permission
    grant,      \* user_role.status, per role
    cached,     \* auth:user, None when absent
    place, roles, resources, \* where each sign-in is, and what it has read
    barred      \* history: permissions withdrawn while no sign-in was under
                \* way, and nothing changed since

grantVars == <<authOn, link, grant, cached, place, roles, resources, barred>>

Rows == {"none", "active", "inactive"}

GrantInit ==
    /\ authOn = [a \in Auths |-> "none"]
    /\ link = [r \in Roles |-> [a \in Auths |-> "none"]]
    /\ grant = [r \in Roles |-> "none"]
    /\ cached = None
    /\ place = [q \in Requests |-> "idle"]
    /\ roles = [q \in Requests |-> {}]
    /\ resources = [q \in Requests |-> {}]
    /\ barred = {}

ActiveRoles == {r \in Roles : grant[r] = "active"}

(* The join of getResourcesByUserId.                                       *)
Linked(rs) ==
    {a \in Auths : authOn[a] = "active" /\ \E r \in rs : link[r][a] = "active"}

(***************************************************************************)
(* Administrators.                                                         *)
(***************************************************************************)
Noted ==
    /\ barred' = IF \A q \in Requests : place[q] = "idle"
                 THEN Auths \ Linked(ActiveRoles)' ELSE {}
    /\ UNCHANGED <<cached, place, roles, resources>>

(* createAuth, updateAuth                                                  *)
CreateAuth(a) ==
    /\ authOn[a] = "none"
    /\ authOn' = [authOn EXCEPT ![a] = "active"]
    /\ UNCHANGED <<link, grant>>
    /\ Noted

UpdateAuth(a) ==
    /\ authOn[a] # "none"
    /\ \E s \in {"active", "inactive"} : authOn' = [authOn EXCEPT ![a] = s]
    /\ UNCHANGED <<link, grant>>
    /\ Noted

CreateAuthRole(r, a) ==
    /\ link[r][a] = "none"
    /\ link' = [link EXCEPT ![r][a] = "active"]
    /\ UNCHANGED <<authOn, grant>>
    /\ Noted

FrozenAuthRole(r, a) ==
    /\ link[r][a] = "active"
    /\ link' = [link EXCEPT ![r][a] = "inactive"]
    /\ UNCHANGED <<authOn, grant>>
    /\ Noted

ReactiveAuthRole(r, a) ==
    /\ link[r][a] = "inactive"
    /\ link' = [link EXCEPT ![r][a] = "active"]
    /\ UNCHANGED <<authOn, grant>>
    /\ Noted

CreateUserRole(r) ==
    /\ grant[r] = "none"
    /\ grant' = [grant EXCEPT ![r] = "active"]
    /\ UNCHANGED <<authOn, link>>
    /\ Noted

(* A row may get another status and another role that has no row yet.      *)
UpdateUserRole(r, to) ==
    /\ grant[r] # "none"
    /\ to = r \/ grant[to] = "none"
    /\ \E s \in {"active", "inactive"} :
          grant' = [x \in Roles |-> IF x = to THEN s ELSE IF x = r THEN "none" ELSE grant[x]]
    /\ UNCHANGED <<authOn, link>>
    /\ Noted

(***************************************************************************)
(* setCacheResources, then getCacheResources of getSignedUser.             *)
(***************************************************************************)
Turn(q, to) == place' = [place EXCEPT ![q] = to]

ReadRoles(q) ==
    /\ place[q] = "idle"
    /\ roles' = [roles EXCEPT ![q] = ActiveRoles]
    /\ Turn(q, "join")
    /\ UNCHANGED <<authOn, link, grant, cached, resources, barred>>

JoinResources(q) ==
    /\ place[q] = "join"
    /\ resources' = [resources EXCEPT ![q] = Linked(roles[q])]
    /\ Turn(q, "cache")
    /\ UNCHANGED <<authOn, link, grant, cached, roles, barred>>

(* Mutant of SetResources: a cached list is left alone.                    *)
SetResourcesOnce(q) ==
    /\ place[q] = "cache"
    /\ cached' = IF cached = None THEN resources[q] ELSE cached
    /\ Turn(q, "answer")
    /\ UNCHANGED <<authOn, link, grant, roles, resources, barred>>

SetResources(q) ==
    /\ place[q] = "cache"
    /\ cached' = resources[q]
    /\ Turn(q, "answer")
    /\ UNCHANGED <<authOn, link, grant, roles, resources, barred>>

(* An absent entry answers an empty list.                                  *)
AnswerCached(q) ==
    /\ place[q] = "answer"
    /\ resources' = [resources EXCEPT ![q] = IF cached = None THEN {} ELSE cached]
    /\ roles' = [roles EXCEPT ![q] = {}]
    /\ Turn(q, "idle")
    /\ UNCHANGED <<authOn, link, grant, cached, barred>>

(* Logout, a kick, the online job, or a day later.                         *)
DropResources ==
    /\ cached # None
    /\ cached' = None
    /\ UNCHANGED <<authOn, link, grant, place, roles, resources, barred>>

GrantNext ==
    \/ \E a \in Auths :
          \/ CreateAuth(a) \/ UpdateAuth(a)
          \/ \E r \in Roles : \/ CreateAuthRole(r, a) \/ FrozenAuthRole(r, a)
                              \/ ReactiveAuthRole(r, a)
    \/ \E r \in Roles : CreateUserRole(r) \/ \E to \in Roles : UpdateUserRole(r, to)
    \/ \E q \in Requests : ReadRoles(q) \/ JoinResources(q) \/ SetResources(q) \/ AnswerCached(q)
    \/ DropResources
-----------------------------------------------------------------------------
(* Rows, the cache and what sign-ins read have their types.                *)
GrantTypeOK ==
    /\ authOn \in [Auths -> Rows]
    /\ link \in [Roles -> [Auths -> Rows]]
    /\ grant \in [Roles -> Rows]
    /\ cached \in {None} \cup SUBSET Auths
    /\ place \in [Requests -> {"idle", "join", "cache", "answer"}]
    /\ roles \in [Requests -> SUBSET Roles]
    /\ resources \in [Requests -> SUBSET Auths]
    /\ barred \subseteq Auths

(* A permission that was withdrawn before a sign-in began is not in its    *)
(* answer, although the answer is read from a cache that other sign-ins    *)
(* write too and no administrator's call clears.                           *)
WithdrawnIsGone ==
    [][\A q \in Requests :
          (place[q] = "answer" /\ place'[q] = "idle") => resources'[q] \cap barred = {}]_grantVars
=============================================================================
