-------------------------------- MODULE Iam --------------------------------
(***************************************************************************)
(* Identity and access management (services/iam): users, roles, groups and *)
(* policies, global to an account.  A membership is kept twice, with the   *)
(* user and with the group.  Every handler is one step under the guard of  *)
(* the store; no request is ever refused for want of a permission.         *)
(***************************************************************************)
EXTENDS Integers, FiniteSets

CONSTANTS
    UserNames, RoleNames, GroupNames,
    PolicyArns,   \* ARNs of policies: account, path and name
    Nil,
    MaxIds        \* bound: users and roles created

VARIABLES
    users,     \* IamStore.users: per name Nil or [id, policies, groups]
    roles,     \* IamStore.roles: per name Nil or [id, policies, inline]
    groups,    \* IamStore.groups: per name Nil or [members]
    policies,  \* IamStore.policies: the ARNs that exist
    ids,       \* number of ids made
    grants     \* history: what was attached or added, with the id it was done for

vars == <<users, roles, groups, policies, ids, grants>>

NewId == ids < MaxIds /\ ids' = ids + 1

-----------------------------------------------------------------------------
(* Users and roles *)

CreateUser(u) ==
    /\ users[u] = Nil /\ NewId
    /\ users' = [users EXCEPT ![u] = [id |-> ids + 1, policies |-> {}, groups |-> {}]]
    /\ UNCHANGED <<roles, groups, policies, grants>>

\* The groups keep the name among their members.
DeleteUser(u) ==
    /\ users[u] # Nil
    /\ users' = [users EXCEPT ![u] = Nil]
    /\ UNCHANGED <<roles, groups, policies, ids, grants>>

CreateRole(r) ==
    /\ roles[r] = Nil /\ NewId
    /\ roles' = [roles EXCEPT ![r] = [id |-> ids + 1, policies |-> {}, inline |-> {}]]
    /\ UNCHANGED <<users, groups, policies, grants>>

DeleteRole(r) ==
    /\ roles[r] # Nil
    /\ roles' = [roles EXCEPT ![r] = Nil]
    /\ UNCHANGED <<users, groups, policies, ids, grants>>

-----------------------------------------------------------------------------
(* Policies; one that does not exist may be attached *)

CreatePolicy(p) ==
    /\ p \notin policies
    /\ policies' = policies \cup {p}
    /\ UNCHANGED <<users, roles, groups, ids, grants>>

AttachUserPolicy(u, p) ==
    /\ users[u] # Nil
    /\ users' = [users EXCEPT ![u].policies = @ \cup {p}]
    /\ grants' = grants \cup {<<users[u].id, p>>}
    /\ UNCHANGED <<roles, groups, policies, ids>>

AttachRolePolicy(r, p) ==
    /\ roles[r] # Nil
    /\ roles' = [roles EXCEPT ![r].policies = @ \cup {p}]
    /\ grants' = grants \cup {<<roles[r].id, p>>}
    /\ UNCHANGED <<users, groups, policies, ids>>

PutRolePolicy(r, name) ==
    /\ roles[r] # Nil
    /\ roles' = [roles EXCEPT ![r].inline = @ \cup {name}]
    /\ UNCHANGED <<users, groups, policies, ids, grants>>

-----------------------------------------------------------------------------
(* Groups; there is no operation that deletes one or takes a member out *)

CreateGroup(g) ==
    /\ groups[g] = Nil
    /\ groups' = [groups EXCEPT ![g] = [members |-> {}]]
    /\ UNCHANGED <<users, roles, policies, ids, grants>>

\* Mutant: a name that the group has already is taken to be in the user's list as well.
Joined_IfNew(u, g) == IF u \in groups[g].members THEN users[u].groups ELSE users[u].groups \cup {g}

Joined(u, g) == users[u].groups \cup {g}

AddUserToGroup(u, g) ==
    /\ users[u] # Nil /\ groups[g] # Nil
    /\ groups' = [groups EXCEPT ![g].members = @ \cup {u}]
    /\ users' = [users EXCEPT ![u].groups = Joined(u, g)]
    /\ grants' = grants \cup {<<users[u].id, g>>}
    /\ UNCHANGED <<roles, policies, ids>>

-----------------------------------------------------------------------------
(* Answers *)

GetUser(u) == users[u]

GetRole(r) == roles[r]

GetPolicy(p) == p \in policies

ListUsers == {u \in UserNames : users[u] # Nil}

ListRoles == {r \in RoleNames : roles[r] # Nil}

ListGroups == {g \in GroupNames : groups[g] # Nil}

-----------------------------------------------------------------------------
Init ==
    /\ users = [u \in UserNames |-> Nil]
    /\ roles = [r \in RoleNames |-> Nil]
    /\ groups = [g \in GroupNames |-> Nil]
    /\ policies = {}
    /\ ids = 0
    /\ grants = {}

Next ==
    \/ \E u \in UserNames : CreateUser(u) \/ DeleteUser(u)
    \/ \E r \in RoleNames : CreateRole(r) \/ DeleteRole(r) \/ PutRolePolicy(r, "inline")
    \/ \E p \in PolicyArns :
           \/ CreatePolicy(p)
           \/ \E u \in UserNames : AttachUserPolicy(u, p)
           \/ \E r \in RoleNames : AttachRolePolicy(r, p)
    \/ \E g \in GroupNames : CreateGroup(g) \/ \E u \in UserNames : AddUserToGroup(u, g)

-----------------------------------------------------------------------------
(* Properties *)

\* A user or a role has exactly the policies and groups given to it since it was created,
\* and none that a deleted one of the same name had, although the groups still list that
\* name; and a group that a user is in exists and lists the user.
GrantsAreNotInherited ==
    /\ \A u \in ListUsers :
           LET user == GetUser(u)
           IN  /\ user.policies \cup user.groups = {g[2] : g \in {x \in grants : x[1] = user.id}}
               /\ \A g \in user.groups : g \in ListGroups /\ u \in groups[g].members
    /\ \A r \in ListRoles : GetRole(r).policies = {g[2] : g \in {x \in grants : x[1] = GetRole(r).id}}
    /\ \A u \in ListUsers, r \in ListRoles : GetUser(u).id # GetRole(r).id
=============================================================================
