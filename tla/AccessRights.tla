----------------------------- MODULE AccessRights -----------------------------
(***************************************************************************)
(* What a request may do.  Its strategy looks up who sends it, a user or   *)
(* an API key, reads the permissions the sender holds, and, if one of them *)
(* is for administrating users, reads once more the applications of its    *)
(* organization; the rows are grouped by level and organization.  The      *)
(* roles' guard and the handlers ask the groups.  Meanwhile permissions    *)
(* are given, taken and changed.                                           *)
(*                                                                         *)
(* One action is one query; May says, without rows and groups, what the    *)
(* sender may do.  One request is followed.  The handler whose answer is   *)
(* itself a question of rights, the list of applications, is modelled too: *)
(* of one organization, or of all.  Its own query comes with the decision. *)
(***************************************************************************)
EXTENDS Naturals

CONSTANTS
    Perm,      \* permissions there may be
    LevelsOf,  \* LevelsOf[p]: its levels
    OrgOf,     \* OrgOf[p]: its organization
    Org, App,  \* organizations and applications
    AppOrg,    \* AppOrg[a]: the organization of application a
    None,      \* no organization, no application
    Lists,     \* bound: the applications a permission may list, of its own or another organization
    MaxMoves   \* bound: changes while the request is on its way

Level == {"GlobalAdmin", "OrganizationUserAdmin", "OrganizationGatewayAdmin",
          "OrganizationApplicationAdmin", "Read"}
AccessAssumption ==
    /\ LevelsOf \in [Perm -> SUBSET Level] /\ OrgOf \in [Perm -> Org \cup {None}]
    /\ \A p \in Perm : OrgOf[p] = None => LevelsOf[p] = {"GlobalAdmin"}
    /\ Lists \subseteq App \X Perm
    /\ AppOrg \in [App -> Org] /\ None \notin Org \cup App
    /\ MaxMoves \in Nat

VARIABLES
    sender,   \* "user" or "key"
    known,    \* the sender is there
    held,     \* the permissions it holds
    listed,   \* pairs: application and permission that lists it
    stage,    \* where the request is
    found,    \* what the queries have found: level, organization, application
    moves,    \* changes since the request came
    ever,     \* history: what the sender might do at some time since
    always,   \* history: what the sender might do all the time since
    allowed,  \* what the request is let to do
    shown     \* pairs: organization (None for all) and application in its list

vars == <<sender, known, held, listed, stage, found, moves, ever, always, allowed, shown>>

Row == Level \X (Org \cup {None}) \X (App \cup {None})

(* What a guard or a handler asks: a role, a scope of an organization, a   *)
(* scope of an application.                                                *)
OrgScope == {"ApplicationRead", "ApplicationWrite", "GatewayWrite",
             "UserAdministrationRead", "UserAdministrationWrite"}
AppScope == {"Read", "Write"}
Question == Level \X {None} \cup OrgScope \X Org \cup AppScope \X App

(* Every variable has its type. *)
TypeOK ==
    /\ sender \in {"user", "key"} /\ known \in BOOLEAN
    /\ held \subseteq Perm /\ listed \subseteq App \X Perm
    /\ stage \in {"new", "permissions", "applications", "handler", "done", "refused"}
    /\ found \subseteq Row /\ moves \in 0..MaxMoves
    /\ ever \subseteq Question /\ always \subseteq Question /\ allowed \subseteq Question
    /\ shown \subseteq (Org \cup {None}) \X App
-----------------------------------------------------------------------------
(* Mutant of OrNone: an inner join.                                        *)
NoNone(as) == as

(* A left join: a permission without applications has rows without one.    *)
OrNone(as) == IF as = {} THEN {None} ELSE as

(* The query that joins permissions, their levels and applications ...     *)
FindPermissions(ps) ==
    UNION {LevelsOf[p] \X {OrgOf[p]} \X OrNone({a \in App : <<a, p>> \in listed}) : p \in ps}

Administrating == {p \in held : "OrganizationUserAdmin" \in LevelsOf[p]}
AppsOf(o) == {a \in App : AppOrg[a] = o}

(* Mutant of FindForOrgAdmin: the rows of every level.                     *)
FindForEveryLevel(ps) ==
    UNION {LevelsOf[p] \X {OrgOf[p]} \X OrNone(AppsOf(OrgOf[p])) : p \in ps}

(* ... and the one that joins organizations and applications.  For an API  *)
(* key it asks for permissions that HAVE the level, not for rows of it.    *)
FindForOrgAdmin(ps) ==
    UNION {(IF sender = "user" THEN {"OrganizationUserAdmin"} ELSE LevelsOf[p])
               \X {OrgOf[p]} \X OrNone(AppsOf(OrgOf[p])) : p \in ps}

(* createUserPermissionsFromPermissions and the getters of its result.     *)
IsGlobalAdmin(rows) == \E x \in rows : x[1] = "GlobalAdmin"
Keys(rows, levels) == {x[2] : x \in {y \in rows : y[1] \in levels}}
Values(rows, levels) == {x[3] : x \in {y \in rows : y[1] \in levels}} \ {None}

(* hasAccess: a role somewhere. *)
HasRole(rows, role) ==
    Keys(rows, IF role = "Read" THEN Level \ {"GlobalAdmin"} ELSE {role} \ {"GlobalAdmin"}) # {}

(* checkIfUserHasAccessToOrganization *)
LevelsFor(scope) ==
    CASE scope = "ApplicationRead" -> {"Read", "OrganizationApplicationAdmin", "OrganizationUserAdmin"}
      [] scope = "ApplicationWrite" -> {"OrganizationApplicationAdmin"}
      [] scope = "GatewayWrite" -> {"OrganizationGatewayAdmin"}
      [] scope = "UserAdministrationRead" -> {"Read", "OrganizationUserAdmin"}
      [] scope = "UserAdministrationWrite" -> {"OrganizationUserAdmin"}

(* checkIfUserHasAccessToApplication *)
LevelsForApp(scope) ==
    IF scope = "Read" THEN {"Read", "OrganizationUserAdmin", "OrganizationApplicationAdmin"}
    ELSE {"OrganizationApplicationAdmin"}

Allowed(rows, q) ==
    \/ IsGlobalAdmin(rows)
    \/ q[2] = None /\ HasRole(rows, q[1])
    \/ q[1] \in OrgScope /\ q[2] \in Keys(rows, LevelsFor(q[1]))
    \/ q[1] \in AppScope /\ q[2] \in Values(rows, LevelsForApp(q[1]))

Readable(rows) == Values(rows, LevelsForApp("Read"))

(* Mutant of InOrganization: what is readable in others is shown as well.  *)
ReadableAnywhere(rows, o) ==
    IF o \in Keys(rows, {"OrganizationUserAdmin"}) THEN AppsOf(o) ELSE Readable(rows)

(* getApplicationsInOrganization: all for a user administrator.            *)
InOrganization(rows, o) ==
    IF o \in Keys(rows, {"OrganizationUserAdmin"}) THEN AppsOf(o) ELSE Readable(rows) \cap AppsOf(o)

(* Of all: those of the organizations the sender administrates             *)
(* applications of, if there are any.                                      *)
InWhitelistOrOrganization(rows) ==
    LET orgs == Keys(rows, {"OrganizationApplicationAdmin"}) IN
    {a \in Readable(rows) : orgs # {} => AppOrg[a] \in orgs}

ListApplications(rows, o) ==
    CASE IsGlobalAdmin(rows) -> IF o = None THEN App ELSE AppsOf(o)
      [] ~IsGlobalAdmin(rows) /\ o = None -> InWhitelistOrOrganization(rows)
      [] OTHER -> IF Allowed(rows, <<"ApplicationRead", o>>) THEN InOrganization(rows, o) ELSE {}
-----------------------------------------------------------------------------
Init ==
    /\ sender \in {"user", "key"} /\ known = TRUE
    /\ held \in SUBSET Perm
    /\ listed \in SUBSET Lists
    /\ stage = "new" /\ found = {} /\ moves = 0
    /\ ever = {} /\ always = {} /\ allowed = {} /\ shown = {}

(* What the sender may do, said without rows: the documentation's levels.  *)
May(q) ==
    LET has(l, o) == \E p \in held : l \in LevelsOf[p] /\ OrgOf[p] = o
        on(l, a) == \E p \in held : l \in LevelsOf[p] /\ <<a, p>> \in listed
        reader(o) == has("Read", o) \/ has("OrganizationUserAdmin", o)
        role(l) == \E o \in Org : has(l, o) IN
    \/ \E p \in held : "GlobalAdmin" \in LevelsOf[p]
    \/ CASE q[1] = "Read" /\ q[2] = None -> \E l \in Level : role(l)
         [] q[1] \in Level \ {"Read"} /\ q[2] = None -> role(q[1])
         [] q[1] = "ApplicationRead" -> reader(q[2]) \/ has("OrganizationApplicationAdmin", q[2])
         [] q[1] = "ApplicationWrite" -> has("OrganizationApplicationAdmin", q[2])
         [] q[1] = "GatewayWrite" -> has("OrganizationGatewayAdmin", q[2])
         [] q[1] = "UserAdministrationRead" -> reader(q[2])
         [] q[1] = "UserAdministrationWrite" -> has("OrganizationUserAdmin", q[2])
         [] OTHER ->
              \/ on("OrganizationApplicationAdmin", q[2])
              \/ q[1] = "Read" /\ (on("Read", q[2]) \/ on("OrganizationUserAdmin", q[2]))
              \/ q[1] = "Read" /\ has("OrganizationUserAdmin", AppOrg[q[2]])
              \/ /\ sender = "key"
                 /\ \E p \in held : /\ OrgOf[p] = AppOrg[q[2]]
                                    /\ {"OrganizationUserAdmin", "OrganizationApplicationAdmin"}
                                           \subseteq LevelsOf[p]
MayNow == {q \in Question : known /\ May(q)}

(* The strategies: is there such a user, or key? *)
Validate ==
    /\ stage = "new"
    /\ IF known THEN stage' = "permissions" /\ ever' = MayNow /\ always' = MayNow
       ELSE stage' = "refused" /\ UNCHANGED <<ever, always>>
    /\ UNCHANGED <<sender, known, held, listed, found, moves, allowed, shown>>

FindOwn ==
    /\ stage = "permissions"
    /\ found' = FindPermissions(held)
    /\ stage' = IF Administrating # {} THEN "applications" ELSE "handler"
    /\ UNCHANGED <<sender, known, held, listed, moves, ever, always, allowed, shown>>

FindOrganizations ==
    /\ stage = "applications" /\ stage' = "handler"
    /\ found' = found \cup FindForOrgAdmin(Administrating)
    /\ UNCHANGED <<sender, known, held, listed, moves, ever, always, allowed, shown>>

(* Guard and handler: for every question they may ask, the answer. *)
Decide ==
    /\ stage = "handler" /\ stage' = "done"
    /\ allowed' = {q \in Question : Allowed(found, q)}
    /\ shown' = {x \in (Org \cup {None}) \X App : x[2] \in ListApplications(found, x[1])}
    /\ UNCHANGED <<sender, known, held, listed, found, moves, ever, always>>

(* Meanwhile a permission is given, taken or changed, or the key deleted.  *)
Change ==
    /\ stage \in {"permissions", "applications", "handler"}
    /\ moves < MaxMoves /\ moves' = moves + 1 /\ UNCHANGED sender
    /\ \/ /\ known /\ \E p \in Perm : held' = (held \ {p}) \cup ({p} \ held)
          /\ UNCHANGED <<known, listed>>
       \/ /\ \E x \in Lists : listed' = (listed \ {x}) \cup ({x} \ listed)
          /\ UNCHANGED <<known, held>>
       \/ /\ sender = "key" /\ known /\ known' = FALSE /\ held' = {}
          /\ UNCHANGED listed
    /\ ever' = ever \cup MayNow' /\ always' = always \cap MayNow'
    /\ UNCHANGED <<stage, found, allowed, shown>>

Next == Validate \/ FindOwn \/ FindOrganizations \/ Decide \/ Change

Spec == Init /\ [][Next]_vars
-----------------------------------------------------------------------------
(* A request is let to do, and shown, only what its sender might do, and   *)
(* read, at some time while it was read, although the two queries and the  *)
(* groups mix two times; an organization's list has no others' rows.       *)
NothingUnheld ==
    stage = "done" =>
        /\ allowed \subseteq ever
        /\ \A x \in shown : <<"Read", x[2]>> \in ever /\ x[1] \in {None, AppOrg[x[2]]}

(* ... and all that its sender might do, and read, all the time, unless    *)
(* two changes came between the queries (one permission taken and another  *)
(* given).  Only the list of all leaves out what the sender may read, when *)
(* it administrates the applications of some organization, not this one.   *)
NothingWithheld ==
    stage = "done" /\ moves < 2 =>
        /\ always \subseteq allowed
        /\ \A a \in App : <<"Read", a>> \in always =>
               /\ <<"ApplicationRead", AppOrg[a]>> \in always => <<AppOrg[a], a>> \in shown
               /\ \/ <<None, a>> \in shown
                  \/ \E o \in Org \ {AppOrg[a]} : <<"ApplicationWrite", o>> \in allowed
=============================================================================
