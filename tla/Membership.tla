------------------------------ MODULE Membership ------------------------------
(***************************************************************************)
(* Users, API keys, permissions, organizations and applications, and the   *)
(* links between them: who holds a permission, which applications it is    *)
(* for, whose permission it is, who has asked to join an organization.     *)
(* Every service changes links in the same way: a row is read with a list  *)
(* of its links, the list is edited, and the row is saved, which makes the *)
(* links in the database those of the list.  Whatever another request has  *)
(* done to them since the list was read is undone.                         *)
(*                                                                         *)
(* One action is one save, delete or find (finds that follow each other    *)
(* are one action, and so are the statements of one save).                 *)
(* `granted' is what the requests promised; the properties compare it with *)
(* the links.  Left out: who may do what (AccessRights), names, mails,     *)
(* ChirpStack's part of an application (LorawanDevices), and a change of   *)
(* a permission's levels, name or automaticallyAddNewApplications.         *)
(***************************************************************************)
EXTENDS Naturals, FiniteSets

CONSTANTS
    Request,   \* requests to the API; also the ids of what they create
    User, Org, App, ApiKey,   \* the rows there at the start
    OldUser, OldOrg,       \* the user with rights, the organization with the applications
    Asked,     \* who has asked to join what at the start
    None,      \* no row
    MaxGiven,  \* bound: rows of one table named in one request
    MaxFaults  \* bound: failed statements, process deaths

Users == User \cup Request \X {"user"}
Keys == ApiKey \cup Request \X {"key"}
Apps == App \cup Request \X {"app"}
Orgs == Org \cup Request \X {"org"}
Holders == Users \cup Keys

(* A permission is named by who made it and by its kind: global admin,     *)
(* for chosen applications (with `auto' also the organization's new ones), *)
(* administration.                                                         *)
Kind == {"global", "apps", "auto", "admin"}
OldGlobal == <<None, "global">>
Global == {OldGlobal} \cup Request \X {"global"}
PermId == {OldGlobal} \cup Request \X Kind \cup Orgs \X {"auto", "admin"}
Id == Holders \cup Apps \cup Orgs \cup PermId
Tables == <<Users, Keys, Apps, Orgs, PermId>>

(* No id is of two tables. *)
MembershipAssumption ==
    /\ Asked \subseteq User \X Org /\ OldUser \in User /\ OldOrg \in Org
    /\ None \notin Id
    /\ \A i, j \in 1..5 : i # j => Tables[i] \cap Tables[j] = {}
    /\ MaxGiven \in Nat /\ MaxFaults \in Nat

VARIABLES
    rows,      \* the rows of all tables, by id
    links,     \* pairs of rows: holder and permission, application and
               \* permission, user and the organization asked for,
               \* permission or application and its organization
    named,     \* users that have given an email address
    kombit,    \* users with the nameId of one Kombit person
    req,       \* req[r]: where request r is and what it has read
    granted,   \* history: the links the requests have promised
    contended, \* history: links two requests rewrote at once
    hurt,      \* history: links a failed request may have written or not
    slipped,   \* history: requests to join lost with another's acceptance
    raced,     \* history: what two requests looked for and made at once
    faults

stores == <<rows, links, named, kombit>>
history == <<granted, contended, hurt, slipped, raced>>
vars == <<stores, req, history, faults>>

Idle == [kind |-> "none", stage |-> "new", row |-> None, org |-> None,
         give |-> {}, list |-> {}, todo |-> {}]
Req == [kind : {"none", "createUser", "createAdmin", "login", "promote", "demote", "accept",
                "reject", "askFirst", "ask", "createPermission", "updatePermission",
                "updateWithoutUsers", "createApp", "updateApp", "createOrg", "updateOrg",
                "createKey", "updateKey", "delete"},
        stage : {"new", "global", "addGlobal", "read", "save", "findOrg", "saveOrg",
                 "defaults", "auto", "share", "done", "failed"},
        row : Id \cup {None},   \* the row that is saved
        org : Id \cup {None},   \* the organization it is about
        give : SUBSET Id,       \* what it is to be linked with
        list : SUBSET (Id \X Id),  \* the list of links to be saved
        todo : SUBSET Id]       \* rows still to be saved the same way

(* Every variable has its type, and every link its two rows. *)
TypeOK ==
    /\ rows \subseteq Id /\ links \subseteq rows \X rows
    /\ named \subseteq Id /\ kombit \subseteq rows
    /\ \A r \in Request : req[r] \in Req
    /\ granted \subseteq Id \X Id /\ contended \subseteq Id \X Id
    /\ hurt \subseteq Id \X Id /\ slipped \subseteq Id \X Id
    /\ raced \subseteq {"global", "kombit"}
    /\ faults \in 0..MaxFaults

(* createDefaultPermissions: what an organization starts with.             *)
Defaults(o) == {o} \X {"auto", "admin"}

Init ==
    /\ \E global \in SUBSET {OldGlobal} :
         /\ rows = User \cup Org \cup App \cup ApiKey \cup global \cup UNION {Defaults(o) : o \in Org}
         /\ links = Asked \cup App \X {OldOrg} \cup (UNION {Defaults(o) \X {o} : o \in Org})
                    \cup (App \cup ApiKey \cup {OldUser}) \X {<<OldOrg, "auto">>}
                    \cup {OldUser} \X global
    /\ named = {OldUser} /\ kombit = {}
    /\ req = [r \in Request |-> Idle]
    /\ granted = links /\ contended = {} /\ hurt = {} /\ slipped = {} /\ raced = {}
    /\ faults = 0
-----------------------------------------------------------------------------
Of(o) == {p \in PermId : <<p, o>> \in links}
LinksOf(e, others) == links \cap ({e} \X others)
LinksTo(e, others) == links \cap (others \X {e})

(* Whose applications the permission lists: isOrganizationApplicationPermission. *)
Listed(p) == IF p[2] \in {"apps", "auto"} THEN Apps ELSE {}

At(r, s) == req[r].stage = s
Busy(r) == req[r].stage \notin {"new", "done", "failed"}
Goto(r, s) == req' = [req EXCEPT ![r].stage = s]
Fault == faults < MaxFaults /\ faults' = faults + 1
NewReq(kind, stage, row) == [Idle EXCEPT !.kind = kind, !.stage = stage, !.row = row]

(* The links a save of request q replaces: those of the relations its row  *)
(* was read with.                                                          *)
Scope(q) ==
    CASE q.kind \in {"promote", "demote", "updateKey"} -> {q.row} \X PermId
      [] q.kind \in {"accept", "askFirst", "updateApp"} -> {q.row} \X (PermId \cup Orgs)
      [] q.kind \in {"updatePermission", "updateWithoutUsers"} -> (Users \cup Apps) \X {q.row}
      [] q.kind = "updateOrg" -> PermId \X {q.row}
      [] OTHER -> {}

(* All the links it may write.                                             *)
Writes(q) ==
    Scope(q) \cup q.list
    \cup CASE q.kind \in {"reject", "askFirst", "ask"} -> Users \X q.todo
           [] q.kind = "createAdmin" -> {q.row} \X Global
           [] q.kind = "createOrg" -> Defaults(q.row) \X {q.row}
           [] q.kind = "createApp" ->
                  LET ps == IF q.stage = "share" THEN q.todo ELSE {p \in Of(q.org) : p[2] = "auto"}
                  IN  Apps \X ps \cup ps \X {q.org}
           [] OTHER -> {}

(* What two requests may both write: more when one begins, and when a      *)
(* permission is saved that applications to be created are added to.       *)
Overlap ==
    LET working == {r \in Request : Busy(r)} IN
    UNION {UNION {Writes(req[r]) \cap Writes(req[s]) : s \in working \ {r}} : r \in working}
Claim == contended' = contended \cup Overlap'

Begin(r, q) ==
    /\ req[r] = Idle /\ req' = [req EXCEPT ![r] = q]
    /\ UNCHANGED <<stores, granted, hurt, slipped, faults>> /\ Claim

(* The request is answered: what it has read is gone. *)
Answer(r, s) == req' = [req EXCEPT ![r] = [NewReq(req[r].kind, s, None) EXCEPT !.org = None]]

(* Repository.save: the row is written, or inserted if it is gone, and the *)
(* links of its relations become those of the list.                        *)
CanSave(e, list) == \A x \in list \ links : {x[1], x[2]} \subseteq rows \cup {e}
Written(e, scope, list) ==
    /\ CanSave(e, list)
    /\ rows' = rows \cup {e}
    /\ links' = (links \ scope) \cup list
-----------------------------------------------------------------------------
(* Users: createUser, as global admin or not.                              *)
BeginCreateUser(r) ==
    /\ \/ Begin(r, NewReq("createUser", "save", <<r, "user">>))
       \/ Begin(r, NewReq("createAdmin", "global", <<r, "user">>))
    /\ UNCHANGED raced

(* updateUser reads the user with the permissions ...                      *)
BeginUpdateUser(r, u) ==
    /\ u \in rows
    /\ \E k \in {"promote", "demote"} :
         Begin(r, [NewReq(k, "global", u) EXCEPT !.list = LinksOf(u, PermId)])
    /\ UNCHANGED raced

(* addUsersToPermission, removeUserFromPermission: in the list. *)
WithGlobal(q, p) ==
    IF q.kind = "demote" THEN q.list \ {<<q.row, p>>} ELSE q.list \cup {<<q.row, p>>}

(* ... findOrCreateGlobalAdminPermission ...                               *)
FindGlobal(r) ==
    /\ At(r, "global")
    /\ IF Global \cap rows # {}
       THEN /\ \E p \in Global \cap rows :
                 req' = [req EXCEPT ![r].stage = "save", ![r].give = {p}, ![r].list = WithGlobal(req[r], p)]
            /\ UNCHANGED raced
       ELSE /\ Goto(r, "addGlobal")
            /\ raced' = IF \E p \in Request : At(p, "addGlobal") THEN raced \cup {"global"} ELSE raced
    /\ UNCHANGED <<stores, granted, contended, hurt, slipped, faults>>

AddGlobal(r) ==
    /\ At(r, "addGlobal")
    /\ LET p == <<r, "global">> IN
       /\ rows' = rows \cup {p}
       /\ req' = [req EXCEPT ![r].stage = "save", ![r].give = {p}, ![r].list = WithGlobal(req[r], p)]
    /\ UNCHANGED <<links, named, kombit, history, faults>>

(* Mutant of FindOneByNameId: the look-up finds nobody.                    *)
FindNobody(p) == {}

FindOneByNameId(p) == kombit \cap p

(* Kombit login: the user is looked up by nameId, and made if not there.   *)
BeginLogin(r) ==
    /\ FindOneByNameId(rows) = {} /\ Begin(r, NewReq("login", "save", <<r, "user">>))
    /\ raced' = IF \E p \in Request : req[p].kind = "login" /\ Busy(p) THEN raced \cup {"kombit"} ELSE raced
-----------------------------------------------------------------------------
(* mapPermissionsToOrganizations, mapPermissionsToOneOrganization: an       *)
(* organization is known by its permissions, found or not.                 *)
HavePermissions(os) == \A o \in os : Of(o) # {}
AcceptingOrg(o) == IF Of(o) = {} THEN None ELSE o

(* newKombitUser: a user gives an email address and asks to join           *)
(* organizations; mails, and the user is saved ...                         *)
BeginAskFirst(r, u, os) ==
    /\ u \in rows \ named /\ HavePermissions(os)
    /\ Begin(r, [NewReq("askFirst", "save", u) EXCEPT !.list = LinksOf(u, PermId \cup Orgs), !.todo = os])
    /\ UNCHANGED raced

(* updateUserOrgs: a user asks for more.                                   *)
BeginAsk(r, u, os) ==
    /\ u \in rows /\ os # {} /\ HavePermissions(os)
    /\ Begin(r, [NewReq("ask", "findOrg", u) EXCEPT !.todo = os])
    /\ UNCHANGED raced

(* ... each organization is read with those who ask ...                    *)
FindOrg(r, o) ==
    /\ At(r, "findOrg") /\ o \in req[r].todo \cap rows
    /\ req' = [req EXCEPT ![r].stage = "saveOrg", ![r].org = o,
                          ![r].list = LinksTo(o, Users) \cup {<<req[r].row, o>>}]
    /\ UNCHANGED <<stores, history, faults>>

(* ... and saved with one more: updateAwaitingUsers. *)
SaveAwaiting(r) ==
    /\ At(r, "saveOrg") /\ req[r].kind # "reject"
    /\ LET q == req[r] IN
       /\ Written(q.org, Users \X {q.org}, q.list)
       /\ granted' = granted \cup {<<q.row, q.org>>}
       /\ IF q.todo = {q.org} THEN Answer(r, "done")
          ELSE req' = [req EXCEPT ![r].stage = "findOrg", ![r].todo = @ \ {q.org}, ![r].list = {}]
    /\ UNCHANGED <<named, kombit, contended, hurt, slipped, raced, faults>>

(* rejectAwaitingUser: read, a mail, saved with one less.                  *)
BeginReject(r, u, o) ==
    /\ <<u, o>> \in links
    /\ Begin(r, [NewReq("reject", "saveOrg", u)
                    EXCEPT !.org = o, !.todo = {o}, !.list = LinksTo(o, Users) \ {<<u, o>>}])
    /\ UNCHANGED raced

SaveRejected(r) ==
    /\ At(r, "saveOrg") /\ req[r].kind = "reject"
    /\ Written(req[r].org, Users \X {req[r].org}, req[r].list)
    /\ granted' = granted \ {<<req[r].row, req[r].org>>}
    /\ Answer(r, "done")
    /\ UNCHANGED <<named, kombit, contended, hurt, slipped, raced, faults>>

(* acceptUser: the organization's permissions are read, then the user ...  *)
BeginAccept(r, u, o, ps) ==
    /\ u \in rows /\ ps \subseteq Of(o)
    /\ Begin(r, [NewReq("accept", "read", u) EXCEPT !.org = AcceptingOrg(o), !.give = ps])
    /\ UNCHANGED raced

(* Mutant of Spliced: the first one goes, whichever that is.               *)
FirstSpliced(q, asked) == IF asked = {} THEN {{}} ELSE {asked \ {x} : x \in asked}

(* splice(findIndex(..), 1): at -1 the last one goes, whichever that is.   *)
Spliced(q, asked) ==
    IF <<q.row, q.org>> \in asked THEN {asked \ {<<q.row, q.org>>}}
    ELSE IF asked = {} THEN {{}} ELSE {asked \ {x} : x \in asked}

FindAccepted(r) ==
    /\ At(r, "read")
    /\ LET q == req[r]
           asked == LinksOf(q.row, Orgs) IN
       /\ LinksOf(q.row, q.give) = {}
       /\ \E kept \in Spliced(q, asked) :
            /\ req' = [req EXCEPT ![r].stage = "save",
                                  ![r].list = LinksOf(q.row, PermId) \cup {q.row} \X q.give \cup kept]
            /\ slipped' = IF <<q.row, q.org>> \in asked THEN slipped ELSE slipped \cup (asked \ kept)
    /\ UNCHANGED <<stores, granted, contended, hurt, raced, faults>>
-----------------------------------------------------------------------------
(* createNewPermission: the organization, applications and users are read. *)
BeginCreatePermission(r, k, o, as, us) ==
    /\ {o} \cup as \cup us \subseteq rows /\ as \subseteq Listed(<<r, k>>)
    /\ LET p == <<r, k>> IN
       Begin(r, [NewReq("createPermission", "save", p)
                    EXCEPT !.org = o, !.give = as \cup us, !.list = {<<p, o>>} \cup (as \cup us) \X {p}])
    /\ UNCHANGED raced

(* Mutant of NewLinks: only the links in the request remain.               *)
OnlyTheGiven(p, as, us, kind) == (as \cup us) \X {p}

(* mapToPermission: users that are not in the request stay as they were.   *)
NewLinks(p, as, us, kind) ==
    (as \cup us) \X {p} \cup LinksTo(p, Apps \ Listed(p))
    \cup (IF kind = "updatePermission" THEN {} ELSE LinksTo(p, Users))

(* updatePermission *)
BeginUpdatePermission(r, p, as, us) ==
    /\ {p} \cup as \cup us \subseteq rows /\ as \subseteq Listed(p)
    /\ \E k \in {"updatePermission", "updateWithoutUsers"} :
         /\ k = "updateWithoutUsers" => us = {}
         /\ Begin(r, [NewReq(k, "save", p)
                        EXCEPT !.give = as \cup us, !.list = LinksOf(p, Orgs) \cup NewLinks(p, as, us, k)])
    /\ UNCHANGED raced

(* Organizations: create ... *)
BeginCreateOrg(r) == Begin(r, NewReq("createOrg", "save", <<r, "org">>)) /\ UNCHANGED raced

(* ... in two saves ... *)
SaveDefaults(r) ==
    /\ At(r, "defaults") /\ req[r].row \in rows
    /\ rows' = rows \cup Defaults(req[r].row)
    /\ links' = links \cup Defaults(req[r].row) \X {req[r].row}
    /\ Answer(r, "done") /\ Claim
    /\ UNCHANGED <<named, kombit, granted, hurt, slipped, raced, faults>>

(* ... and update: read with the permissions.                              *)
BeginUpdateOrg(r, o) ==
    /\ o \in rows /\ Begin(r, [NewReq("updateOrg", "save", o) EXCEPT !.list = LinksTo(o, PermId)])
    /\ UNCHANGED raced
-----------------------------------------------------------------------------
(* Applications: create with chosen permissions ...                        *)
BeginCreateApp(r, o, ps) ==
    /\ {o} \cup ps \subseteq rows
    /\ Begin(r, [NewReq("createApp", "save", <<r, "app">>)
                    EXCEPT !.org = o, !.give = ps, !.list = {<<r, "app">>} \X (ps \cup {o})])
    /\ UNCHANGED raced

(* Mutant of AutoAdding: of every organization.                            *)
AutoAddingAnywhere(o) == {p \in rows \cap PermId : p[2] = "auto"}

AutoAdding(o) == {p \in Of(o) : p[2] = "auto"}

(* ... autoAddPermissionsToApplication reads the permissions that take new *)
(* applications, with their applications ...                               *)
FindAutoAdding(r) ==
    /\ At(r, "auto")
    /\ LET ps == AutoAdding(req[r].org) IN
       /\ IF ps = {} THEN Answer(r, "done")
          ELSE req' = [req EXCEPT ![r].stage = "share", ![r].todo = ps,
                          ![r].list = (links \cap (Apps \X ps)) \cup {req[r].row} \X ps]
       /\ granted' = granted \cup {req[r].row} \X {p \in PermId : p[2] = "auto" /\ <<p, req[r].org>> \in links}
    /\ UNCHANGED <<stores, contended, hurt, slipped, raced, faults>>

(* ... and saves each, all at once.                                        *)
Share(r, p) ==
    /\ At(r, "share") /\ p \in req[r].todo
    /\ Written(p, Apps \X {p}, req[r].list \cap (Apps \X {p}))
    /\ IF req[r].todo = {p} THEN Answer(r, "done")
       ELSE req' = [req EXCEPT ![r].todo = @ \ {p}]
    /\ UNCHANGED <<named, kombit, history, faults>>

(* ... and update: permissions and organization become the ones given.     *)
BeginUpdateApp(r, a, o, ps) ==
    /\ {a, o} \cup ps \subseteq rows
    /\ Begin(r, [NewReq("updateApp", "save", a)
                    EXCEPT !.org = o, !.give = ps, !.list = {a} \X (ps \cup {o})])
    /\ UNCHANGED raced

(* API keys: create and update (no permission given: none changed).        *)
BeginCreateKey(r, ps) ==
    /\ ps # {} /\ ps \subseteq rows
    /\ Begin(r, [NewReq("createKey", "save", <<r, "key">>) EXCEPT !.give = ps, !.list = {<<r, "key">>} \X ps])
    /\ UNCHANGED raced

BeginUpdateKey(r, k, ps) ==
    /\ ps # {} /\ {k} \cup ps \subseteq rows
    /\ Begin(r, [NewReq("updateKey", "save", k) EXCEPT !.give = ps, !.list = {k} \X ps])
    /\ UNCHANGED raced
-----------------------------------------------------------------------------
(* What a save of request q takes from the links that were promised, and   *)
(* what it adds.                                                           *)
Taken(q) ==
    CASE q.kind = "demote" -> {q.row} \X q.give
      [] q.kind = "accept" -> {<<q.row, q.org>>}
      [] q.kind = "updateKey" -> {q.row} \X PermId
      [] q.kind = "updateApp" -> {q.row} \X (PermId \cup Orgs)
      [] q.kind = "updatePermission" -> (Users \cup Listed(q.row)) \X {q.row}
      [] q.kind = "updateWithoutUsers" -> Listed(q.row) \X {q.row}
      [] OTHER -> {}
Given(q) ==
    CASE q.kind = "demote" -> {}
      [] q.kind = "createPermission" -> q.give \X {q.row} \cup {<<q.row, q.org>>}
      [] q.kind \in {"updatePermission", "updateWithoutUsers"} -> q.give \X {q.row}
      [] q.kind \in {"createApp", "updateApp"} -> {q.row} \X (q.give \cup {q.org})
      [] q.kind = "createOrg" -> Defaults(q.row) \X {q.row}
      [] OTHER -> {q.row} \X q.give
Promised(q) == (granted \ Taken(q)) \cup Given(q)

AfterSave(q) ==
    CASE q.kind = "createOrg" -> "defaults"
      [] q.kind = "createApp" -> "auto"
      [] q.kind = "askFirst" /\ q.todo # {} -> "findOrg"
      [] OTHER -> "done"

(* A permission that is gone cannot be an organization's: the statement    *)
(* that would make it so finds no row.                                     *)
ListOf(q) == IF q.kind = "updateOrg" THEN {x \in q.list : x[1] \in rows} ELSE q.list

Save(r) ==
    /\ At(r, "save")
    /\ LET q == req[r] IN
       /\ Written(q.row, Scope(q), ListOf(q))
       /\ granted' = Promised(q)
       /\ named' = IF q.kind \in {"askFirst", "createUser", "createAdmin"} THEN named \cup {q.row} ELSE named
       /\ kombit' = IF q.kind = "login" THEN kombit \cup {q.row} ELSE kombit
       /\ IF AfterSave(q) = "done" THEN Answer(r, "done")
          ELSE req' = [req EXCEPT ![r].stage = AfterSave(q), ![r].list = {}]
    /\ Claim /\ UNCHANGED <<hurt, slipped, raced, faults>>

(* Mutant of Cascade: only the row.                                        *)
RowOnly(e) == {e}

(* Deletes take the links with them, and an organization its permissions   *)
(* and applications; the global admin permission is never deleted.         *)
Cascade(e) == {e} \cup {x \in PermId \cup Apps : <<x, e>> \in links /\ e \in Orgs}

(* Mutant of Touching: only what the row links to, not what links to it.   *)
TouchingFrom(es, pairs) == {x \in pairs : x[1] \in es}

Touching(es, pairs) == {x \in pairs : x[1] \in es \/ x[2] \in es}

Delete(r, e) ==
    /\ req[r] = Idle /\ e \in rows \ (Global \cup Users)
    /\ Answer(r, "done")
    /\ LET gone == Cascade(e) IN
       /\ rows' = rows \ gone
       /\ links' = links \ Touching(gone, links)
       /\ granted' = granted \ Touching(gone, granted)
       /\ contended' = contended \cup
              UNION {Touching(gone, Writes(req[p])) : p \in {p \in Request : Busy(p)}}
    /\ UNCHANGED <<named, kombit, hurt, slipped, raced, faults>>
-----------------------------------------------------------------------------
(* What request q has begun to write.                                      *)
Halfway(q) ==
    CASE q.stage \in {"auto", "share"} -> {q.row} \X PermId
      [] q.stage = "defaults" -> Defaults(q.row) \X {q.row}
      [] OTHER -> {}

Abort(r) ==
    /\ Answer(r, "failed") /\ hurt' = hurt \cup Halfway(req[r])
    /\ UNCHANGED <<stores, granted, contended, slipped, raced>>

(* Every reason to answer with an error. *)
Refused(q) ==
    CASE q.stage = "read" -> LinksOf(q.row, q.give) # {}
      [] q.stage = "save" -> ~CanSave(q.row, ListOf(q))
      [] q.stage = "findOrg" -> ~(q.todo \subseteq rows)
      [] q.stage = "saveOrg" -> ~CanSave(q.org, q.list)
      [] q.stage = "share" -> \E p \in q.todo : ~CanSave(p, q.list \cap (Apps \X {p}))
      [] q.stage = "defaults" -> q.row \notin rows
      [] OTHER -> FALSE

Refuse(r) == Refused(req[r]) /\ Abort(r) /\ UNCHANGED faults

CallFails(r) == Busy(r) /\ Fault /\ Abort(r)

Crash ==
    /\ Fault
    /\ hurt' = hurt \cup UNION {Halfway(req[r]) : r \in Request}
    /\ req' = [r \in Request |-> IF Busy(r) THEN NewReq(req[r].kind, "failed", None) ELSE req[r]]
    /\ UNCHANGED <<stores, granted, contended, slipped, raced>>

Few(S) == {T \in SUBSET S : Cardinality(T) <= MaxGiven}

NewUserRequest(r) ==
    \/ BeginCreateUser(r) \/ BeginLogin(r)
    \/ \E u \in Users :
         \/ BeginUpdateUser(r, u)
         \/ \E os \in SUBSET Org : BeginAskFirst(r, u, os) \/ BeginAsk(r, u, os)
         \/ \E o \in Orgs : BeginReject(r, u, o)

NewPermissionRequest(r) ==
    \/ \E as \in Few(Apps \cap rows), us \in Few(Users \cap rows) :
         \/ \E k \in Kind \ {"global"}, o \in Orgs : BeginCreatePermission(r, k, o, as, us)
         \/ \E p \in PermId : BeginUpdatePermission(r, p, as, us)
    \/ \E u \in Users, o \in Orgs : \E ps \in Few(Of(o)) : BeginAccept(r, u, o, ps)
    \/ BeginCreateOrg(r) \/ \E o \in Orgs : BeginUpdateOrg(r, o)

NewApplicationRequest(r) ==
    \E ps \in Few(rows \cap PermId) :
      \/ \E o \in Orgs : BeginCreateApp(r, o, ps) \/ \E a \in Apps : BeginUpdateApp(r, a, o, ps)
      \/ BeginCreateKey(r, ps)
      \/ \E k \in Keys : BeginUpdateKey(r, k, ps)

Continue(r) ==
    \/ FindGlobal(r) \/ AddGlobal(r) \/ FindAccepted(r)
    \/ SaveAwaiting(r) \/ SaveRejected(r) \/ SaveDefaults(r) \/ FindAutoAdding(r)
    \/ \E o \in req[r].todo : FindOrg(r, o)
    \/ \E p \in req[r].todo : Share(r, p)
    \/ Save(r)

Next ==
    \/ \E r \in Request :
         \/ req[r] = Idle /\ (NewUserRequest(r) \/ NewPermissionRequest(r) \/ NewApplicationRequest(r))
         \/ Continue(r) \/ Refuse(r) \/ CallFails(r)
         \/ \E e \in rows : Delete(r, e)
    \/ Crash

Spec == Init /\ [][Next]_vars
-----------------------------------------------------------------------------
(* The links of a kind are the ones promised, but for those two requests   *)
(* rewrote at once, a failed one may have written, or one is writing now.  *)
AsPromised(pairs) ==
    \A x \in (links \cup granted) \ (links \cap granted) :
        x \in pairs => \/ x \in contended \cup hurt
                       \/ \E r \in Request : Busy(r) /\ x \in Writes(req[r])

(* Whoever was given a permission holds it until a request takes it away,  *)
(* and nobody else does: no update of a user, a permission or an API key   *)
(* changes a membership it is not about.                                   *)
GrantsKept == AsPromised(Holders \X PermId)

(* A permission reaches the applications it was given, and with `auto' the *)
(* organization's applications made since: no creation or update loses     *)
(* another's.                                                              *)
ApplicationsReached == AsPromised(Apps \X PermId)

(* A request to join an organization waits until that organization accepts *)
(* or rejects it, unless an acceptance that found no request took it.      *)
RequestsKept == AsPromised((Users \X Orgs) \ slipped)

(* A permission stays with its organization, an application with the one   *)
(* it was last given to, and both go with it.                              *)
OrganizationKept ==
    /\ AsPromised((PermId \cup Apps) \X Orgs)
    /\ \A x \in rows \cap (Apps \cup (PermId \ Global)) :
         LinksOf(x, Orgs) = {} => ({x} \X Orgs) \cap (contended \cup hurt) # {}

(* What is looked up and made when missing is there once: the global admin *)
(* permission, and the user of a Kombit person; unless two requests looked *)
(* at once.                                                                *)
MadeOnce ==
    /\ "global" \notin raced => \A p, s \in Global \cap rows : p = s
    /\ "kombit" \notin raced => \A u, v \in kombit : u = v
=============================================================================
