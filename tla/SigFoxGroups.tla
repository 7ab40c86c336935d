------------------------------ MODULE SigFoxGroups ------------------------------
(***************************************************************************)
(* The API users SigFox is asked with: a row (sigfox group) has the login  *)
(* of one, and the id of its group at SigFox.  A request that only looks   *)
(* at a group also saves it: what SigFox says of the group is added, and   *)
(* the row is written as it was read, with its login.                      *)
(*                                                                         *)
(* The groups of one organization; SigFox accepts the ones in ValidLogin.    *)
(***************************************************************************)
EXTENDS Naturals

CONSTANTS
    Request,    \* requests to the API; also the ids of the groups they create
    OldGroup,   \* a group there at the start
    Login, ValidLogin,  \* user names with their passwords
    None,
    MaxFaults   \* bound: calls that fail

GroupsAssumption ==
    /\ OldGroup \notin Request /\ ValidLogin \subseteq Login /\ ValidLogin # {}
    /\ None \notin Login \cup Request \cup {OldGroup} /\ MaxFaults \in Nat

Gid == Request \cup {OldGroup}

VARIABLES
    logins,   \* logins[g]: user name and password of group g
    asking,   \* asking[r]: where request r is and the login it has
    answeredWith, \* history: the login each group was given last, as answered
    unsaved,  \* history: groups whose login was answered without being saved
    reverted, \* history: groups saved with a login read before another was saved
    faults

vars == <<logins, asking, answeredWith, unsaved, reverted, faults>>

Fresh == [kind |-> "none", stage |-> "new", id |-> None, login |-> None]

(* Every variable has its type. *)
TypeOK ==
    /\ logins \in [Gid -> Login \cup {None}]
    /\ asking \in [Request -> [kind : {"none", "edit", "look"},
                               stage : {"new", "test", "groups", "save", "done", "failed"},
                               id : Gid \cup {None}, login : Login \cup {None}]]
    /\ answeredWith \in [Gid -> Login \cup {None}]
    /\ unsaved \subseteq Gid /\ reverted \subseteq Gid
    /\ faults \in 0..MaxFaults

Init ==
    /\ \E c \in ValidLogin : logins = [g \in Gid |-> IF g = OldGroup THEN c ELSE None]
    /\ asking = [r \in Request |-> Fresh]
    /\ answeredWith = logins
    /\ unsaved = {} /\ reverted = {} /\ faults = 0
-----------------------------------------------------------------------------
At(r, s) == asking[r].stage = s
Goto(r, s) == asking' = [asking EXCEPT ![r].stage = s]
End(r, s) == asking' = [asking EXCEPT ![r] = [Fresh EXCEPT !.stage = s]]
Begin(r, kind, stage, g, c) ==
    /\ asking[r] = Fresh
    /\ asking' = [asking EXCEPT ![r] = [kind |-> kind, stage |-> stage, id |-> g, login |-> c]]
    /\ UNCHANGED <<logins, answeredWith, unsaved, reverted, faults>>

(* create, update: the request's login ...                                 *)
Edit(r, g, c) == (g = r \/ logins[g] # None) /\ Begin(r, "edit", "test", g, c)

(* ... is tried, and refused if SigFox does not accept it.                 *)
TestConnection(r) ==
    /\ At(r, "test")
    /\ IF asking[r].login \in ValidLogin THEN Goto(r, "groups") ELSE End(r, "failed")
    /\ UNCHANGED <<logins, answeredWith, unsaved, reverted, faults>>

(* A call that fails is taken for a login that is not accepted.            *)
TestFails(r) ==
    /\ At(r, "test") /\ faults < MaxFaults /\ faults' = faults + 1 /\ End(r, "failed")
    /\ UNCHANGED <<logins, answeredWith, unsaved, reverted>>

(* findOne, findAllForOrganization: the group is read with its login.      *)
Look(r, g) == logins[g] # None /\ Begin(r, "look", "groups", g, logins[g])

(* addSigFoxDataToGroupAndSave: SigFox is asked for the group ...          *)
GetGroups(r) ==
    /\ At(r, "groups") /\ Goto(r, "save")
    /\ UNCHANGED <<logins, answeredWith, unsaved, reverted, faults>>

(* ... and if it does not answer the row is not saved; the group is        *)
(* returned all the same.                                                  *)
GetGroupsFails(r) ==
    /\ At(r, "groups") /\ faults < MaxFaults /\ faults' = faults + 1 /\ End(r, "done")
    /\ IF asking[r].kind = "edit"
       THEN /\ unsaved' = unsaved \cup {asking[r].id}
            /\ answeredWith' = [answeredWith EXCEPT ![asking[r].id] = asking[r].login]
       ELSE UNCHANGED <<unsaved, answeredWith>>
    /\ UNCHANGED <<logins, reverted>>

(* Mutant of LoginToSave: the row is read again for its password.          *)
LoginAsRead(q) == IF logins[q.id] # None THEN logins[q.id] ELSE q.login

LoginToSave(q) == q.login

(* ... otherwise it is.  A user name is once in an organization.           *)
SaveGroup(r) ==
    /\ At(r, "save")
    /\ LET q == asking[r] IN
       IF \E h \in Gid \ {q.id} : logins[h] = LoginToSave(q)
       THEN End(r, "failed") /\ UNCHANGED <<logins, answeredWith, unsaved, reverted>>
       ELSE /\ logins' = [logins EXCEPT ![q.id] = LoginToSave(q)] /\ End(r, "done")
            /\ IF q.kind = "edit"
               THEN /\ answeredWith' = [answeredWith EXCEPT ![q.id] = q.login]
                    /\ unsaved' = unsaved \ {q.id} /\ reverted' = reverted \ {q.id}
               ELSE /\ reverted' = IF q.login # logins[q.id] THEN reverted \cup {q.id} ELSE reverted
                    /\ UNCHANGED <<answeredWith, unsaved>>
    /\ UNCHANGED faults

Next ==
    \E r \in Request :
        \/ \E g \in Gid : Look(r, g) \/ \E c \in Login : Edit(r, g, c)
        \/ TestConnection(r) \/ TestFails(r) \/ GetGroups(r) \/ GetGroupsFails(r) \/ SaveGroup(r)

Spec == Init /\ [][Next]_vars
-----------------------------------------------------------------------------
(* A group has the login its last accepted change gave it, except when it  *)
(* was answered without being saved, or saved over by a request that only  *)
(* looked at the group and had read the login before.  It never has one    *)
(* that SigFox does not accept.                                            *)
LoginKept ==
    \A g \in Gid :
        /\ logins[g] = answeredWith[g] \/ g \in unsaved \cup reverted
        /\ logins[g] \in ValidLogin \cup {None}
=============================================================================
