------------------------------- MODULE Gateways -------------------------------
(***************************************************************************)
(* LoRaWAN gateways live in ChirpStack and in the database.  The requests  *)
(* of ChirpstackGatewayService change one and then the other, without      *)
(* compensation.  Two jobs work on all gateways at once: the import after  *)
(* every start inserts what ChirpStack has and the database has not, and   *)
(* every minute the statistics are written with what was read before.      *)
(*                                                                         *)
(* One action is one statement on the database or one call to ChirpStack.  *)
(* What a gateway is like (name, place, tags) is the request that wrote    *)
(* it; the time in updatedAt is the request that was saved then.           *)
(***************************************************************************)
EXTENDS Naturals, FiniteSets

CONSTANTS
    Request,      \* requests to the API
    Gateway,      \* gateway ids
    Org,          \* organizations
    OldGateways,          \* gateways there at the start, in both stores
    OldOrg,       \* and their organization
    First,        \* whoever created them
    None,      \* no gateway, no organization, no time
    MaxFaults     \* bound: failed calls and statements, process deaths

Writer == Request \cup {First}

(* A row's id: the request that inserted it, or the gateway if it is old   *)
(* or imported.  The column gatewayId is not unique.                       *)
Row == [id : Request \cup Gateway, gw : Gateway, org : Org,
        content : Writer, updatedAt : Writer]
CsGateway == [org : Org, content : Writer]

GatewaysAssumption ==
    /\ First \notin Request /\ None \notin Writer \cup Org \cup CsGateway
    /\ Request \cap Gateway = {}
    /\ OldGateways \subseteq Gateway /\ OldOrg \in Org
    /\ MaxFaults \in Nat

VARIABLES
    orgs,       \* organizations in the database
    gateways,       \* rows of gateway
    cs,         \* cs[g]: gateway g in ChirpStack, with its organization tag
    call,       \* call[r]: where request r is and what it has read
    import,     \* import[g]: what the import after the start does about g
    imported,   \* imported[g]: what it has got from ChirpStack
    job,        \* job[g]: what the statistics job does about g
    read,       \* read[g]: updatedAt as the job has read it
    contended,  \* history: gateways two of these were working on at once
    hurt,       \* history: gateways left different in the two stores by a failure
    late,       \* history: gateways saved while the job held an older updatedAt
    faults

history == <<contended, hurt, late>>
jobs == <<import, imported, job, read>>
vars == <<orgs, gateways, cs, call, jobs, history, faults>>

Idle == [kind |-> "none", stage |-> "new", gw |-> None, org |-> None]
Call == [kind : {"none", "create", "modify", "delete"},
         stage : {"new", "findOrg", "post", "insert", "metrics", "put", "update",
                  "csDelete", "dbDelete", "done", "failed"},
         gw : Gateway \cup {None}, org : Org \cup {None}]

(* Every variable has its type. *)
TypeOK ==
    /\ orgs \subseteq Org /\ gateways \subseteq Row
    /\ cs \in [Gateway -> CsGateway \cup {None}]
    /\ call \in [Request -> Call]
    /\ import \in [Gateway -> {"due", "listed", "get", "findOrg", "save", "done"}]
    /\ imported \in [Gateway -> CsGateway \cup {None}]
    /\ job \in [Gateway -> {"idle", "listed", "metrics", "update"}]
    /\ read \in [Gateway -> Writer \cup {None}]
    /\ contended \subseteq Gateway /\ hurt \subseteq Gateway /\ late \subseteq Gateway
    /\ faults \in 0..MaxFaults

Init ==
    /\ orgs = Org
    /\ gateways = {[id |-> g, gw |-> g, org |-> OldOrg, content |-> First,
                updatedAt |-> First] : g \in OldGateways}
    /\ cs = [g \in Gateway |-> IF g \in OldGateways THEN [org |-> OldOrg, content |-> First]
                                ELSE None]
    /\ call = [r \in Request |-> Idle]
    /\ import = [g \in Gateway |-> "due"]
    /\ imported = [g \in Gateway |-> None]
    /\ job = [g \in Gateway |-> "idle"]
    /\ read = [g \in Gateway |-> None]
    /\ contended = {} /\ hurt = {} /\ late = {}
    /\ faults = 0
-----------------------------------------------------------------------------
RowsOf(g) == {w \in gateways : w.gw = g}
At(r, s) == call[r].stage = s
Busy(r) == call[r].stage \notin {"new", "done", "failed"}
BusyOn(g) == {r \in Request : Busy(r) /\ call[r].gw = g}
Importing(g) == import[g] \notin {"due", "done"}
Fault == faults < MaxFaults /\ faults' = faults + 1
Quiet == UNCHANGED <<history, faults>>

Goto(r, s) == call' = [call EXCEPT ![r].stage = s]

(* Gateway g is saved with a new time: the job may hold an older one.      *)
Overtaken(g) == IF job[g] # "idle" THEN late \cup {g} ELSE late \ {g}

(* Gateways request r has changed in ChirpStack and not in the database.   *)
Halfway(r) ==
    IF call[r].stage \in {"insert", "update", "dbDelete"} THEN {call[r].gw} ELSE {}

Begin(r, kind, stage, g, o) ==
    /\ call[r] = Idle
    /\ call' = [call EXCEPT ![r] = [kind |-> kind, stage |-> stage, gw |-> g, org |-> o]]
    /\ contended' = IF BusyOn(g) # {} \/ Importing(g) THEN contended \cup {g} ELSE contended
    /\ UNCHANGED <<orgs, gateways, cs, jobs, hurt, late, faults>>

(* The request is answered with an error (a deletion with success: false). *)
Abort(r) ==
    /\ Goto(r, "failed")
    /\ hurt' = hurt \cup Halfway(r)
    /\ UNCHANGED <<orgs, gateways, cs, jobs, contended, late>>
-----------------------------------------------------------------------------
(* createNewGateway: the organization is read ... *)
BeginCreate(r, g, o) == Begin(r, "create", "findOrg", g, o)

FindOrganization(r) ==
    /\ At(r, "findOrg") /\ call[r].org \in orgs /\ Goto(r, "post")
    /\ UNCHANGED <<orgs, gateways, cs, jobs>> /\ Quiet

(* ... ChirpStack creates the gateway, unless it has one with this id ... *)
PostGateway(r) ==
    /\ At(r, "post") /\ cs[call[r].gw] = None /\ Goto(r, "insert")
    /\ cs' = [cs EXCEPT ![call[r].gw] = [org |-> call[r].org, content |-> r]]
    /\ UNCHANGED <<orgs, gateways, jobs>> /\ Quiet

(* ... and the row is inserted. *)
InsertGateway(r) ==
    /\ At(r, "insert") /\ call[r].org \in orgs /\ Goto(r, "done")
    /\ gateways' = gateways \cup {[id |-> r, gw |-> call[r].gw, org |-> call[r].org,
                           content |-> r, updatedAt |-> r]}
    /\ late' = Overtaken(call[r].gw)
    /\ UNCHANGED <<orgs, cs, jobs, contended, hurt, faults>>

(* modifyGateway and the controller's delete begin with getOne, which      *)
(* reads the row with its organization ...                                 *)
BeginModify(r, g) == \E w \in RowsOf(g) : Begin(r, "modify", "metrics", g, w.org)
BeginDelete(r, g) == \E w \in RowsOf(g) : Begin(r, "delete", "metrics", g, w.org)

(* ... and the statistics from ChirpStack, which must know the gateway. *)
GetMetrics(r) ==
    /\ At(r, "metrics") /\ cs[call[r].gw] # None
    /\ Goto(r, IF call[r].kind = "modify" THEN "put" ELSE "csDelete")
    /\ UNCHANGED <<orgs, gateways, cs, jobs>> /\ Quiet

(* Mutant of TagOf: the tag is not set, ChirpStack keeps another one.      *)
AnyTag(r) == CHOOSE o \in Org : o # call[r].org

(* ensureOrganizationIdIsSet: the tag is the row's organization.           *)
TagOf(r) == call[r].org

PutGateway(r) ==
    /\ At(r, "put") /\ cs[call[r].gw] # None /\ Goto(r, "update")
    /\ cs' = [cs EXCEPT ![call[r].gw] = [org |-> TagOf(r), content |-> r]]
    /\ UNCHANGED <<orgs, gateways, jobs>> /\ Quiet

(* Mutant of Modified: the organization of the row is overwritten.         *)
ModifiedInAnotherOrg(w, r) ==
    [w EXCEPT !.content = r, !.updatedAt = r, !.org = CHOOSE o \in Org : o # w.org]

Modified(w, r) == [w EXCEPT !.content = r, !.updatedAt = r]

(* The rows with this gatewayId are updated, which may be none.            *)
UpdateGateway(r) ==
    /\ At(r, "update") /\ Goto(r, "done")
    /\ LET g == call[r].gw IN
       /\ gateways' = (gateways \ RowsOf(g)) \cup {Modified(w, r) : w \in RowsOf(g)}
       /\ late' = Overtaken(g)
       /\ hurt' = IF BusyOn(g) = {r} /\ \E w \in gateways : RowsOf(g) = {w} /\ w.org = call[r].org
                  THEN hurt \ {g} ELSE hurt
    /\ UNCHANGED <<orgs, cs, jobs, contended, faults>>

(* deleteGateway: in ChirpStack ... *)
DeleteInChirpstack(r) ==
    /\ At(r, "csDelete") /\ cs[call[r].gw] # None /\ Goto(r, "dbDelete")
    /\ cs' = [cs EXCEPT ![call[r].gw] = None]
    /\ UNCHANGED <<orgs, gateways, jobs>> /\ Quiet

(* ... then every row with this gatewayId. *)
DeleteRows(r) ==
    /\ At(r, "dbDelete") /\ Goto(r, "done")
    /\ gateways' = gateways \ RowsOf(call[r].gw)
    /\ UNCHANGED <<orgs, cs, jobs>> /\ Quiet

(* Every reason to answer with an error: the organization is gone, the     *)
(* gateway is, or is not, in ChirpStack.                                   *)
Refuse(r) ==
    /\ \/ (At(r, "findOrg") \/ At(r, "insert")) /\ call[r].org \notin orgs
       \/ At(r, "post") /\ cs[call[r].gw] # None
       \/ (At(r, "metrics") \/ At(r, "put") \/ At(r, "csDelete")) /\ cs[call[r].gw] = None
    /\ Abort(r) /\ UNCHANGED faults

(* OrganizationService.delete: the rows go with the organization (onDelete *)
(* CASCADE), ChirpStack is not told.                                       *)
DeleteOrganization(o) ==
    /\ o \in orgs /\ orgs' = orgs \ {o}
    /\ gateways' = {w \in gateways : w.org # o}
    /\ hurt' = hurt \cup {g \in Gateway : cs[g] # None /\ cs[g].org = o}
                    \cup {w.gw : w \in gateways \ gateways'}
    /\ UNCHANGED <<cs, call, jobs, contended, late, faults>>
-----------------------------------------------------------------------------
(* importChirpstackGateways, once after the start: what ChirpStack has ... *)
ListChirpstack ==
    /\ \A g \in Gateway : import[g] = "due"
    /\ import' = [g \in Gateway |-> IF cs[g] # None THEN "listed" ELSE "done"]
    /\ contended' = contended \cup {g \in Gateway : cs[g] # None /\ BusyOn(g) # {}}
    /\ UNCHANGED <<orgs, gateways, cs, call, imported, job, read, hurt, late, faults>>

(* Mutant of MissingIn: every gateway of ChirpStack is imported.           *)
AnyIn(stored) == Gateway

MissingIn(stored) == {g \in Gateway : \A w \in stored : w.gw # g}

(* ... that the database has not (the import is over for the others) ... *)
ListDatabase ==
    /\ \E g \in Gateway : import[g] = "listed"
    /\ import' = [g \in Gateway |->
                     IF import[g] # "listed" THEN import[g]
                     ELSE IF g \in MissingIn(gateways) THEN "get" ELSE "done"]
    /\ UNCHANGED <<orgs, gateways, cs, call, imported, job, read>> /\ Quiet

(* ... is read from ChirpStack one by one ... *)
GetForImport(g) ==
    /\ import[g] = "get"
    /\ imported' = [imported EXCEPT ![g] = cs[g]]
    /\ import' = [import EXCEPT ![g] = IF cs[g] = None THEN "done" ELSE "findOrg"]
    /\ UNCHANGED <<orgs, gateways, cs, call, job, read>> /\ Quiet

(* ... with the organization its tag names ... *)
FindOrgForImport(g) ==
    /\ import[g] = "findOrg"
    /\ import' = [import EXCEPT ![g] = IF imported[g].org \in orgs THEN "save" ELSE "done"]
    /\ imported' = IF imported[g].org \in orgs THEN imported
                   ELSE [imported EXCEPT ![g] = None]
    /\ UNCHANGED <<orgs, gateways, cs, call, job, read>> /\ Quiet

(* ... and inserted. *)
SaveImported(g) ==
    /\ import[g] = "save"
    /\ import' = [import EXCEPT ![g] = "done"]
    /\ imported' = [imported EXCEPT ![g] = None]
    /\ IF imported[g].org \in orgs
       THEN /\ gateways' = gateways \cup {[id |-> g, gw |-> g, org |-> imported[g].org,
                                   content |-> imported[g].content,
                                   updatedAt |-> imported[g].content]}
            /\ hurt' = hurt \ {g}
            /\ late' = Overtaken(g)
       ELSE UNCHANGED <<gateways, hurt, late>>
    /\ UNCHANGED <<orgs, cs, call, job, read, contended, faults>>
-----------------------------------------------------------------------------
(* fetchStatusForGateway, every minute: the rows are read ... *)
ReadForStats ==
    /\ \A g \in Gateway : job[g] = "idle"
    /\ \E f \in [{w.gw : w \in gateways} -> gateways] :
         /\ \A g \in DOMAIN f : f[g].gw = g
         /\ read' = [g \in Gateway |-> IF g \in DOMAIN f THEN f[g].updatedAt ELSE None]
         /\ job' = [g \in Gateway |-> IF g \in DOMAIN f THEN "listed" ELSE "idle"]
    /\ UNCHANGED <<orgs, gateways, cs, call, import, imported>> /\ Quiet

(* The job leaves gateway g: it is done, or an error was caught.           *)
LeaveJob(g) ==
    /\ job' = [job EXCEPT ![g] = "idle"]
    /\ read' = [read EXCEPT ![g] = None]

(* ... then the gateways of ChirpStack, with when they were last seen ... *)
ListForStats ==
    /\ \E g \in Gateway : job[g] = "listed"
    /\ job' = [g \in Gateway |-> IF job[g] # "listed" THEN job[g]
                                 ELSE IF cs[g] # None THEN "metrics" ELSE "idle"]
    /\ read' = [g \in Gateway |-> IF job[g] = "listed" /\ cs[g] = None THEN None
                                  ELSE read[g]]
    /\ UNCHANGED <<orgs, gateways, cs, call, import, imported>> /\ Quiet

(* ... then the statistics of each ... *)
GetStats(g) ==
    /\ job[g] = "metrics"
    /\ IF cs[g] # None
       THEN job' = [job EXCEPT ![g] = "update"] /\ UNCHANGED read
       ELSE LeaveJob(g)
    /\ UNCHANGED <<orgs, gateways, cs, call, import, imported>> /\ Quiet

(* Mutant of WithStats: the row is saved, and so inserted if it is gone.   *)
WithStatsSaved(g) ==
    IF RowsOf(g) = {}
    THEN {[id |-> g, gw |-> g, org |-> OldOrg, content |-> read[g], updatedAt |-> read[g]]}
    ELSE {[w EXCEPT !.updatedAt = read[g]] : w \in RowsOf(g)}

(* Mutant of WithStats: the whole row is written as it was read.           *)
WithStatsWhole(g) == {[w EXCEPT !.updatedAt = read[g], !.content = read[g]] : w \in RowsOf(g)}

(* Mutant of WithStats: updatedAt is left to the database: another time.    *)
WithStatsStamped(g) == {[w EXCEPT !.updatedAt = None] : w \in RowsOf(g)}

(* updateGatewayStats: the rows there are get updatedAt as it was read.    *)
WithStats(g) == {[w EXCEPT !.updatedAt = read[g]] : w \in RowsOf(g)}

UpdateStats(g) ==
    /\ job[g] = "update" /\ LeaveJob(g)
    /\ gateways' = (gateways \ RowsOf(g)) \cup WithStats(g)
    /\ UNCHANGED <<orgs, cs, call, import, imported>> /\ Quiet
-----------------------------------------------------------------------------
(* A call or statement fails: of a request ... *)
CallFails(r) == Busy(r) /\ Fault /\ Abort(r)

(* ... when ChirpStack has done what it was asked for ... *)
AnswerLost(r) ==
    /\ Fault /\ Goto(r, "failed")
    /\ LET g == call[r].gw IN
       /\ \/ At(r, "post") /\ cs[g] = None
             /\ cs' = [cs EXCEPT ![g] = [org |-> call[r].org, content |-> r]]
          \/ At(r, "put") /\ cs[g] # None
             /\ cs' = [cs EXCEPT ![g] = [org |-> TagOf(r), content |-> r]]
          \/ At(r, "csDelete") /\ cs[g] # None /\ cs' = [cs EXCEPT ![g] = None]
       /\ hurt' = hurt \cup {g}
    /\ UNCHANGED <<orgs, gateways, jobs, contended, late>>

(* ... of the import (its error is caught) or of the job for a gateway.    *)
JobFails(g) ==
    /\ Fault
    /\ \/ /\ import[g] \in {"get", "findOrg", "save"}
          /\ import' = [import EXCEPT ![g] = "done"]
          /\ imported' = [imported EXCEPT ![g] = None]
          /\ UNCHANGED <<job, read>>
       \/ job[g] \in {"metrics", "update"} /\ LeaveJob(g) /\ UNCHANGED <<import, imported>>
    /\ UNCHANGED <<orgs, gateways, cs, call, history>>

(* The process dies and is started again. *)
Crash ==
    /\ Fault
    /\ hurt' = hurt \cup UNION {Halfway(r) : r \in Request}
    /\ call' = [r \in Request |-> IF Busy(r) THEN [call[r] EXCEPT !.stage = "failed"]
                                  ELSE call[r]]
    /\ import' = [g \in Gateway |-> "due"]
    /\ imported' = [g \in Gateway |-> None]
    /\ job' = [g \in Gateway |-> "idle"]
    /\ read' = [g \in Gateway |-> None]
    /\ UNCHANGED <<orgs, gateways, cs, contended, late>>

Create(r) ==
    \/ \E g \in Gateway, o \in Org : BeginCreate(r, g, o)
    \/ FindOrganization(r) \/ PostGateway(r) \/ InsertGateway(r)

Change(r) ==
    \/ \E g \in Gateway : BeginModify(r, g) \/ BeginDelete(r, g)
    \/ GetMetrics(r) \/ PutGateway(r) \/ UpdateGateway(r)
    \/ DeleteInChirpstack(r) \/ DeleteRows(r)

Import ==
    \/ ListChirpstack \/ ListDatabase
    \/ \E g \in Gateway : GetForImport(g) \/ FindOrgForImport(g) \/ SaveImported(g)

Stats ==
    \/ ReadForStats \/ ListForStats
    \/ \E g \in Gateway : GetStats(g) \/ UpdateStats(g)

Next ==
    \/ \E r \in Request : Create(r) \/ Change(r) \/ Refuse(r) \/ CallFails(r) \/ AnswerLost(r)
    \/ \E o \in Org : DeleteOrganization(o)
    \/ \E g \in Gateway : JobFails(g)
    \/ Import \/ Stats \/ Crash

Spec == Init /\ [][Next]_vars
-----------------------------------------------------------------------------
(* One row for the gateway ChirpStack has, none otherwise, with the same   *)
(* contents and the organization its tag names (which the import relies    *)
(* on).                                                                    *)
Agree(g) ==
    IF cs[g] = None THEN RowsOf(g) = {}
    ELSE \E w \in gateways : RowsOf(g) = {w} /\ w.org = cs[g].org /\ w.content = cs[g].content

(* The stores agree on every gateway that no request is working on, unless *)
(* two requests, or a request and the import, worked on it at once, or a   *)
(* failure or the deletion of its organization left it in one of them --   *)
(* and again once the import after a restart has inserted it, or a later   *)
(* update has succeeded.  The statistics job never disturbs that.          *)
GatewaysInStep ==
    \A g \in Gateway \ (contended \cup hurt) : BusyOn(g) = {} => Agree(g)

(* updatedAt is the time of the last modification, unless that was saved   *)
(* while the statistics job held the time before it (or there may be two   *)
(* rows for the gateway: a creation raced the import, or followed a        *)
(* deletion that failed halfway).                                          *)
UpdatedAtTrue ==
    \A w \in gateways : w.gw \in late \cup contended \cup hurt \/ w.updatedAt = w.content
=============================================================================
