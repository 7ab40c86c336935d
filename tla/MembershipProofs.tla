--------------------------- MODULE MembershipProofs ---------------------------
(***************************************************************************)
(* Proofs about the membership part of Administration, for any number of   *)
(* requests and of rows: the links are the ones the requests promised,     *)
(* but for those two requests rewrote at once, a failed one may have       *)
(* written, or one is writing now.                                         *)
(*                                                                         *)
(* A request reads a list of links, and saves it later.  What it may write *)
(* in the end is known from its beginning, so a link that two requests may *)
(* write is in `contended' (Claimed).  Any other link in its list is kept  *)
(* by everybody else, and so the list still says of it what was promised   *)
(* when the request comes to save it (Sound).                              *)
(***************************************************************************)
EXTENDS AdministrationProofs

(* What the history variables say is not as promised. *)
Excused == contended \cup hurt \cup slipped

(* What request r looks like while it is busy, by its kind.                *)
NewUserShaped(q, r) ==
    /\ q.kind \in {"createUser", "login"} => q.stage = "save" /\ q.give = {} /\ q.list = {}
    /\ q.kind \in {"createUser", "login", "createAdmin"} => q.row = <<r, "user">>
    /\ q.kind = "createAdmin" =>
         /\ q.stage \in {"global", "addGlobal", "save"} /\ q.list = {q.row} \X q.give
         /\ q.stage # "save" => q.give = {}
    /\ q.kind \in {"createAdmin", "promote", "demote"} => q.give \subseteq M!Global
UserShaped(q) ==
    /\ q.kind \in {"promote", "demote"} =>
         /\ q.stage \in {"global", "addGlobal", "save"} /\ q.row \in M!Users
         /\ q.list \subseteq {q.row} \X M!PermId
    /\ q.kind = "accept" =>
         /\ q.stage \in {"read", "save"} /\ q.row \in M!Users /\ q.org \in M!Orgs \cup {None}
         /\ q.give \subseteq M!PermId /\ q.list \subseteq {q.row} \X (M!PermId \cup M!Orgs)
    /\ q.kind = "askFirst" => q.stage \in {"save", "findOrg", "saveOrg"}
    /\ q.kind = "ask" => q.stage \in {"findOrg", "saveOrg"}
    /\ q.kind \in {"askFirst", "ask"} => q.give = {}
    /\ q.kind = "reject" => q.stage = "saveOrg"
    /\ q.kind \in {"askFirst", "ask", "reject"} =>
         /\ q.row \in M!Users /\ q.todo \subseteq M!Orgs
         /\ q.stage = "save" => q.list \subseteq {q.row} \X (M!PermId \cup M!Orgs)
         /\ q.stage = "findOrg" => q.list = {}
         /\ q.stage = "saveOrg" => q.org \in q.todo /\ q.list \subseteq M!Users \X {q.org}
PermissionShaped(q) ==
    /\ q.kind = "createPermission" =>
         /\ q.stage = "save" /\ q.row \in M!PermId \ M!Global /\ q.org \in M!Orgs
         /\ q.give \subseteq M!Users \cup M!Apps /\ q.list = {<<q.row, q.org>>} \cup q.give \X {q.row}
    /\ q.kind \in {"updatePermission", "updateWithoutUsers"} =>
         /\ q.stage = "save" /\ q.row \in M!PermId
         /\ q.list \subseteq (M!Users \cup M!Apps) \X {q.row} \cup {q.row} \X M!Orgs
         /\ q.row \in M!Global => q.list \cap ({q.row} \X M!Orgs) = {}
    /\ q.kind = "updatePermission" => q.give \subseteq M!Users \cup M!Listed(q.row)
    /\ q.kind = "updateWithoutUsers" => q.give \subseteq M!Listed(q.row)
    /\ q.kind = "createOrg" => q.stage \in {"save", "defaults"} /\ q.list = {}
    /\ q.kind = "updateOrg" => q.stage = "save" /\ q.list \subseteq (M!PermId \ M!Global) \X {q.row}
    /\ q.kind \in {"createOrg", "updateOrg"} => q.row \in M!Orgs /\ q.give = {}
ApplicationShaped(q) ==
    /\ q.kind \in {"createApp", "updateApp"} =>
         /\ q.row \in M!Apps /\ q.org \in M!Orgs /\ q.give \subseteq M!PermId
         /\ q.stage = "save" => q.list = {q.row} \X (q.give \cup {q.org})
    /\ q.kind = "createApp" =>
         /\ q.stage \in {"save", "auto", "share"}
         /\ q.stage = "auto" => q.list = {}
         /\ q.stage = "share" => /\ q.todo \subseteq {p \in M!PermId : p[2] = "auto"}
                                 /\ q.list \subseteq M!Apps \X M!PermId
    /\ q.kind = "updateApp" => q.stage = "save"
    /\ q.kind \in {"createKey", "updateKey"} =>
         q.stage = "save" /\ q.row \in M!Keys /\ q.give \subseteq M!PermId /\ q.list = {q.row} \X q.give
Shaped(q, r) ==
    /\ q.kind \notin {"none", "delete"}
    /\ NewUserShaped(q, r) /\ UserShaped(q) /\ PermissionShaped(q) /\ ApplicationShaped(q)
Shapes == \A r \in Request : M!Busy(r) => Shaped(req[r], r)

(* The list of a request says of a link what was promised when it was      *)
(* read, and now: of every link that it alone may write.                   *)
SameOn(pairs, ls, ms) == \A x \in pairs \ Excused : x \in ls <=> x \in ms
Sound(q) ==
    /\ q.stage = "save" => SameOn(M!Scope(q) \cup q.list, q.list, M!Promised(q))
    /\ q.stage \in {"global", "addGlobal"} => SameOn(M!Scope(q), q.list, granted)
    /\ q.stage = "saveOrg" =>
         SameOn(M!Users \X {q.org}, q.list,
                IF q.kind = "reject" THEN granted \ {<<q.row, q.org>>} ELSE granted \cup {<<q.row, q.org>>})
    /\ q.stage = "share" => SameOn(M!Apps \X q.todo, q.list, granted)
    /\ q.stage = "defaults" => M!Defaults(q.row) \X {q.row} \subseteq granted \cup Excused
    /\ q.kind = "updateOrg" => \A x \in q.list \ Excused : x[1] \in rows
ListsSound == \A r \in Request : M!Busy(r) => Sound(req[r])

(* Promised by request q, and still to be written.                         *)
Unwritten(q) ==
    CASE q.stage = "share" -> {q.row} \X q.todo
      [] q.stage = "defaults" -> M!Defaults(q.row) \X {q.row}
      [] OTHER -> {}
Agreed ==
    \A x \in (links \cup granted) \ Excused :
        (x \in links <=> x \in granted) \/ \E r \in Request : M!Busy(r) /\ x \in Unwritten(req[r])

Claimed ==
    \A r, s \in Request :
        r # s /\ M!Busy(r) /\ M!Busy(s) => M!Writes(req[r]) \cap M!Writes(req[s]) \subseteq contended

(* Of what a permission or an application goes with, its organization,     *)
(* something is left, also for those a request saves that are gone.  The   *)
(* global admin permission is of no organization.                          *)
Placed(x, ls) == ({x} \X M!Orgs) \cap (ls \cup contended \cup hurt) # {}
RowsPlaced ==
    /\ \A x \in rows \cap (M!Apps \cup (M!PermId \ M!Global)) : Placed(x, links)
    /\ \A p \in M!Global, o \in M!Orgs : <<p, o>> \notin links
ToBePlaced(q) ==
    /\ q.kind \in {"updatePermission", "updateWithoutUsers"} /\ q.row \notin M!Global => Placed(q.row, q.list)
    /\ q.stage = "share" => \A p \in q.todo : <<p, q.org>> \in links \cup contended \cup hurt
SavedPlaced == \A r \in Request : M!Busy(r) => ToBePlaced(req[r])

(* Who makes the global admin permission, and who a Kombit person's user.  *)
OneGlobal ==
    "global" \notin raced =>
        /\ \A p, s \in M!Global \cap rows : p = s
        /\ \A r, s \in Request : M!At(r, "addGlobal") /\ M!At(s, "addGlobal") => r = s
        /\ \A r \in Request : M!At(r, "addGlobal") => M!Global \cap rows = {}
GlobalThere ==
    \A r \in Request : M!Busy(r) /\ req[r].row \in M!Global => req[r].row \in rows
LoggingIn(r) == req[r].kind = "login" /\ M!Busy(r)
OneKombit ==
    "kombit" \notin raced =>
        /\ \A u, v \in kombit : u = v
        /\ \A r, s \in Request : LoggingIn(r) /\ LoggingIn(s) => r = s
        /\ \A r \in Request : LoggingIn(r) => kombit = {}

MemberTyped ==
    /\ M!TypeOK /\ req \in [Request -> M!Req]
    /\ kombit \subseteq M!Users /\ slipped \subseteq M!Users \X M!Orgs

MembershipInv ==
    /\ MemberTyped /\ Shapes /\ Claimed /\ Agreed /\ ListsSound
    /\ RowsPlaced /\ SavedPlaced /\ OneGlobal /\ GlobalThere /\ OneKombit
-----------------------------------------------------------------------------
(* The rows of the five tables, and what the constants say of them.        *)
LEMMA MemberConstants ==
    /\ M!Users \cap M!Keys = {} /\ M!Users \cap M!Apps = {} /\ M!Users \cap M!Orgs = {}
    /\ M!Users \cap M!PermId = {} /\ M!Keys \cap M!Apps = {} /\ M!Keys \cap M!Orgs = {}
    /\ M!Keys \cap M!PermId = {} /\ M!Apps \cap M!Orgs = {} /\ M!Apps \cap M!PermId = {}
    /\ M!Orgs \cap M!PermId = {}
    /\ M!Id = M!Users \cup M!Keys \cup M!Apps \cup M!Orgs \cup M!PermId /\ None \notin M!Id
    /\ M!Holders = M!Users \cup M!Keys
    /\ User \subseteq M!Users /\ ApiKey \subseteq M!Keys /\ App \subseteq M!Apps /\ Org \subseteq M!Orgs
    /\ Asked \subseteq User \X Org /\ OldUser \in User /\ OldOrg \in Org
    /\ MaxFaults \in Nat
<1> DEFINE Ts == M!Tables
<1>1. \A i, j \in 1..5 : i # j => Ts[i] \cap Ts[j] = {}
  BY AdministrationAssumption DEF M!MembershipAssumption
<1>2. Ts[1] = M!Users /\ Ts[2] = M!Keys /\ Ts[3] = M!Apps /\ Ts[4] = M!Orgs /\ Ts[5] = M!PermId
  BY DEF M!Tables
<1>3. /\ M!Users \cap M!Keys = {} /\ M!Users \cap M!Apps = {} /\ M!Users \cap M!Orgs = {}
      /\ M!Users \cap M!PermId = {} /\ M!Keys \cap M!Apps = {} /\ M!Keys \cap M!Orgs = {}
      /\ M!Keys \cap M!PermId = {} /\ M!Apps \cap M!Orgs = {} /\ M!Apps \cap M!PermId = {}
      /\ M!Orgs \cap M!PermId = {}
  <2> HIDE DEF Ts
  <2>1. 1 \in 1..5 /\ 2 \in 1..5 /\ 3 \in 1..5 /\ 4 \in 1..5 /\ 5 \in 1..5
    OBVIOUS
  <2> QED  BY <1>1, <1>2, <2>1
<1>4. M!Id = M!Users \cup M!Keys \cup M!Apps \cup M!Orgs \cup M!PermId /\ M!Holders = M!Users \cup M!Keys
  BY DEF M!Id, M!Holders
<1>5. User \subseteq M!Users /\ ApiKey \subseteq M!Keys /\ App \subseteq M!Apps /\ Org \subseteq M!Orgs
  BY DEF M!Users, M!Keys, M!Apps, M!Orgs
<1>6. None \notin M!Id /\ Asked \subseteq User \X Org /\ OldUser \in User /\ OldOrg \in Org /\ MaxFaults \in Nat
  BY AdministrationAssumption DEF M!MembershipAssumption
<1> QED  BY <1>3, <1>4, <1>5, <1>6

(* Ids that are pairs: what a request creates, and permissions.            *)
LEMMA MadeIds ==
    /\ \A r \in Request : /\ <<r, "user">> \in M!Users /\ <<r, "key">> \in M!Keys
                          /\ <<r, "app">> \in M!Apps /\ <<r, "org">> \in M!Orgs
                          /\ <<r, "global">> \in M!Global
                          /\ \A k \in M!Kind \ {"global"} : <<r, k>> \in M!PermId \ M!Global
    /\ \A o \in M!Orgs : M!Defaults(o) \subseteq M!PermId \ M!Global
    /\ M!Global \subseteq M!PermId /\ <<None, "global">> \in M!Global
    /\ \A p \in M!PermId : p[2] = "auto" => p \notin M!Global
<1>1. \A p \in M!Global : p[2] = "global"
  BY DEF M!Global, M!OldGlobal
<1>2. \A r \in Request, k \in M!Kind : <<r, k>> \in M!PermId
  BY DEF M!PermId
<1>3. \A o \in M!Orgs : M!Defaults(o) \subseteq M!PermId /\ \A p \in M!Defaults(o) : p[2] # "global"
  BY DEF M!PermId, M!Defaults
<1>4. M!Global \subseteq M!PermId
  BY DEF M!Global, M!PermId, M!Kind
<1>5. \A r \in Request : /\ <<r, "user">> \in M!Users /\ <<r, "key">> \in M!Keys
                         /\ <<r, "app">> \in M!Apps /\ <<r, "org">> \in M!Orgs /\ <<r, "global">> \in M!Global
  BY DEF M!Users, M!Keys, M!Apps, M!Orgs, M!Global
<1>6. \A r \in Request : \A k \in M!Kind \ {"global"} : <<r, k>>[2] # "global"
  OBVIOUS
<1>7. <<None, "global">> \in M!Global
  BY DEF M!Global, M!OldGlobal
<1> QED  BY <1>1, <1>2, <1>3, <1>4, <1>5, <1>6, <1>7

(* A stage is of the kinds that come to it.                                *)
LEMMA KindAt ==
    ASSUME NEW q \in M!Req, NEW r, Shaped(q, r), q.stage \notin {"new", "done", "failed"}
    PROVE  /\ q.stage \in {"global", "addGlobal"} => q.kind \in {"createAdmin", "promote", "demote"}
           /\ q.stage = "read" => q.kind = "accept"
           /\ q.stage = "findOrg" => q.kind \in {"askFirst", "ask"}
           /\ q.stage = "saveOrg" => q.kind \in {"askFirst", "ask", "reject"}
           /\ q.stage = "defaults" => q.kind = "createOrg"
           /\ q.stage \in {"auto", "share"} => q.kind = "createApp"
BY DEF Shaped, NewUserShaped, UserShaped, PermissionShaped, ApplicationShaped, M!Req

(* What a save takes and gives it writes, but for a new organization's     *)
(* permissions, which come with the second save.                           *)
LEMMA SaveScope ==
    ASSUME NEW q \in M!Req, NEW r, Shaped(q, r), q.stage = "save"
    PROVE  /\ M!Taken(q) \cap (M!Id \X M!Id) \subseteq M!Scope(q)
           /\ q.kind # "createOrg" => M!Given(q) \subseteq M!Scope(q) \cup q.list
           /\ q.kind = "createOrg" => M!Scope(q) = {} /\ q.list = {} /\ M!Given(q) = M!Defaults(q.row) \X {q.row}
<1>1. CASE q.kind \in {"createUser", "login", "createAdmin", "promote", "demote"}
  <2>1. q.give \subseteq M!PermId
    BY <1>1, MadeIds DEF Shaped, NewUserShaped
  <2> QED  BY <1>1, <2>1 DEF M!Taken, M!Given, M!Scope, Shaped, NewUserShaped
<1>2. CASE q.kind = "accept"
  BY <1>2, MemberConstants DEF M!Taken, M!Given, M!Scope, Shaped, UserShaped
<1>3. CASE q.kind = "askFirst"
  BY <1>3 DEF M!Taken, M!Given, Shaped, UserShaped
<1>4. q.kind \notin {"ask", "reject"}
  BY DEF Shaped, UserShaped
<1>5. CASE q.kind = "createPermission"
  BY <1>5 DEF M!Taken, M!Given, Shaped, PermissionShaped
<1>6. CASE q.kind \in {"updatePermission", "updateWithoutUsers"}
  <2>1. q.give \subseteq M!Users \cup M!Apps /\ M!Listed(q.row) \subseteq M!Apps
    BY <1>6 DEF Shaped, PermissionShaped, M!Listed
  <2> QED  BY <1>6, <2>1 DEF M!Taken, M!Given, M!Scope
<1>7. CASE q.kind \in {"createOrg", "updateOrg"}
  BY <1>7 DEF M!Taken, M!Given, M!Scope, Shaped, PermissionShaped
<1>8. CASE q.kind \in {"createApp", "updateApp", "createKey", "updateKey"}
  BY <1>8 DEF M!Taken, M!Given, M!Scope, Shaped, ApplicationShaped
<1> QED  BY <1>1, <1>2, <1>3, <1>4, <1>5, <1>6, <1>7, <1>8 DEF Shaped, M!Req

(* Of what a request promises and has still to write, all is among what it *)
(* may write.                                                              *)
LEMMA WritesAll ==
    ASSUME NEW q \in M!Req, NEW r, Shaped(q, r), q.stage \notin {"new", "done", "failed"}
    PROVE  /\ M!Scope(q) \cup q.list \subseteq M!Writes(q) /\ Unwritten(q) \subseteq M!Writes(q)
           /\ q.stage = "saveOrg" => M!Users \X {q.org} \subseteq M!Writes(q)
           /\ q.stage = "share" => M!Apps \X q.todo \cup q.todo \X {q.org} \subseteq M!Writes(q)
           /\ q.stage = "save" => (M!Taken(q) \cap (M!Id \X M!Id)) \cup M!Given(q) \subseteq M!Writes(q)
<1>1. M!Scope(q) \cup q.list \subseteq M!Writes(q)
  BY DEF M!Writes
<1>2. ASSUME q.stage = "share" PROVE M!Apps \X q.todo \cup q.todo \X {q.org} \subseteq M!Writes(q)
  <2>1. q.kind = "createApp"
    BY <1>2, KindAt
  <2> QED  BY <1>2, <2>1 DEF M!Writes
<1>3. ASSUME q.stage = "defaults" PROVE M!Defaults(q.row) \X {q.row} \subseteq M!Writes(q)
  <2>1. q.kind = "createOrg"
    BY <1>3, KindAt
  <2> QED  BY <2>1 DEF M!Writes
<1>4. ASSUME q.stage = "saveOrg" PROVE M!Users \X {q.org} \subseteq M!Writes(q)
  <2>1. q.kind \in {"askFirst", "ask", "reject"}
    BY <1>4, KindAt
  <2>2. M!Users \X q.todo \subseteq M!Writes(q)
    BY <2>1 DEF M!Writes
  <2>3. q.org \in q.todo
    BY <1>4, <2>1 DEF Shaped, UserShaped
  <2> QED  BY <2>2, <2>3
<1>5. Unwritten(q) \subseteq M!Writes(q)
  <2>1. ASSUME q.stage = "share" PROVE q.row \in M!Apps
    <3>1. q.kind = "createApp"
      BY <2>1, KindAt
    <3> QED  BY <3>1 DEF Shaped, ApplicationShaped
  <2> QED  BY <1>2, <1>3, <2>1 DEF Unwritten
<1>6. ASSUME q.stage = "save" PROVE (M!Taken(q) \cap (M!Id \X M!Id)) \cup M!Given(q) \subseteq M!Writes(q)
  <2>1. q.kind = "createOrg" => M!Defaults(q.row) \X {q.row} \subseteq M!Writes(q)
    BY DEF M!Writes
  <2> QED  BY <1>1, <1>6, <2>1, SaveScope
<1> QED  BY <1>1, <1>2, <1>4, <1>5, <1>6
-----------------------------------------------------------------------------
(* Request r goes on as q.                                                 *)
Turns(r, q) == q \in M!Req /\ req' = [req EXCEPT ![r] = q]

(* A step of request r leaves alone the links that r may not write, and    *)
(* forgets none of the exceptions.                                         *)
Apart(r) ==
    /\ \A x : ~(M!Busy(r) /\ x \in M!Writes(req[r])) =>
              (x \in links' <=> x \in links) /\ (x \in granted' <=> x \in granted)
    /\ contended \subseteq contended' /\ hurt \subseteq hurt' /\ slipped \subseteq slipped' /\ rows \subseteq rows'

(* Nothing comes to go with an organization.                               *)
NoneComes == \A p \in M!PermId, o \in M!Orgs : <<p, o>> \in links' => <<p, o>> \in links

(* What a request may write does not grow unless a permission comes.       *)
LEMMA WritesShrink ==
    ASSUME NEW c \in M!Req, NoneComes, c.kind = "createApp" => c.org \in M!Orgs
    PROVE  M!Writes(c)' \subseteq M!Writes(c)
BY DEF M!Writes, NoneComes, M!Of

LEMMA InOverlap ==
    \A r, s \in Request :
        r # s /\ M!Busy(r) /\ M!Busy(s) => M!Writes(req[r]) \cap M!Writes(req[s]) \subseteq M!Overlap
<1> SUFFICES ASSUME NEW r \in Request, NEW s \in Request, r # s, M!Busy(r), M!Busy(s),
                    NEW x \in M!Writes(req[r]) \cap M!Writes(req[s])
             PROVE  x \in M!Overlap
  OBVIOUS
<1> DEFINE working == {t \in Request : M!Busy(t)}
           Both(t) == UNION {M!Writes(req[t]) \cap M!Writes(req[u]) : u \in working \ {t}}
<1>1. x \in Both(r) /\ r \in working
  OBVIOUS
<1> QED  BY <1>1 DEF M!Overlap

(* What is saved is a row.                                                 *)
LEMMA RowTyped ==
    ASSUME NEW q \in M!Req, NEW r \in Request, Shaped(q, r)
    PROVE  q.row \in M!Id
<1>1. M!Users \subseteq M!Id /\ M!Keys \subseteq M!Id /\ M!Apps \subseteq M!Id /\ M!Orgs \subseteq M!Id /\ M!PermId \subseteq M!Id
  BY MemberConstants
<1>2. CASE q.kind \in {"createUser", "createAdmin", "login"}
  BY <1>1, <1>2, MadeIds DEF Shaped, NewUserShaped
<1>3. CASE q.kind \in {"promote", "demote", "accept", "askFirst", "ask", "reject"}
  BY <1>1, <1>3 DEF Shaped, UserShaped
<1>4. CASE q.kind \in {"createPermission", "updatePermission", "updateWithoutUsers", "createOrg", "updateOrg"}
  BY <1>1, <1>4 DEF Shaped, PermissionShaped
<1>5. CASE q.kind \in {"createApp", "updateApp", "createKey", "updateKey"}
  BY <1>1, <1>5 DEF Shaped, ApplicationShaped
<1> QED  BY <1>2, <1>3, <1>4, <1>5 DEF Shaped, M!Req

(* What may be written is links.                                           *)
LEMMA WritesTyped ==
    ASSUME NEW q \in M!Req, NEW r \in Request, Shaped(q, r), q.stage \notin {"new", "done", "failed"}
    PROVE  M!Writes(q) \subseteq M!Id \X M!Id
<1> DEFINE Ids == M!Id
<1>1. M!Users \subseteq Ids /\ M!Keys \subseteq Ids /\ M!Apps \subseteq Ids /\ M!Orgs \subseteq Ids /\ M!PermId \subseteq Ids
  BY MemberConstants
<1>2. q.list \subseteq Ids \X Ids /\ q.todo \subseteq Ids
  BY DEF M!Req
<1>3. M!Global \subseteq Ids /\ \A o \in M!Orgs : M!Defaults(o) \subseteq Ids
  BY <1>1, MadeIds
<1>4. q.row \in Ids
  BY RowTyped
<1>5. M!Scope(q) \subseteq Ids \X Ids
  BY <1>1, <1>4 DEF M!Scope
<1>6. q.kind = "createOrg" => q.row \in M!Orgs
  BY DEF Shaped, PermissionShaped
<1>7. q.kind = "createApp" => q.org \in Ids
  BY <1>1 DEF Shaped, ApplicationShaped
<1>8. M!Of(q.org) \subseteq Ids
  BY <1>1 DEF M!Of
<1> HIDE DEF Ids
<1> QED  BY <1>1, <1>2, <1>3, <1>4, <1>5, <1>6, <1>7, <1>8 DEF M!Writes, Ids

LEMMA OverlapTyped ==
    (\A s \in Request : req[s] \in M!Req) /\ Shapes => M!Overlap \subseteq M!Id \X M!Id
<1> SUFFICES ASSUME \A s \in Request : req[s] \in M!Req, Shapes,
                    NEW x \in M!Overlap
             PROVE  x \in M!Id \X M!Id
  OBVIOUS
<1>1. PICK r \in Request : M!Busy(r) /\ x \in M!Writes(req[r])
  BY DEF M!Overlap
<1> QED  BY <1>1, WritesTyped DEF Shapes, M!Busy

LEMMA ClaimTyped ==
    M!Claim /\ MemberTyped /\ Shapes' /\ req' \in [Request -> M!Req] => contended' \subseteq M!Id \X M!Id
<1>1. ((\A s \in Request : req[s] \in M!Req) /\ Shapes => M!Overlap \subseteq M!Id \X M!Id)'
  BY OverlapTyped, PTL
<1> QED  BY <1>1 DEF M!Claim, MemberTyped, M!TypeOK

LEMMA ClaimedByClaim == M!Claim => Claimed'
<1>1. (\A r, s \in Request :
          r # s /\ M!Busy(r) /\ M!Busy(s) => M!Writes(req[r]) \cap M!Writes(req[s]) \subseteq M!Overlap)'
  BY InOverlap, PTL
<1> QED  BY <1>1 DEF M!Claim, Claimed

LEMMA ClaimedStays ==
    ASSUME MemberTyped, Shapes, Claimed, NEW r \in Request, NEW q, Turns(r, q), contended \subseteq contended', NoneComes,
           M!Busy(r)' => M!Busy(r) /\ M!Writes(q)' \subseteq M!Writes(req[r])
    PROVE  Claimed'
<1>1. ASSUME NEW s \in Request, M!Busy(s)' PROVE M!Busy(s) /\ M!Writes(req[s])' \subseteq M!Writes(req[s])
  <2>1. CASE s = r
    <3>1. req'[r] = q
      BY DEF MemberTyped, Turns
    <3> QED  BY <1>1, <2>1, <3>1 DEF M!Writes
  <2>2. CASE s # r
    <3>1. PICK c : c = req[s]
      OBVIOUS
    <3>2. req'[s] = c /\ c \in M!Req
      BY <2>2, <3>1 DEF MemberTyped, Turns
    <3>3. M!Busy(s)
      BY <1>1, <3>1, <3>2 DEF M!Busy
    <3>4. c.kind = "createApp" => c.org \in M!Orgs
      BY <3>1, <3>3 DEF Shapes, Shaped, ApplicationShaped
    <3>5. M!Writes(c)' \subseteq M!Writes(c)
      BY <3>2, <3>4, WritesShrink
    <3> QED  BY <3>1, <3>2, <3>3, <3>5 DEF M!Writes
  <2> QED  BY <2>1, <2>2
<1> QED  BY <1>1 DEF Claimed
-----------------------------------------------------------------------------
(* A list that says what was promised goes on saying so of the links that  *)
(* nobody else may write.                                                  *)
LEMMA SoundStays ==
    ASSUME NEW c \in M!Req, NEW s, Shaped(c, s), c.stage \notin {"new", "done", "failed"}, Sound(c),
           Excused \subseteq Excused', \A x \in c.list \ Excused' : x[1] \in rows => x[1] \in rows',
           \A x \in M!Writes(c) \ Excused' : x \in granted' <=> x \in granted
    PROVE  Sound(c)'
<1>1. ASSUME c.stage = "save" PROVE SameOn(M!Scope(c) \cup c.list, c.list, M!Promised(c))'
  <2>1. SameOn(M!Scope(c) \cup c.list, c.list, M!Promised(c)) /\ M!Scope(c) \cup c.list \subseteq M!Writes(c)
    BY <1>1, WritesAll DEF Sound
  <2> QED  BY <2>1 DEF SameOn, M!Promised
<1>2. ASSUME c.stage \in {"global", "addGlobal"} PROVE SameOn(M!Scope(c), c.list, granted)'
  <2>1. SameOn(M!Scope(c), c.list, granted) /\ M!Scope(c) \subseteq M!Writes(c)
    BY <1>2, WritesAll DEF Sound
  <2> QED  BY <2>1 DEF SameOn
<1>3. ASSUME c.stage = "saveOrg"
      PROVE  SameOn(M!Users \X {c.org}, c.list,
                    IF c.kind = "reject" THEN granted \ {<<c.row, c.org>>} ELSE granted \cup {<<c.row, c.org>>})'
  <2>1. /\ SameOn(M!Users \X {c.org}, c.list,
                  IF c.kind = "reject" THEN granted \ {<<c.row, c.org>>} ELSE granted \cup {<<c.row, c.org>>})
        /\ M!Users \X {c.org} \subseteq M!Writes(c)
    BY <1>3, WritesAll DEF Sound
  <2> QED  BY <2>1 DEF SameOn
<1>4. ASSUME c.stage = "share" PROVE SameOn(M!Apps \X c.todo, c.list, granted)'
  <2>1. SameOn(M!Apps \X c.todo, c.list, granted) /\ M!Apps \X c.todo \subseteq M!Writes(c)
    BY <1>4, WritesAll DEF Sound
  <2> QED  BY <2>1 DEF SameOn
<1>5. ASSUME c.stage = "defaults" PROVE (M!Defaults(c.row) \X {c.row} \subseteq granted \cup Excused)'
  <2>1. M!Defaults(c.row) \X {c.row} \subseteq granted \cup Excused /\ M!Defaults(c.row) \X {c.row} \subseteq M!Writes(c)
    BY <1>5, WritesAll DEF Sound, Unwritten
  <2> QED  BY <2>1
<1>6. ASSUME c.kind = "updateOrg" PROVE (\A x \in c.list \ Excused : x[1] \in rows)'
  BY <1>6 DEF Sound
<1> QED  BY <1>1, <1>2, <1>3, <1>4, <1>5, <1>6 DEF Sound

(* What a step of request r leaves of the other requests: all that is said *)
(* of them.                                                                *)
LEMMA OthersStay ==
    ASSUME MembershipInv, NEW r \in Request, NEW q, Turns(r, q), Apart(r),
           NEW s \in Request, s # r, M!Busy(s)'
    PROVE  Shaped(req[s], s)' /\ Sound(req[s])' /\ ToBePlaced(req[s])'
<1>1. PICK c : c = req[s]
  OBVIOUS
<1>2. req'[s] = c /\ c \in M!Req
  BY <1>1 DEF MembershipInv, MemberTyped, Turns
<1>3. M!Busy(s) /\ c.stage \notin {"new", "done", "failed"}
  BY <1>1, <1>2 DEF M!Busy
<1>4. Shaped(c, s) /\ Sound(c) /\ ToBePlaced(c)
  BY <1>1, <1>3 DEF MembershipInv, Shapes, ListsSound, SavedPlaced
<1>5. ASSUME NEW x \in M!Writes(c), x \notin contended' PROVE (x \in links' <=> x \in links) /\ (x \in granted' <=> x \in granted)
  BY <1>1, <1>3, <1>5 DEF MembershipInv, Claimed, Apart
<1>6. Excused \subseteq Excused' /\ rows \subseteq rows'
  BY DEF Apart, Excused
<1>7. \A x \in M!Writes(c) \ Excused' : x \in granted' <=> x \in granted
  BY <1>5 DEF Excused
<1>8. Sound(c)'
  BY <1>2, <1>3, <1>4, <1>6, <1>7, SoundStays
<1>9. ToBePlaced(c)'
  <2>1. ASSUME c.kind \in {"updatePermission", "updateWithoutUsers"}, c.row \notin M!Global PROVE Placed(c.row, c.list)'
    BY <1>4, <2>1 DEF ToBePlaced, Placed, Apart
  <2>2. ASSUME c.stage = "share", NEW p \in c.todo PROVE (<<p, c.org>> \in links \cup contended \cup hurt)'
    <3>1. <<p, c.org>> \in M!Writes(c)
      BY <1>2, <1>3, <1>4, <2>2, WritesAll
    <3>2. <<p, c.org>> \in links \cup contended \cup hurt
      BY <1>4, <2>2 DEF ToBePlaced
    <3> QED  BY <1>5, <3>1, <3>2 DEF Apart
  <2> QED  BY <2>1, <2>2 DEF ToBePlaced
<1>10. Shaped(req[s], s)'
  BY <1>2, <1>4
<1>11. Sound(req[s])'
  BY <1>2, <1>8 DEF Sound, SameOn, M!Promised
<1>12. ToBePlaced(req[s])'
  BY <1>2, <1>9 DEF ToBePlaced, Placed
<1> QED  BY <1>10, <1>11, <1>12

(* A link that request r may write, and nobody else, is as promised, or r  *)
(* has still to write it.                                                  *)
LEMMA AgreedOf ==
    ASSUME MembershipInv, NEW r \in Request, M!Busy(r), NEW x \in M!Writes(req[r]), x \notin Excused
    PROVE  (x \in links <=> x \in granted) \/ x \in Unwritten(req[r])
<1>1. ASSUME NEW s \in Request, M!Busy(s), x \in Unwritten(req[s]) PROVE s = r
  <2>1. x \in M!Writes(req[s])
    BY <1>1, WritesAll DEF MembershipInv, MemberTyped, Shapes, M!Busy
  <2> QED  BY <1>1, <2>1 DEF MembershipInv, Claimed, Excused
<1> QED  BY <1>1 DEF MembershipInv, Agreed

LEMMA AgreedStays ==
    ASSUME MembershipInv, NEW r \in Request, NEW q, Turns(r, q), Apart(r),
           M!Busy(r) => \A x \in M!Writes(req[r]) \ Excused' :
                            \/ x \in links' <=> x \in granted'
                            \/ q.stage \notin {"new", "done", "failed"} /\ x \in Unwritten(q)
    PROVE  Agreed'
<1> SUFFICES ASSUME NEW x, x \notin Excused', ~(x \in links' <=> x \in granted')
             PROVE  \E s \in Request : M!Busy(s)' /\ x \in Unwritten(req'[s])
  BY DEF Agreed
<1>1. req'[r] = q /\ \A s \in Request \ {r} : req'[s] = req[s]
  BY DEF MembershipInv, MemberTyped, Turns
<1>2. CASE M!Busy(r) /\ x \in M!Writes(req[r])
  BY <1>1, <1>2 DEF M!Busy
<1>3. CASE ~(M!Busy(r) /\ x \in M!Writes(req[r]))
  <2>1. (x \in links' <=> x \in links) /\ (x \in granted' <=> x \in granted)
    BY <1>3 DEF Apart
  <2>2. x \notin Excused /\ x \in links \cup granted
    BY <2>1 DEF Apart, Excused
  <2>3. PICK s \in Request : M!Busy(s) /\ x \in Unwritten(req[s])
    BY <2>1, <2>2 DEF MembershipInv, Agreed
  <2>4. x \in M!Writes(req[s])
    BY <2>3, WritesAll DEF MembershipInv, MemberTyped, Shapes, M!Busy
  <2>5. s # r
    BY <1>3, <2>3, <2>4
  <2> QED  BY <1>1, <2>3, <2>5 DEF M!Busy
<1> QED  BY <1>2, <1>3

(* What a step of request r keeps of all that is said of requests.         *)
LEMMA TurnKeeps ==
    ASSUME MembershipInv, NEW r \in Request, NEW q, Turns(r, q), Apart(r), Claimed',
           q.stage \notin {"new", "done", "failed"} => Shaped(q, r) /\ Sound(q)' /\ ToBePlaced(q)',
           M!Busy(r) => \A x \in M!Writes(req[r]) \ Excused' :
                            \/ x \in links' <=> x \in granted'
                            \/ q.stage \notin {"new", "done", "failed"} /\ x \in Unwritten(q)
    PROVE  Shapes' /\ Claimed' /\ Agreed' /\ ListsSound' /\ SavedPlaced'
<1>1. req'[r] = q
  BY DEF MembershipInv, MemberTyped, Turns
<1>2. Agreed'
  BY AgreedStays
<1>3. ASSUME NEW s \in Request, M!Busy(s)' PROVE Shaped(req[s], s)' /\ Sound(req[s])' /\ ToBePlaced(req[s])'
  <2>1. CASE s # r
    BY <1>3, <2>1, OthersStay
  <2>2. CASE s = r
    <3>1. Shaped(q, r) /\ Sound(q)' /\ ToBePlaced(q)'
      BY <1>1, <1>3, <2>2 DEF M!Busy
    <3>2. Shaped(req[s], s)'
      BY <1>1, <2>2, <3>1
    <3>3. Sound(req[s])'
      BY <1>1, <2>2, <3>1 DEF Sound, SameOn, M!Promised
    <3>4. ToBePlaced(req[s])'
      BY <1>1, <2>2, <3>1 DEF ToBePlaced, Placed
    <3> QED  BY <3>2, <3>3, <3>4
  <2> QED  BY <2>1, <2>2
<1> QED  BY <1>2, <1>3 DEF Shapes, ListsSound, SavedPlaced
-----------------------------------------------------------------------------
(* What is made once: a step that makes nothing of the kind, and is not of *)
(* a request that will, changes nothing of it.                             *)
LEMMA GlobalsStay ==
    ASSUME MembershipInv, NEW r \in Request, NEW q, Turns(r, q), raced \subseteq raced',
           rows' \cap M!Global = rows \cap M!Global, q.stage # "addGlobal",
           q.stage \notin {"new", "done", "failed"} /\ q.row \in M!Global => q.row \in rows
    PROVE  OneGlobal' /\ GlobalThere'
<1>1. req'[r] = q /\ \A s \in Request \ {r} : req'[s] = req[s]
  BY DEF MembershipInv, MemberTyped, Turns
<1>2. M!Global \cap rows' = M!Global \cap rows
  OBVIOUS
<1>3. OneGlobal'
  <2>1. \A s \in Request : req'[s].stage = "addGlobal" => req[s].stage = "addGlobal"
    BY <1>1
  <2> QED  BY <1>2, <2>1 DEF MembershipInv, OneGlobal, M!At
<1>4. GlobalThere'
  BY <1>1 DEF MembershipInv, GlobalThere, M!Busy
<1> QED  BY <1>3, <1>4

LEMMA OnesStay ==
    ASSUME MembershipInv, NEW r \in Request, NEW q, Turns(r, q), raced' = raced, kombit' = kombit,
           rows' \cap M!Global = rows \cap M!Global,
           q.stage # "addGlobal", q.kind = "login" => q.stage \in {"done", "failed"},
           q.stage \notin {"new", "done", "failed"} /\ q.row \in M!Global => q.row \in rows
    PROVE  OneGlobal' /\ GlobalThere' /\ OneKombit'
<1>1. req'[r] = q /\ \A s \in Request \ {r} : req'[s] = req[s]
  BY DEF MembershipInv, MemberTyped, Turns
<1>2. OneGlobal' /\ GlobalThere'
  BY GlobalsStay
<1>3. OneKombit'
  <2>1. \A s \in Request : LoggingIn(s)' => LoggingIn(s)
    BY <1>1 DEF LoggingIn, M!Busy
  <2> QED  BY <2>1 DEF MembershipInv, OneKombit
<1> QED  BY <1>2, <1>3

(* Rows keep something of their organization where links go by the leave   *)
(* of the history variables, or to another organization.                   *)
LEMMA PlacesStay ==
    ASSUME MembershipInv, contended \subseteq contended', hurt \subseteq hurt',
           \A x \in M!Apps \cup M!PermId, o \in M!Orgs :
               <<x, o>> \in links => Placed(x, links)',
           \A x \in rows' \ rows : x \in M!Apps \cup (M!PermId \ M!Global) => Placed(x, links)',
           \A p \in M!Global, o \in M!Orgs : <<p, o>> \notin links' \ links
    PROVE  RowsPlaced'
<1> SUFFICES ASSUME NEW x \in rows \cap (M!Apps \cup (M!PermId \ M!Global)) PROVE Placed(x, links)'
  BY DEF MembershipInv, RowsPlaced
<1>1. Placed(x, links)
  BY DEF MembershipInv, RowsPlaced
<1>2. CASE \E o \in M!Orgs : <<x, o>> \in links
  BY <1>2
<1>3. CASE ({x} \X M!Orgs) \cap (contended \cup hurt) # {}
  BY <1>3 DEF Placed
<1> QED  BY <1>1, <1>2, <1>3 DEF Placed

(* The record of a request that is answered. *)
LEMMA AnswerOf ==
    ASSUME MemberTyped, NEW r \in Request, NEW s \in {"done", "failed"}, M!Answer(r, s)
    PROVE  \E q : Turns(r, q) /\ q.stage = s /\ q.kind = req[r].kind
<1> DEFINE q == [M!NewReq(req[r].kind, s, None) EXCEPT !.org = None]
<1>1. req[r] \in M!Req
  BY DEF MemberTyped
<1>2. q \in M!Req /\ q.stage = s /\ q.kind = req[r].kind
  BY <1>1 DEF M!NewReq, M!Idle, M!Req
<1>3. req' = [req EXCEPT ![r] = q]
  BY DEF M!Answer
<1> HIDE DEF q
<1> QED  BY <1>2, <1>3 DEF Turns

(* What a request that ends has still to write is what it may have hurt.   *)
LEMMA HalfwayUnwritten ==
    ASSUME NEW q \in M!Req, NEW r, Shaped(q, r), q.stage \notin {"new", "done", "failed"}
    PROVE  Unwritten(q) \subseteq M!Halfway(q) /\ M!Halfway(q) \subseteq M!Id \X M!Id
<1>1. ASSUME q.stage = "share" PROVE q.row \in M!Apps /\ q.todo \subseteq M!PermId
  <2>1. q.kind = "createApp"
    BY <1>1, KindAt
  <2> QED  BY <1>1, <2>1 DEF Shaped, ApplicationShaped
<1>2. ASSUME q.stage \in {"auto", "share"} PROVE q.row \in M!Apps
  <2>1. q.kind = "createApp"
    BY <1>2, KindAt
  <2> QED  BY <2>1 DEF Shaped, ApplicationShaped
<1>3. ASSUME q.stage = "defaults" PROVE q.row \in M!Orgs
  <2>1. q.kind = "createOrg"
    BY <1>3, KindAt
  <2> QED  BY <2>1 DEF Shaped, PermissionShaped
<1>4. Unwritten(q) \subseteq M!Halfway(q)
  BY <1>1 DEF Unwritten, M!Halfway
<1>5. M!Halfway(q) \subseteq M!Id \X M!Id
  BY <1>2, <1>3, MemberConstants, MadeIds DEF M!Halfway
<1> QED  BY <1>4, <1>5

(* A request is answered with an error: Refuse, CallFails.                 *)
LEMMA AbortKeeps ==
    ASSUME MembershipInv, NEW r \in Request, M!Busy(r), M!Abort(r), faults' \in 0..MaxFaults
    PROVE  MembershipInv'
<1>1. PICK q : Turns(r, q) /\ q.stage = "failed"
  BY AnswerOf DEF MembershipInv, M!Abort
<1>2. /\ UNCHANGED <<rows, links, named, kombit, granted, contended, slipped, raced>>
      /\ hurt' = hurt \cup M!Halfway(req[r])
  BY DEF M!Abort, M!stores
<1>3. req[r] \in M!Req /\ Shaped(req[r], r) /\ req[r].stage \notin {"new", "done", "failed"}
  BY DEF MembershipInv, MemberTyped, Shapes, M!Busy
<1>4. Apart(r) /\ NoneComes
  BY <1>2 DEF Apart, NoneComes
<1>5. Claimed'
  <2>1. ~M!Busy(r)'
    BY <1>1 DEF M!Busy, Turns, MembershipInv, MemberTyped
  <2> QED  BY <1>1, <1>2, <1>4, <2>1, ClaimedStays DEF MembershipInv
<1>6. \A x \in M!Writes(req[r]) \ Excused' : x \in links' <=> x \in granted'
  <2> SUFFICES ASSUME NEW x \in M!Writes(req[r]) \ Excused' PROVE x \in links <=> x \in granted
    BY <1>2
  <2>1. x \notin Excused /\ x \notin M!Halfway(req[r])
    BY <1>2 DEF Excused
  <2> QED  BY <1>3, <2>1, AgreedOf, HalfwayUnwritten
<1>7. Shapes' /\ Claimed' /\ Agreed' /\ ListsSound' /\ SavedPlaced'
  BY <1>1, <1>4, <1>5, <1>6, TurnKeeps
<1>8. OneGlobal' /\ GlobalThere' /\ OneKombit'
  BY <1>1, <1>2, OnesStay
<1>9. RowsPlaced'
  BY <1>2, PlacesStay DEF Placed
<1>10. MemberTyped'
  BY <1>1, <1>2, <1>3, HalfwayUnwritten DEF MembershipInv, MemberTyped, M!TypeOK, Turns
<1> QED  BY <1>7, <1>8, <1>9, <1>10 DEF MembershipInv
(* The process dies: no request goes on, and whatever was half done may be *)
(* hurt.                                                                   *)
LEMMA CrashKeeps == MembershipInv /\ M!Crash => MembershipInv'
<1> SUFFICES ASSUME MembershipInv, M!Crash PROVE MembershipInv'
  OBVIOUS
<1>1. /\ UNCHANGED <<rows, links, named, kombit, granted, contended, slipped, raced>>
      /\ hurt' = hurt \cup UNION {M!Halfway(req[r]) : r \in Request}
      /\ req' = [r \in Request |-> IF M!Busy(r) THEN M!NewReq(req[r].kind, "failed", None) ELSE req[r]]
      /\ faults' = faults + 1 /\ faults < MaxFaults
  BY DEF M!Crash, M!stores, M!Fault
<1>2. \A r \in Request : M!NewReq(req[r].kind, "failed", None) \in M!Req
  BY DEF MembershipInv, MemberTyped, M!NewReq, M!Idle, M!Req
<1>3. \A r \in Request : ~M!Busy(r)'
  BY <1>1 DEF M!Busy, M!NewReq, M!Idle
<1>4. ASSUME NEW r \in Request PROVE M!Halfway(req[r]) \subseteq M!Id \X M!Id
  <2>1. CASE M!Busy(r)
    BY <2>1, HalfwayUnwritten DEF MembershipInv, MemberTyped, Shapes, M!Busy
  <2>2. CASE ~M!Busy(r)
    BY <2>2 DEF M!Halfway, M!Busy
  <2> QED  BY <2>1, <2>2
<1>5. MemberTyped'
  <2>1. req' \in [Request -> M!Req]
    BY <1>1, <1>2 DEF MembershipInv, MemberTyped
  <2>2. faults' \in 0..MaxFaults
    BY <1>1, MemberConstants DEF MembershipInv, MemberTyped, M!TypeOK
  <2> QED  BY <1>1, <1>4, <2>1, <2>2 DEF MembershipInv, MemberTyped, M!TypeOK
<1>6. Agreed'
  <2> SUFFICES ASSUME NEW x \in (links \cup granted) \ Excused' PROVE x \in links <=> x \in granted
    BY <1>1 DEF Agreed
  <2>1. x \notin Excused /\ \A r \in Request : x \notin M!Halfway(req[r])
    BY <1>1 DEF Excused
  <2>2. \A r \in Request : M!Busy(r) => x \notin Unwritten(req[r])
    BY <2>1, HalfwayUnwritten DEF MembershipInv, MemberTyped, Shapes, M!Busy
  <2> QED  BY <2>1, <2>2 DEF MembershipInv, Agreed
<1>7. Shapes' /\ Claimed' /\ ListsSound' /\ SavedPlaced' /\ GlobalThere'
  BY <1>3 DEF Shapes, Claimed, ListsSound, SavedPlaced, GlobalThere
<1>8. RowsPlaced'
  BY <1>1, PlacesStay DEF Placed
<1>9. OneGlobal' /\ OneKombit'
  BY <1>1, <1>3 DEF MembershipInv, OneGlobal, OneKombit, LoggingIn, M!At, M!Busy, M!NewReq, M!Idle
<1> QED  BY <1>5, <1>6, <1>7, <1>8, <1>9 DEF MembershipInv

LEMMA MemberStutters ==
    ASSUME MembershipInv, UNCHANGED <<faults, membershipVars>>
    PROVE  MembershipInv'
<1> USE DEF membershipVars
<1>1. MemberTyped' /\ Shapes'
  BY DEF MembershipInv, MemberTyped, M!TypeOK, Shapes, M!Busy
<1>2. Claimed' /\ Agreed'
  BY DEF MembershipInv, Claimed, Agreed, M!Busy, M!Writes, M!Of, Excused
<1>3. ListsSound'
  BY DEF MembershipInv, ListsSound, Sound, SameOn, M!Busy, M!Promised, Excused
<1>4. RowsPlaced' /\ SavedPlaced' /\ OneGlobal' /\ GlobalThere' /\ OneKombit'
  BY DEF MembershipInv, RowsPlaced, SavedPlaced, ToBePlaced, Placed, OneGlobal, GlobalThere, OneKombit, LoggingIn,
         M!Busy, M!At
<1> QED  BY <1>1, <1>2, <1>3, <1>4 DEF MembershipInv
-----------------------------------------------------------------------------
(* A request begins.  What it has read says of a link that no other may    *)
(* write what was promised.                                                *)
BeginsRight(r, q) ==
    /\ q \in M!Req /\ Shaped(q, r) /\ q.stage \notin {"new", "done", "failed", "addGlobal"}
    /\ (\A x \in M!Writes(q) \ Excused' : x \in links <=> x \in granted) => Sound(q)'
    /\ ToBePlaced(q)'
    /\ q.row \in M!Global => q.row \in rows

LEMMA BeginTurns ==
    ASSUME MembershipInv, NEW r \in Request, NEW q, M!Begin(r, q), BeginsRight(r, q), raced' \subseteq {"global", "kombit"}
    PROVE  /\ Turns(r, q) /\ ~M!Busy(r)
           /\ MemberTyped' /\ Shapes' /\ Claimed' /\ Agreed' /\ ListsSound' /\ RowsPlaced' /\ SavedPlaced'
<1>1. /\ UNCHANGED <<rows, links, named, kombit, granted, hurt, slipped, faults>>
      /\ contended' = contended \cup M!Overlap'
      /\ req[r] = M!Idle /\ req' = [req EXCEPT ![r] = q]
  BY DEF M!Begin, M!stores, M!Claim
<1>2. Turns(r, q) /\ ~M!Busy(r)
  BY <1>1 DEF Turns, BeginsRight, M!Busy, M!Idle
<1>3. Claimed'
  BY ClaimedByClaim DEF M!Begin
<1>4. req'[r] = q /\ M!Busy(r)' /\ \A s \in Request \ {r} : req'[s] = req[s]
  BY <1>2 DEF MembershipInv, MemberTyped, Turns, M!Busy, BeginsRight
<1>5. ASSUME NEW x \in M!Writes(q), x \notin Excused' PROVE x \in links <=> x \in granted
  <2>1. ASSUME NEW s \in Request, M!Busy(s), x \in Unwritten(req[s]) PROVE FALSE
    <3>1. s # r
      BY <1>2, <2>1
    <3>2. x \in M!Writes(req[s])
      BY <2>1, WritesAll DEF MembershipInv, MemberTyped, Shapes, M!Busy
    <3>3. M!Writes(req[s])' = M!Writes(req[s]) /\ M!Writes(req[r])' = M!Writes(q)
      BY <1>1, <1>4, <3>1 DEF M!Writes, M!Of
    <3>4. M!Busy(s)'
      BY <1>4, <2>1, <3>1 DEF M!Busy
    <3> QED  BY <1>3, <1>4, <1>5, <3>1, <3>2, <3>3, <3>4 DEF Claimed, Excused
  <2>2. x \notin Excused
    BY <1>1, <1>5 DEF Excused
  <2> QED  BY <2>1, <2>2 DEF MembershipInv, Agreed
<1>6. Apart(r)
  BY <1>1 DEF Apart
<1>7. Shapes' /\ Claimed' /\ Agreed' /\ ListsSound' /\ SavedPlaced'
  BY <1>2, <1>3, <1>5, <1>6, TurnKeeps DEF BeginsRight
<1>8. RowsPlaced'
  BY <1>1, PlacesStay DEF Placed
<1>9. MemberTyped'
  <2>1. contended' \subseteq M!Id \X M!Id
    <3>1. req' \in [Request -> M!Req]
      BY <1>2 DEF MembershipInv, MemberTyped, Turns
    <3> QED  BY <1>7, <3>1, ClaimTyped DEF MembershipInv, M!Begin
  <2> QED  BY <1>1, <1>2, <2>1 DEF MembershipInv, MemberTyped, M!TypeOK, Turns
<1> QED  BY <1>2, <1>7, <1>8, <1>9
LEMMA BeginKeeps ==
    ASSUME MembershipInv, NEW r \in Request, NEW q, M!Begin(r, q), BeginsRight(r, q), q.kind # "login", raced' = raced
    PROVE  MembershipInv'
<1>1. raced' \subseteq {"global", "kombit"}
  BY DEF MembershipInv, MemberTyped, M!TypeOK
<1>2. Turns(r, q) /\ MemberTyped' /\ Shapes' /\ Claimed' /\ Agreed' /\ ListsSound' /\ RowsPlaced' /\ SavedPlaced'
  BY <1>1, BeginTurns
<1>3. kombit' = kombit /\ rows' = rows
  BY DEF M!Begin, M!stores
<1>4. OneGlobal' /\ GlobalThere' /\ OneKombit'
  BY <1>2, <1>3, OnesStay DEF BeginsRight
<1> QED  BY <1>2, <1>4 DEF MembershipInv

(* The fields of a new request. *)
LEMMA NewFields ==
    ASSUME NEW k, NEW s, NEW row
    PROVE  M!NewReq(k, s, row) = [kind |-> k, stage |-> s, row |-> row, org |-> None, give |-> {}, list |-> {}, todo |-> {}]
<1>1. M!NewReq(k, s, row) \in [kind : {k}, stage : {s}, row : {row}, org : {None}, give : {{}}, list : {{}}, todo : {{}}]
  BY DEF M!NewReq, M!Idle
<1> QED  BY <1>1

(* createUser, as a global admin or not. *)
LEMMA UserCreateBegins ==
    ASSUME MembershipInv, NEW r \in Request, M!BeginCreateUser(r)
    PROVE  MembershipInv'
<1>1. PICK k, s : /\ <<k, s>> \in {<<"createUser", "save">>, <<"createAdmin", "global">>}
                  /\ M!Begin(r, M!NewReq(k, s, <<r, "user">>)) /\ raced' = raced
  BY DEF M!BeginCreateUser
<1> DEFINE q == M!NewReq(k, s, <<r, "user">>)
<1>2. /\ q = [kind |-> k, stage |-> s, row |-> <<r, "user">>, org |-> None, give |-> {}, list |-> {}, todo |-> {}]
      /\ k \in {"createUser", "createAdmin"} /\ s \in {"save", "global"} /\ (k = "createUser" => s = "save")
      /\ (k = "createAdmin" => s = "global")
  BY <1>1, NewFields
<1> HIDE DEF q
<1>3. <<r, "user">> \in M!Users /\ <<r, "user">> \in M!Id /\ <<r, "user">> \notin M!Global
  BY MadeIds, MemberConstants
<1>4. q \in M!Req /\ Shaped(q, r)
  BY <1>2, <1>3, MadeIds, MemberConstants DEF M!Req, Shaped, NewUserShaped, UserShaped, PermissionShaped, ApplicationShaped
<1>5. Sound(q)'
  BY <1>2 DEF Sound, SameOn, M!Scope
<1>6. BeginsRight(r, q)
  BY <1>2, <1>3, <1>4, <1>5 DEF BeginsRight, ToBePlaced
<1> QED  BY <1>1, <1>2, <1>6, BeginKeeps DEF q

(* updateUser: the list is that of the user's permissions.                 *)
LEMMA UserUpdateBegins ==
    ASSUME MembershipInv, NEW r \in Request, NEW u \in M!Users, M!BeginUpdateUser(r, u)
    PROVE  MembershipInv'
<1> DEFINE Q(k) == [M!NewReq(k, "global", u) EXCEPT !.list = M!LinksOf(u, M!PermId)]
<1>1. PICK k \in {"promote", "demote"} : M!Begin(r, Q(k)) /\ raced' = raced
  BY DEF M!BeginUpdateUser
<1>2. PICK q : q = Q(k)
  OBVIOUS
<1>3. q = [kind |-> k, stage |-> "global", row |-> u, org |-> None, give |-> {}, list |-> M!LinksOf(u, M!PermId), todo |-> {}]
  BY <1>2, NewFields
<1>4. u \in M!Id /\ u \notin M!Global /\ M!LinksOf(u, M!PermId) \subseteq {u} \X M!PermId /\ M!PermId \subseteq M!Id
  BY MemberConstants, MadeIds DEF M!LinksOf
<1>5. q \in M!Req
  BY <1>3, <1>4 DEF M!Req
<1>6. Shaped(q, r)
  BY <1>3, <1>4 DEF Shaped, NewUserShaped, UserShaped, PermissionShaped, ApplicationShaped
<1>7. ASSUME \A x \in M!Writes(q) \ Excused' : x \in links <=> x \in granted PROVE Sound(q)'
  <2>1. M!Scope(q) = {u} \X M!PermId /\ M!Scope(q) \subseteq M!Writes(q)
    BY <1>3 DEF M!Scope, M!Writes
  <2>2. \A x \in {u} \X M!PermId : x \in q.list <=> x \in links
    BY <1>3 DEF M!LinksOf
  <2>3. granted' = granted
    BY <1>1 DEF M!Begin
  <2> QED  BY <1>3, <1>7, <2>1, <2>2, <2>3 DEF Sound, SameOn
<1>8. BeginsRight(r, q)
  BY <1>3, <1>4, <1>5, <1>6, <1>7 DEF BeginsRight, ToBePlaced
<1> QED  BY <1>1, <1>2, <1>3, <1>8, BeginKeeps
(* A Kombit login whose user was not found. *)
LEMMA LoginBegins ==
    ASSUME MembershipInv, NEW r \in Request, M!BeginLogin(r)
    PROVE  MembershipInv'
<1> DEFINE q == M!NewReq("login", "save", <<r, "user">>)
<1>1. q = [kind |-> "login", stage |-> "save", row |-> <<r, "user">>, org |-> None, give |-> {}, list |-> {}, todo |-> {}]
  BY NewFields
<1>2. /\ M!FindOneByNameId(rows) = {} /\ M!Begin(r, q)
      /\ raced' = IF \E p \in Request : req[p].kind = "login" /\ M!Busy(p) THEN raced \cup {"kombit"} ELSE raced
  BY DEF M!BeginLogin
<1> HIDE DEF q
<1>3. <<r, "user">> \in M!Users /\ <<r, "user">> \in M!Id /\ <<r, "user">> \notin M!Global
  BY MadeIds, MemberConstants
<1>4. q \in M!Req /\ Shaped(q, r)
  BY <1>1, <1>3 DEF M!Req, Shaped, NewUserShaped, UserShaped, PermissionShaped, ApplicationShaped
<1>5. Sound(q)'
  BY <1>1 DEF Sound, SameOn, M!Scope
<1>6. BeginsRight(r, q)
  BY <1>1, <1>3, <1>4, <1>5 DEF BeginsRight, ToBePlaced
<1>7. /\ Turns(r, q)
      /\ MemberTyped' /\ Shapes' /\ Claimed' /\ Agreed' /\ ListsSound' /\ RowsPlaced' /\ SavedPlaced'
  <2>1. raced' \subseteq {"global", "kombit"}
    BY <1>2 DEF MembershipInv, MemberTyped, M!TypeOK
  <2> QED  BY <1>2, <1>6, <2>1, BeginTurns
<1>8. rows' = rows /\ kombit' = kombit
  BY <1>2 DEF M!Begin, M!stores
<1>9. req'[r] = q /\ \A s \in Request \ {r} : req'[s] = req[s]
  BY <1>7 DEF MembershipInv, MemberTyped, Turns
<1>10. OneGlobal'
  <2>1. \A s \in Request : req'[s].stage = "addGlobal" => req[s].stage = "addGlobal"
    BY <1>1, <1>9
  <2>2. "global" \in raced => "global" \in raced'
    BY <1>2
  <2> QED  BY <1>8, <2>1, <2>2 DEF MembershipInv, OneGlobal, M!At
<1>11. GlobalThere'
  BY <1>1, <1>3, <1>8, <1>9 DEF MembershipInv, GlobalThere, M!Busy
<1>12. OneKombit'
  <2> SUFFICES ASSUME "kombit" \notin raced' PROVE OneKombit'
    BY DEF OneKombit
  <2>1. \A p \in Request : ~LoggingIn(p)
    BY <1>2 DEF LoggingIn
  <2>2. \A s \in Request : LoggingIn(s)' => s = r
    BY <1>9, <2>1 DEF LoggingIn, M!Busy
  <2>3. kombit = {}
    BY <1>2 DEF M!FindOneByNameId, MembershipInv, MemberTyped, M!TypeOK
  <2> QED  BY <1>8, <2>2, <2>3 DEF OneKombit
<1> QED  BY <1>7, <1>10, <1>11, <1>12 DEF MembershipInv

(* newKombitUser: the list is that of the user's permissions and requests. *)
LEMMA AskFirstBegins ==
    ASSUME MembershipInv, NEW r \in Request, NEW u \in M!Users, NEW os \in SUBSET Org, M!BeginAskFirst(r, u, os)
    PROVE  MembershipInv'
<1> DEFINE Q == [M!NewReq("askFirst", "save", u) EXCEPT !.list = M!LinksOf(u, M!PermId \cup M!Orgs), !.todo = os]
<1>1. M!Begin(r, Q) /\ raced' = raced
  BY DEF M!BeginAskFirst
<1>2. PICK q : q = Q
  OBVIOUS
<1>3. q = [kind |-> "askFirst", stage |-> "save", row |-> u, org |-> None, give |-> {},
           list |-> M!LinksOf(u, M!PermId \cup M!Orgs), todo |-> os]
  BY <1>2, NewFields
<1>4. /\ u \in M!Id /\ u \notin M!Global /\ M!PermId \cup M!Orgs \subseteq M!Id /\ os \subseteq M!Orgs
      /\ M!LinksOf(u, M!PermId \cup M!Orgs) \subseteq {u} \X (M!PermId \cup M!Orgs)
  BY MemberConstants, MadeIds DEF M!LinksOf
<1>5. q \in M!Req
  BY <1>3, <1>4 DEF M!Req
<1>6. Shaped(q, r)
  BY <1>3, <1>4 DEF Shaped, NewUserShaped, UserShaped, PermissionShaped, ApplicationShaped
<1>7. ASSUME \A x \in M!Writes(q) \ Excused' : x \in links <=> x \in granted PROVE Sound(q)'
  <2>1. M!Scope(q) = {u} \X (M!PermId \cup M!Orgs) /\ M!Scope(q) \subseteq M!Writes(q)
    BY <1>3 DEF M!Scope, M!Writes
  <2>2. \A x \in {u} \X (M!PermId \cup M!Orgs) : x \in q.list <=> x \in links
    BY <1>3 DEF M!LinksOf
  <2>3. granted' = granted /\ M!Promised(q) = granted
    BY <1>1, <1>3 DEF M!Begin, M!Promised, M!Taken, M!Given
  <2>4. M!Promised(q)' = granted
    BY <1>3, <2>3 DEF M!Promised, M!Taken, M!Given
  <2> QED  BY <1>3, <1>4, <1>7, <2>1, <2>2, <2>4 DEF Sound, SameOn
<1>8. BeginsRight(r, q)
  BY <1>3, <1>4, <1>5, <1>6, <1>7 DEF BeginsRight, ToBePlaced
<1> QED  BY <1>1, <1>2, <1>3, <1>8, BeginKeeps

(* updateUserOrgs: nothing is read yet. *)
LEMMA AskBegins ==
    ASSUME MembershipInv, NEW r \in Request, NEW u \in M!Users, NEW os \in SUBSET Org, M!BeginAsk(r, u, os)
    PROVE  MembershipInv'
<1> DEFINE Q == [M!NewReq("ask", "findOrg", u) EXCEPT !.todo = os]
<1>1. M!Begin(r, Q) /\ raced' = raced
  BY DEF M!BeginAsk
<1>2. PICK q : q = Q
  OBVIOUS
<1>3. q = [kind |-> "ask", stage |-> "findOrg", row |-> u, org |-> None, give |-> {}, list |-> {}, todo |-> os]
  BY <1>2, NewFields
<1>4. u \in M!Id /\ u \notin M!Global /\ os \subseteq M!Orgs /\ os \subseteq M!Id
  BY MemberConstants, MadeIds
<1>5. q \in M!Req /\ Shaped(q, r)
  BY <1>3, <1>4 DEF M!Req, Shaped, NewUserShaped, UserShaped, PermissionShaped, ApplicationShaped
<1>6. Sound(q)'
  BY <1>3 DEF Sound
<1>7. BeginsRight(r, q)
  BY <1>3, <1>4, <1>5, <1>6 DEF BeginsRight, ToBePlaced
<1> QED  BY <1>1, <1>2, <1>3, <1>7, BeginKeeps

(* rejectAwaitingUser: the list is that of the organization's requests,    *)
(* without the user's.                                                     *)
LEMMA RejectBegins ==
    ASSUME MembershipInv, NEW r \in Request, NEW u \in M!Users, NEW o \in M!Orgs, M!BeginReject(r, u, o)
    PROVE  MembershipInv'
<1> DEFINE Q == [M!NewReq("reject", "saveOrg", u)
                    EXCEPT !.org = o, !.todo = {o}, !.list = M!LinksTo(o, M!Users) \ {<<u, o>>}]
<1>1. M!Begin(r, Q) /\ raced' = raced
  BY DEF M!BeginReject
<1>2. PICK q : q = Q
  OBVIOUS
<1>3. q = [kind |-> "reject", stage |-> "saveOrg", row |-> u, org |-> o, give |-> {},
           list |-> M!LinksTo(o, M!Users) \ {<<u, o>>}, todo |-> {o}]
  BY <1>2, NewFields
<1>4. u \in M!Id /\ u \notin M!Global /\ o \in M!Id /\ M!LinksTo(o, M!Users) \subseteq M!Users \X {o} /\ M!Users \subseteq M!Id
  BY MemberConstants, MadeIds DEF M!LinksTo
<1>5. q \in M!Req
  BY <1>3, <1>4 DEF M!Req
<1>6. Shaped(q, r)
  BY <1>3, <1>4 DEF Shaped, NewUserShaped, UserShaped, PermissionShaped, ApplicationShaped
<1>7. ASSUME \A x \in M!Writes(q) \ Excused' : x \in links <=> x \in granted PROVE Sound(q)'
  <2>1. M!Users \X {o} \subseteq M!Writes(q)
    BY <1>3 DEF M!Writes
  <2>2. \A x \in M!Users \X {o} : x \in M!LinksTo(o, M!Users) <=> x \in links
    BY DEF M!LinksTo
  <2>3. granted' = granted
    BY <1>1 DEF M!Begin
  <2>4. SameOn(M!Users \X {o}, q.list, granted \ {<<u, o>>})'
    BY <1>3, <1>7, <2>1, <2>2, <2>3 DEF SameOn
  <2> QED  BY <1>3, <2>4 DEF Sound
<1>8. BeginsRight(r, q)
  BY <1>3, <1>4, <1>5, <1>6, <1>7 DEF BeginsRight, ToBePlaced
<1> QED  BY <1>1, <1>2, <1>3, <1>8, BeginKeeps

(* acceptUser: the permissions to give are the organization's.             *)
LEMMA AcceptBegins ==
    ASSUME MembershipInv, NEW r \in Request, NEW u \in M!Users, NEW o \in M!Orgs, NEW ps, M!BeginAccept(r, u, o, ps)
    PROVE  MembershipInv'
<1> DEFINE Q == [M!NewReq("accept", "read", u) EXCEPT !.org = M!AcceptingOrg(o), !.give = ps]
<1>1. M!Begin(r, Q) /\ raced' = raced /\ ps \subseteq M!PermId
  BY DEF M!BeginAccept, M!Of
<1>2. PICK q : q = Q
  OBVIOUS
<1>3. q = [kind |-> "accept", stage |-> "read", row |-> u, org |-> M!AcceptingOrg(o), give |-> ps, list |-> {}, todo |-> {}]
  BY <1>2, NewFields
<1>4. u \in M!Id /\ u \notin M!Global /\ M!AcceptingOrg(o) \in M!Orgs \cup {None} /\ M!Orgs \cup M!PermId \subseteq M!Id
  BY MemberConstants, MadeIds DEF M!AcceptingOrg
<1>5. q \in M!Req /\ Shaped(q, r)
  BY <1>1, <1>3, <1>4 DEF M!Req, Shaped, NewUserShaped, UserShaped, PermissionShaped, ApplicationShaped
<1>6. Sound(q)'
  BY <1>3 DEF Sound
<1>7. BeginsRight(r, q)
  BY <1>3, <1>4, <1>5, <1>6 DEF BeginsRight, ToBePlaced
<1> QED  BY <1>1, <1>2, <1>3, <1>7, BeginKeeps
(* createNewPermission: the list is what is given. *)
LEMMA PermissionCreateBegins ==
    ASSUME MembershipInv, NEW r \in Request, NEW k \in M!Kind \ {"global"}, NEW o \in M!Orgs,
           NEW as \in SUBSET M!Apps, NEW us \in SUBSET M!Users, M!BeginCreatePermission(r, k, o, as, us)
    PROVE  MembershipInv'
<1> DEFINE Q == [M!NewReq("createPermission", "save", <<r, k>>)
                    EXCEPT !.org = o, !.give = as \cup us, !.list = {<<<<r, k>>, o>>} \cup (as \cup us) \X {<<r, k>>}]
<1>1. M!Begin(r, Q) /\ raced' = raced
  BY DEF M!BeginCreatePermission
<1>2. PICK q, p : q = Q /\ p = <<r, k>>
  OBVIOUS
<1>3. q = [kind |-> "createPermission", stage |-> "save", row |-> p, org |-> o, give |-> as \cup us,
           list |-> {<<p, o>>} \cup (as \cup us) \X {p}, todo |-> {}]
  BY <1>2, NewFields
<1>4. p \in M!PermId \ M!Global /\ M!PermId \cup M!Orgs \cup M!Users \cup M!Apps \subseteq M!Id
  BY <1>2, MemberConstants, MadeIds
<1>5. q \in M!Req
  <2> DEFINE list == {<<p, o>>} \cup (as \cup us) \X {p}
  <2>1. p \in M!Id /\ o \in M!Id /\ as \cup us \subseteq M!Id
    BY <1>4
  <2>2. list \subseteq M!Id \X M!Id
    <3> SUFFICES ASSUME NEW x \in list PROVE x \in M!Id \X M!Id
      OBVIOUS
    <3>1. CASE x = <<p, o>>
      BY <2>1, <3>1
    <3>2. CASE x \in (as \cup us) \X {p}
      BY <2>1, <3>2
    <3> QED  BY <3>1, <3>2
  <2>3. q.list = list
    BY <1>3
  <2> HIDE DEF list
  <2> QED  BY <1>3, <1>4, <2>1, <2>2, <2>3 DEF M!Req
<1>6. Shaped(q, r)
  BY <1>3, <1>4 DEF Shaped, NewUserShaped, UserShaped, PermissionShaped, ApplicationShaped
<1>7. Sound(q)'
  <2>1. M!Scope(q) = {} /\ M!Given(q) = q.list
    BY <1>3 DEF M!Scope, M!Given
  <2>2. SameOn(M!Scope(q) \cup q.list, q.list, M!Promised(q))'
    BY <2>1 DEF SameOn, M!Promised
  <2> QED  BY <1>3, <2>2 DEF Sound
<1>8. BeginsRight(r, q)
  BY <1>3, <1>4, <1>5, <1>6, <1>7 DEF BeginsRight, ToBePlaced
<1>9. M!Begin(r, q) /\ raced' = raced
  BY <1>1, <1>2
<1>10. q.kind # "login"
  BY <1>3
<1> QED  BY <1>8, <1>9, <1>10, BeginKeeps

(* updatePermission: of the users and applications the list has the ones   *)
(* given, and of those that are not changed the ones there.                *)
LEMMA PermissionUpdateBegins ==
    ASSUME MembershipInv, NEW r \in Request, NEW p \in M!PermId,
           NEW as \in SUBSET M!Apps, NEW us \in SUBSET M!Users, M!BeginUpdatePermission(r, p, as, us)
    PROVE  MembershipInv'
<1> DEFINE Q(k) == [M!NewReq(k, "save", p)
                       EXCEPT !.give = as \cup us, !.list = M!LinksOf(p, M!Orgs) \cup M!NewLinks(p, as, us, k)]
<1>1. /\ p \in rows /\ as \subseteq M!Listed(p) /\ raced' = raced
      /\ \E k \in {"updatePermission", "updateWithoutUsers"} : (k = "updateWithoutUsers" => us = {}) /\ M!Begin(r, Q(k))
  BY DEF M!BeginUpdatePermission
<1>2. PICK k \in {"updatePermission", "updateWithoutUsers"} : (k = "updateWithoutUsers" => us = {}) /\ M!Begin(r, Q(k))
  BY <1>1
<1>3. PICK q : q = Q(k)
  OBVIOUS
<1> DEFINE list == M!LinksOf(p, M!Orgs) \cup M!NewLinks(p, as, us, k)
<1>4. q = [kind |-> k, stage |-> "save", row |-> p, org |-> None, give |-> as \cup us, list |-> list, todo |-> {}]
  BY <1>3, NewFields
<1>5. /\ M!PermId \cup M!Orgs \cup M!Users \cup M!Apps \subseteq M!Id /\ p \notin M!Orgs
      /\ M!Users \cap M!Apps = {} /\ M!Orgs \cap M!PermId = {}
  BY MemberConstants
<1>6. M!Listed(p) \in {{}, M!Apps}
  BY DEF M!Listed
<1>7. list \subseteq (M!Users \cup M!Apps) \X {p} \cup {p} \X M!Orgs
  <2>1. M!NewLinks(p, as, us, k) \subseteq (M!Users \cup M!Apps) \X {p}
    <3>1. M!LinksTo(p, M!Apps \ M!Listed(p)) \subseteq M!Apps \X {p} /\ M!LinksTo(p, M!Users) \subseteq M!Users \X {p}
      BY DEF M!LinksTo
    <3>2. (as \cup us) \X {p} \subseteq (M!Users \cup M!Apps) \X {p}
      OBVIOUS
    <3> QED  BY <3>1, <3>2 DEF M!NewLinks
  <2>2. M!LinksOf(p, M!Orgs) \subseteq {p} \X M!Orgs
    BY DEF M!LinksOf
  <2> QED  BY <2>1, <2>2
<1>8. q \in M!Req
  <2>1. list \subseteq M!Id \X M!Id
    BY <1>5, <1>7
  <2> HIDE DEF list
  <2> QED  BY <1>4, <1>5, <2>1 DEF M!Req
<1>9. Shaped(q, r)
  <2>1. p \in M!Global => list \cap ({p} \X M!Orgs) = {}
    <3>1. ASSUME NEW o \in M!Orgs, <<p, o>> \in list PROVE p \notin M!Global
      <4>1. <<p, o>> \in links
        BY <1>5, <3>1 DEF M!LinksOf, M!NewLinks, M!LinksTo
      <4> QED  BY <4>1 DEF MembershipInv, RowsPlaced
    <3> HIDE DEF list
    <3> QED  BY <3>1
  <2> HIDE DEF list
  <2> QED  BY <1>1, <1>2, <1>4, <1>5, <1>7, <2>1 DEF Shaped, NewUserShaped, UserShaped, PermissionShaped, ApplicationShaped
<1>10. ASSUME \A x \in M!Writes(q) \ Excused' : x \in links <=> x \in granted PROVE Sound(q)'
  <2>1. M!Scope(q) = (M!Users \cup M!Apps) \X {p} /\ M!Scope(q) \cup q.list \subseteq M!Writes(q)
    BY <1>4 DEF M!Scope, M!Writes
  <2>2. granted' = granted /\ granted \subseteq M!Id \X M!Id
    BY <1>2 DEF M!Begin, MembershipInv, MemberTyped, M!TypeOK
  <2>3. ASSUME NEW e \in M!Users, <<e, p>> \notin Excused' PROVE <<e, p>> \in list <=> <<e, p>> \in M!Promised(q)'
    <3>1. <<e, p>> \in links <=> <<e, p>> \in granted
      BY <1>10, <2>1, <2>3
    <3>2. <<e, p>> \in list <=> IF k = "updatePermission" THEN e \in us ELSE <<e, p>> \in links
      BY <1>2, <1>5, <1>6 DEF M!LinksOf, M!NewLinks, M!LinksTo
    <3>3. <<e, p>> \in M!Promised(q)' <=> IF k = "updatePermission" THEN e \in us ELSE <<e, p>> \in granted
      BY <1>1, <1>2, <1>4, <1>5, <1>6, <2>2 DEF M!Promised, M!Taken, M!Given
    <3> QED  BY <3>1, <3>2, <3>3
  <2>4. ASSUME NEW e \in M!Apps, <<e, p>> \notin Excused' PROVE <<e, p>> \in list <=> <<e, p>> \in M!Promised(q)'
    <3>1. <<e, p>> \in links <=> <<e, p>> \in granted
      BY <1>10, <2>1, <2>4
    <3>2. <<e, p>> \in list <=> IF M!Listed(p) = {} THEN <<e, p>> \in links ELSE e \in as
      BY <1>1, <1>5, <1>6 DEF M!LinksOf, M!NewLinks, M!LinksTo
    <3>3. <<e, p>> \in M!Promised(q)' <=> IF M!Listed(p) = {} THEN <<e, p>> \in granted ELSE e \in as
      BY <1>1, <1>2, <1>4, <1>5, <1>6, <2>2 DEF M!Promised, M!Taken, M!Given
    <3> QED  BY <3>1, <3>2, <3>3
  <2>5. ASSUME NEW o \in M!Orgs, <<p, o>> \in list, <<p, o>> \notin Excused' PROVE <<p, o>> \in M!Promised(q)'
    <3>1. <<p, o>> \in links
      BY <1>5, <2>5 DEF M!LinksOf, M!NewLinks, M!LinksTo
    <3>2. <<p, o>> \in granted
      BY <1>4, <1>10, <2>1, <2>5, <3>1
    <3>3. <<p, o>> \notin M!Taken(q)
      BY <1>4, <1>5 DEF M!Taken
    <3> QED  BY <2>2, <3>2, <3>3 DEF M!Promised
  <2>6. SameOn(M!Scope(q) \cup q.list, q.list, M!Promised(q))'
    <3> HIDE DEF list
    <3> SUFFICES ASSUME NEW x \in M!Scope(q) \cup list, x \notin Excused' PROVE x \in list <=> x \in M!Promised(q)'
      BY <1>4 DEF SameOn
    <3>1. CASE x \in M!Users \X {p}
      BY <2>3, <3>1
    <3>2. CASE x \in M!Apps \X {p}
      BY <2>4, <3>2
    <3>3. CASE x \in {p} \X M!Orgs /\ x \notin M!Scope(q)
      BY <2>5, <3>3
    <3> QED  BY <1>7, <2>1, <3>1, <3>2, <3>3
  <2> QED  BY <1>4, <2>6 DEF Sound
<1>11. p \notin M!Global => Placed(p, q.list)'
  <2> SUFFICES ASSUME p \notin M!Global PROVE Placed(p, q.list)'
    OBVIOUS
  <2>1. Placed(p, links)
    BY <1>1 DEF MembershipInv, RowsPlaced
  <2>2. ({p} \X M!Orgs) \cap links \subseteq q.list
    BY <1>4 DEF M!LinksOf
  <2>3. contended \subseteq contended' /\ hurt' = hurt
    BY <1>2 DEF M!Begin, M!Claim
  <2> QED  BY <2>1, <2>2, <2>3 DEF Placed
<1>12. BeginsRight(r, q)
  <2>1. q.kind = k /\ q.row = p /\ q.stage = "save"
    BY <1>4
  <2>2. ToBePlaced(q)'
    BY <1>11, <2>1 DEF ToBePlaced
  <2> QED  BY <1>1, <1>8, <1>9, <1>10, <2>1, <2>2 DEF BeginsRight
<1>13. M!Begin(r, q) /\ raced' = raced
  BY <1>1, <1>2, <1>3
<1>14. q.kind # "login"
  BY <1>4
<1> QED  BY <1>12, <1>13, <1>14, BeginKeeps

(* The list of a request that names all the links it is for is what was    *)
(* promised.                                                               *)
LEMMA GivenRight ==
    ASSUME NEW q, q.stage = "save", q.kind # "updateOrg", q.list = M!Given(q), M!Scope(q) = M!Taken(q)
    PROVE  Sound(q)'
<1>1. SameOn(M!Scope(q) \cup q.list, q.list, M!Promised(q))'
  BY DEF SameOn, M!Promised
<1> QED  BY <1>1 DEF Sound

(* Organizations: create ... *)
LEMMA OrgCreateBegins ==
    ASSUME MembershipInv, NEW r \in Request, M!BeginCreateOrg(r)
    PROVE  MembershipInv'
<1> DEFINE Q == M!NewReq("createOrg", "save", <<r, "org">>)
<1>1. M!Begin(r, Q) /\ raced' = raced
  BY DEF M!BeginCreateOrg
<1>2. PICK q, o : q = Q /\ o = <<r, "org">>
  OBVIOUS
<1>3. q = [kind |-> "createOrg", stage |-> "save", row |-> o, org |-> None, give |-> {}, list |-> {}, todo |-> {}]
  BY <1>2, NewFields
<1>4. o \in M!Orgs /\ o \in M!Id /\ o \notin M!Global
  BY <1>2, MemberConstants, MadeIds
<1>5. q \in M!Req /\ Shaped(q, r)
  BY <1>3, <1>4 DEF M!Req, Shaped, NewUserShaped, UserShaped, PermissionShaped, ApplicationShaped
<1>6. Sound(q)'
  BY <1>3 DEF Sound, SameOn, M!Scope
<1>7. BeginsRight(r, q)
  BY <1>3, <1>4, <1>5, <1>6 DEF BeginsRight, ToBePlaced
<1> QED  BY <1>1, <1>2, <1>3, <1>7, BeginKeeps

(* ... and update: the list is that of the permissions there.              *)
LEMMA OrgUpdateBegins ==
    ASSUME MembershipInv, NEW r \in Request, NEW o \in M!Orgs, M!BeginUpdateOrg(r, o)
    PROVE  MembershipInv'
<1> DEFINE Q == [M!NewReq("updateOrg", "save", o) EXCEPT !.list = M!LinksTo(o, M!PermId)]
<1>1. M!Begin(r, Q) /\ raced' = raced
  BY DEF M!BeginUpdateOrg
<1>2. PICK q : q = Q
  OBVIOUS
<1>3. q = [kind |-> "updateOrg", stage |-> "save", row |-> o, org |-> None, give |-> {},
           list |-> M!LinksTo(o, M!PermId), todo |-> {}]
  BY <1>2, NewFields
<1>4. /\ o \in M!Id /\ o \notin M!Global /\ M!PermId \subseteq M!Id
      /\ M!LinksTo(o, M!PermId) \subseteq (M!PermId \ M!Global) \X {o}
  BY MemberConstants, MadeIds DEF M!LinksTo, MembershipInv, RowsPlaced
<1>5. q \in M!Req
  BY <1>3, <1>4 DEF M!Req
<1>6. Shaped(q, r)
  BY <1>3, <1>4 DEF Shaped, NewUserShaped, UserShaped, PermissionShaped, ApplicationShaped
<1>7. ASSUME \A x \in M!Writes(q) \ Excused' : x \in links <=> x \in granted PROVE Sound(q)'
  <2>1. M!Scope(q) = M!PermId \X {o} /\ M!Scope(q) \subseteq M!Writes(q)
    BY <1>3 DEF M!Scope, M!Writes
  <2>2. \A x \in M!PermId \X {o} : x \in M!LinksTo(o, M!PermId) <=> x \in links
    BY DEF M!LinksTo
  <2>3. granted' = granted /\ rows' = rows
    BY <1>1 DEF M!Begin, M!stores
  <2>4. M!Promised(q)' = granted
    BY <1>3, <2>3 DEF M!Promised, M!Taken, M!Given
  <2>5. SameOn(M!Scope(q) \cup q.list, q.list, M!Promised(q))'
    BY <1>3, <1>4, <1>7, <2>1, <2>2, <2>4 DEF SameOn
  <2>6. \A x \in q.list : x[1] \in rows
    BY <1>3 DEF M!LinksTo, MembershipInv, MemberTyped, M!TypeOK
  <2>7. (\A x \in q.list \ Excused : x[1] \in rows)'
    BY <2>3, <2>6
  <2> QED  BY <1>3, <2>5, <2>7 DEF Sound
<1>8. BeginsRight(r, q)
  BY <1>3, <1>4, <1>5, <1>6, <1>7 DEF BeginsRight, ToBePlaced
<1> QED  BY <1>1, <1>2, <1>3, <1>8, BeginKeeps

(* Applications: create and update, with the links given.                  *)
LEMMA AppBegins ==
    ASSUME MembershipInv, NEW r \in Request, NEW k \in {"createApp", "updateApp"}, NEW a \in M!Apps, NEW o \in M!Orgs,
           NEW ps \in SUBSET M!PermId, raced' = raced,
           M!Begin(r, [M!NewReq(k, "save", a) EXCEPT !.org = o, !.give = ps, !.list = {a} \X (ps \cup {o})])
    PROVE  MembershipInv'
<1> DEFINE Q == [M!NewReq(k, "save", a) EXCEPT !.org = o, !.give = ps, !.list = {a} \X (ps \cup {o})]
<1>1. PICK q : q = Q
  OBVIOUS
<1>2. M!Begin(r, q)
  BY <1>1
<1>3. q = [kind |-> k, stage |-> "save", row |-> a, org |-> o, give |-> ps, list |-> {a} \X (ps \cup {o}), todo |-> {}]
  BY <1>1, NewFields
<1> HIDE DEF Q
<1>4. a \in M!Id /\ o \in M!Id /\ ps \subseteq M!Id /\ a \notin M!Global
  BY MemberConstants, MadeIds
<1>5. q \in M!Req
  <2>1. {a} \X (ps \cup {o}) \subseteq M!Id \X M!Id
    BY <1>4
  <2> QED  BY <1>3, <1>4, <2>1 DEF M!Req
<1>6. Shaped(q, r)
  BY <1>3 DEF Shaped, NewUserShaped, UserShaped, PermissionShaped, ApplicationShaped
<1>7. Sound(q)'
  <2>1. q.list = M!Given(q) /\ M!Scope(q) = M!Taken(q)
    BY <1>3 DEF M!Given, M!Scope, M!Taken
  <2> QED  BY <1>3, <2>1, GivenRight
<1>8. BeginsRight(r, q)
  BY <1>3, <1>4, <1>5, <1>6, <1>7 DEF BeginsRight, ToBePlaced
<1> QED  BY <1>2, <1>3, <1>8, BeginKeeps

(* API keys: create and update, with the permissions given.                *)
LEMMA KeyBegins ==
    ASSUME MembershipInv, NEW r \in Request, NEW k \in {"createKey", "updateKey"}, NEW a \in M!Keys,
           NEW ps \in SUBSET M!PermId, raced' = raced,
           M!Begin(r, [M!NewReq(k, "save", a) EXCEPT !.give = ps, !.list = {a} \X ps])
    PROVE  MembershipInv'
<1> DEFINE Q == [M!NewReq(k, "save", a) EXCEPT !.give = ps, !.list = {a} \X ps]
<1>1. PICK q : q = Q
  OBVIOUS
<1>2. M!Begin(r, q)
  BY <1>1
<1>3. q = [kind |-> k, stage |-> "save", row |-> a, org |-> None, give |-> ps, list |-> {a} \X ps, todo |-> {}]
  BY <1>1, NewFields
<1> HIDE DEF Q
<1>4. a \in M!Id /\ ps \subseteq M!Id /\ a \notin M!Global
  BY MemberConstants, MadeIds
<1>5. q \in M!Req
  <2>1. {a} \X ps \subseteq M!Id \X M!Id
    BY <1>4
  <2> QED  BY <1>3, <1>4, <2>1 DEF M!Req
<1>6. Shaped(q, r)
  BY <1>3 DEF Shaped, NewUserShaped, UserShaped, PermissionShaped, ApplicationShaped
<1>7. Sound(q)'
  <2>1. q.list = M!Given(q) /\ M!Scope(q) = M!Taken(q)
    BY <1>3 DEF M!Given, M!Scope, M!Taken
  <2> QED  BY <1>3, <2>1, GivenRight
<1>8. BeginsRight(r, q)
  BY <1>3, <1>4, <1>5, <1>6, <1>7 DEF BeginsRight, ToBePlaced
<1> QED  BY <1>2, <1>3, <1>8, BeginKeeps
-----------------------------------------------------------------------------
(* A busy request as its stage and its kind say it is.                     *)
LEMMA ReqOf ==
    ASSUME MembershipInv, NEW r \in Request, M!Busy(r)
    PROVE  /\ req[r] \in M!Req /\ req[r].stage \notin {"new", "done", "failed"}
           /\ Shaped(req[r], r) /\ Sound(req[r]) /\ ToBePlaced(req[r])
BY DEF MembershipInv, MemberTyped, Shapes, ListsSound, SavedPlaced, M!Busy

(* A request reads: only what it is about to do changes, and who lost a    *)
(* request to join, or a global admin permission is added.                 *)
LEMMA ReadKeeps ==
    ASSUME MembershipInv, NEW r \in Request, M!Busy(r), NEW q, Turns(r, q),
           UNCHANGED <<links, named, kombit, granted, contended, hurt, faults>>,
           rows \subseteq rows', rows' \subseteq rows \cup M!Global,
           slipped \subseteq slipped', slipped' \subseteq M!Users \X M!Orgs, raced' \subseteq {"global", "kombit"},
           q.stage \notin {"new", "done", "failed"}, Shaped(q, r), Sound(q)', ToBePlaced(q)',
           M!Writes(q) \subseteq M!Writes(req[r]), Unwritten(req[r]) = {}
    PROVE  MemberTyped' /\ Shapes' /\ Claimed' /\ Agreed' /\ ListsSound' /\ RowsPlaced' /\ SavedPlaced'
<1>1. Apart(r) /\ NoneComes
  BY DEF Apart, NoneComes
<1>2. Claimed'
  <2>1. M!Writes(q)' = M!Writes(q)
    BY DEF M!Writes, M!Of
  <2> QED  BY <1>1, <2>1, ClaimedStays DEF MembershipInv
<1>3. \A x \in M!Writes(req[r]) \ Excused' : x \in links' <=> x \in granted'
  BY AgreedOf DEF Excused
<1>4. Shapes' /\ Claimed' /\ Agreed' /\ ListsSound' /\ SavedPlaced'
  BY <1>1, <1>2, <1>3, TurnKeeps
<1>5. RowsPlaced'
  <2>1. \A x \in rows' \ rows : x \notin M!Apps \cup (M!PermId \ M!Global)
    BY MemberConstants, MadeIds
  <2>2. \A x \in M!Apps \cup M!PermId, o \in M!Orgs : <<x, o>> \in links => Placed(x, links)'
    BY DEF Placed
  <2> QED  BY <2>1, <2>2, PlacesStay
<1>6. MemberTyped'
  <2>1. M!Global \subseteq M!Id /\ M!Users \X M!Orgs \subseteq M!Id \X M!Id
    BY MemberConstants, MadeIds
  <2>2. rows' \subseteq M!Id /\ links' \subseteq rows' \X rows' /\ kombit' \subseteq rows'
    BY <2>1 DEF MembershipInv, MemberTyped, M!TypeOK
  <2>3. req' \in [Request -> M!Req]
    BY DEF MembershipInv, MemberTyped, Turns
  <2> QED  BY <2>1, <2>2, <2>3 DEF MembershipInv, MemberTyped, M!TypeOK
<1> QED  BY <1>4, <1>5, <1>6

(* findOrCreateGlobalAdminPermission, as found or made: the list has the   *)
(* permission that is to be given, or has it no longer.                    *)
LEMMA GlobalRead ==
    ASSUME MembershipInv, NEW r \in Request, M!Busy(r), req[r].stage \in {"global", "addGlobal"}, NEW p \in M!Global,
           UNCHANGED <<links, named, kombit, granted, contended, hurt, slipped, raced, faults>>,
           rows \subseteq rows', rows' \subseteq rows \cup M!Global,
           req' = [req EXCEPT ![r].stage = "save", ![r].give = {p}, ![r].list = M!WithGlobal(req[r], p)]
    PROVE  /\ MemberTyped' /\ Shapes' /\ Claimed' /\ Agreed' /\ ListsSound' /\ RowsPlaced' /\ SavedPlaced'
           /\ \E q : Turns(r, q) /\ q.stage = "save" /\ q.kind # "login" /\ q.row \notin M!Global
<1>1. PICK c : c = req[r]
  OBVIOUS
<1>2. c \in M!Req /\ c.stage \in {"global", "addGlobal"} /\ Shaped(c, r) /\ Sound(c)
  BY <1>1, ReqOf
<1>3. c.kind \in {"createAdmin", "promote", "demote"}
  BY <1>2, KindAt
<1> DEFINE Q == [c EXCEPT !.stage = "save", !.give = {p}, !.list = M!WithGlobal(c, p)]
<1>4. PICK q : q = Q
  OBVIOUS
<1>5. c.row \in M!Users /\ p \in M!PermId /\ M!Users \subseteq M!Id /\ M!PermId \subseteq M!Id
  <2>1. c.row = <<r, "user">> \/ c.row \in M!Users
    BY <1>2, <1>3 DEF Shaped, NewUserShaped, UserShaped
  <2>2. <<r, "user">> \in M!Users /\ M!Global \subseteq M!PermId
    BY MadeIds
  <2>3. M!Users \subseteq M!Id /\ M!PermId \subseteq M!Id
    BY MemberConstants
  <2> QED  BY <2>1, <2>2, <2>3
<1>6. c.list \subseteq {c.row} \X M!PermId /\ (c.kind = "createAdmin" => c.list = {} /\ c.row = <<r, "user">>)
  BY <1>2, <1>3 DEF Shaped, NewUserShaped, UserShaped
<1>7. M!WithGlobal(c, p) \subseteq {c.row} \X M!PermId
  BY <1>5, <1>6 DEF M!WithGlobal
<1>8. /\ q \in M!Req /\ q.kind = c.kind /\ q.stage = "save" /\ q.row = c.row /\ q.org = c.org /\ q.todo = c.todo
      /\ q.give = {p} /\ q.list = M!WithGlobal(c, p)
  <2>1. M!WithGlobal(c, p) \in SUBSET (M!Id \X M!Id) /\ {p} \in SUBSET M!Id
    BY <1>5, <1>7
  <2> QED  BY <1>2, <1>4, <2>1 DEF M!Req
<1>9. Turns(r, q)
  BY <1>1, <1>4, <1>8 DEF Turns
<1> HIDE DEF Q
<1>10. Shaped(q, r)
  <2>1. q.kind = "createAdmin" => q.list = {q.row} \X q.give
    BY <1>6, <1>8 DEF M!WithGlobal
  <2> QED  BY <1>3, <1>5, <1>6, <1>7, <1>8, <2>1
           DEF Shaped, NewUserShaped, UserShaped, PermissionShaped, ApplicationShaped
<1>11. Sound(q)'
  <2>1. CASE q.kind = "createAdmin"
    <3>1. M!Scope(q) = {} /\ q.list = M!Given(q)
      BY <1>6, <1>8, <2>1 DEF M!Scope, M!Given, M!WithGlobal
    <3>2. SameOn(M!Scope(q) \cup q.list, q.list, M!Promised(q))'
      BY <3>1 DEF SameOn, M!Promised
    <3> QED  BY <1>8, <2>1, <3>2 DEF Sound
  <2>2. CASE q.kind \in {"promote", "demote"}
    <3>1. M!Scope(q) = {c.row} \X M!PermId /\ M!Scope(c) = {c.row} \X M!PermId
      BY <1>8, <2>2 DEF M!Scope
    <3>2. \A x \in {c.row} \X M!PermId : x \notin Excused => (x \in c.list <=> x \in granted)
      BY <1>2, <3>1 DEF Sound, SameOn
    <3>3. M!Promised(q)' = IF q.kind = "demote" THEN granted \ {<<c.row, p>>} ELSE granted \cup {<<c.row, p>>}
      BY <1>8, <2>2 DEF M!Promised, M!Taken, M!Given
    <3>4. \A x : x \in q.list <=> IF q.kind = "demote" THEN x \in c.list /\ x # <<c.row, p>> ELSE x \in c.list \/ x = <<c.row, p>>
      BY <1>8 DEF M!WithGlobal
    <3>5. Excused' = Excused
      BY DEF Excused
    <3>6. SameOn(M!Scope(q) \cup q.list, q.list, M!Promised(q))'
      BY <1>7, <1>8, <3>1, <3>2, <3>3, <3>4, <3>5 DEF SameOn
    <3> QED  BY <1>8, <2>2, <3>6 DEF Sound
  <2> QED  BY <1>3, <1>8, <2>1, <2>2
<1>12. ToBePlaced(q)'
  BY <1>3, <1>8 DEF ToBePlaced
<1>13. M!Writes(q) \subseteq M!Writes(c)
  <2>1. CASE c.kind = "createAdmin"
    <3>1. M!Writes(c) = {c.row} \X M!Global
      BY <1>6, <2>1 DEF M!Writes, M!Scope
    <3>2. M!Writes(q) = {<<c.row, p>>} \cup {c.row} \X M!Global
      BY <1>6, <1>8, <2>1 DEF M!Writes, M!Scope, M!WithGlobal
    <3> QED  BY <3>1, <3>2
  <2>2. CASE c.kind \in {"promote", "demote"}
    <3>1. M!Writes(c) = ({c.row} \X M!PermId) \cup c.list /\ M!Writes(q) = ({c.row} \X M!PermId) \cup q.list
      BY <1>8, <2>2 DEF M!Writes, M!Scope
    <3> QED  BY <1>7, <1>8, <3>1
  <2> QED  BY <1>3, <2>1, <2>2
<1>14. Unwritten(c) = {}
  BY <1>2 DEF Unwritten
<1>15. slipped' \subseteq M!Users \X M!Orgs /\ raced' \subseteq {"global", "kombit"}
  BY DEF MembershipInv, MemberTyped, M!TypeOK
<1>16. q.row \notin M!Global
  BY <1>5, <1>8, MemberConstants, MadeIds
<1>17. MemberTyped' /\ Shapes' /\ Claimed' /\ Agreed' /\ ListsSound' /\ RowsPlaced' /\ SavedPlaced'
  BY <1>1, <1>8, <1>9, <1>10, <1>11, <1>12, <1>13, <1>14, <1>15, ReadKeeps
<1> QED  BY <1>3, <1>8, <1>9, <1>16, <1>17

(* findOrCreateGlobalAdminPermission: it is there, or it is to be made.    *)
LEMMA FindGlobalKeeps ==
    ASSUME MembershipInv, NEW r \in Request, M!FindGlobal(r)
    PROVE  MembershipInv'
<1>1. /\ req[r].stage = "global" /\ M!Busy(r)
      /\ UNCHANGED <<rows, links, named, kombit, granted, contended, hurt, slipped, faults>>
  BY DEF M!FindGlobal, M!At, M!Busy, M!stores
<1>2. CASE M!Global \cap rows # {}
  <2>1. PICK p \in M!Global \cap rows :
          req' = [req EXCEPT ![r].stage = "save", ![r].give = {p}, ![r].list = M!WithGlobal(req[r], p)]
    BY <1>2 DEF M!FindGlobal
  <2>2. raced' = raced
    BY <1>2 DEF M!FindGlobal
  <2>3. /\ MemberTyped' /\ Shapes' /\ Claimed' /\ Agreed' /\ ListsSound' /\ RowsPlaced' /\ SavedPlaced'
        /\ \E q : Turns(r, q) /\ q.stage = "save" /\ q.kind # "login" /\ q.row \notin M!Global
    BY <1>1, <2>1, <2>2, GlobalRead
  <2>4. OneGlobal' /\ GlobalThere' /\ OneKombit'
    BY <1>1, <2>2, <2>3, OnesStay
  <2> QED  BY <2>3, <2>4 DEF MembershipInv
<1>3. CASE M!Global \cap rows = {}
  <2>1. PICK c, q : c = req[r] /\ q = [c EXCEPT !.stage = "addGlobal"]
    OBVIOUS
  <2>2. c \in M!Req /\ c.stage = "global" /\ Shaped(c, r) /\ Sound(c)
    BY <1>1, <2>1, ReqOf
  <2>3. c.kind \in {"createAdmin", "promote", "demote"}
    BY <2>2, KindAt
  <2>4. /\ q \in M!Req /\ q.stage = "addGlobal" /\ q.kind = c.kind /\ q.row = c.row /\ q.org = c.org
        /\ q.give = c.give /\ q.list = c.list /\ q.todo = c.todo
    BY <2>1, <2>2 DEF M!Req
  <2>5. /\ Turns(r, q)
        /\ raced' = IF \E p \in Request : M!At(p, "addGlobal") THEN raced \cup {"global"} ELSE raced
    BY <1>3, <2>1, <2>4 DEF Turns, M!FindGlobal, M!Goto
  <2>6. Shaped(q, r)
    BY <2>2, <2>3, <2>4 DEF Shaped, NewUserShaped, UserShaped, PermissionShaped, ApplicationShaped
  <2>7. Sound(q)'
    <3>1. SameOn(M!Scope(c), c.list, granted) /\ M!Scope(q) = M!Scope(c)
      BY <2>2, <2>3, <2>4 DEF Sound, M!Scope
    <3>2. SameOn(M!Scope(q), q.list, granted)'
      BY <1>1, <2>4, <3>1 DEF SameOn, Excused
    <3> QED  BY <2>3, <2>4, <3>2 DEF Sound
  <2>8. ToBePlaced(q)'
    BY <2>3, <2>4 DEF ToBePlaced
  <2>9. M!Writes(q) = M!Writes(c)
    BY <2>3, <2>4 DEF M!Writes, M!Scope
  <2>10. Unwritten(c) = {}
    BY <2>2 DEF Unwritten
  <2>11. slipped' \subseteq M!Users \X M!Orgs /\ raced' \subseteq {"global", "kombit"}
    BY <1>1, <2>5 DEF MembershipInv, MemberTyped, M!TypeOK
  <2>12. MemberTyped' /\ Shapes' /\ Claimed' /\ Agreed' /\ ListsSound' /\ RowsPlaced' /\ SavedPlaced'
    BY <1>1, <2>1, <2>4, <2>5, <2>6, <2>7, <2>8, <2>9, <2>10, <2>11, ReadKeeps
  <2>13. req'[r] = q /\ \A s \in Request \ {r} : req'[s] = req[s]
    BY <2>5 DEF MembershipInv, MemberTyped, Turns
  <2>14. OneGlobal'
    <3> SUFFICES ASSUME "global" \notin raced' PROVE OneGlobal'
      BY DEF OneGlobal
    <3>1. \A s \in Request : ~M!At(s, "addGlobal")
      BY <2>5
    <3>2. \A s \in Request : M!At(s, "addGlobal")' => s = r
      BY <2>13, <3>1 DEF M!At
    <3> QED  BY <1>1, <1>3, <3>2 DEF OneGlobal
  <2>15. GlobalThere'
    <3>1. ASSUME NEW s \in Request, M!Busy(s)' PROVE M!Busy(s) /\ req'[s].row = req[s].row
      <4>1. CASE s = r
        BY <1>1, <2>1, <2>4, <2>13, <4>1
      <4>2. CASE s # r
        BY <2>13, <3>1, <4>2 DEF M!Busy
      <4> QED  BY <4>1, <4>2
    <3> QED  BY <1>1, <3>1 DEF MembershipInv, GlobalThere
  <2>16. OneKombit'
    <3>1. \A s \in Request : LoggingIn(s)' => LoggingIn(s)
      BY <2>3, <2>4, <2>13 DEF LoggingIn, M!Busy
    <3>2. "kombit" \in raced => "kombit" \in raced'
      BY <2>5
    <3> QED  BY <1>1, <3>1, <3>2 DEF MembershipInv, OneKombit
  <2> QED  BY <2>12, <2>14, <2>15, <2>16 DEF MembershipInv
<1> QED  BY <1>2, <1>3

LEMMA AddGlobalKeeps ==
    ASSUME MembershipInv, NEW r \in Request, M!AddGlobal(r)
    PROVE  MembershipInv'
<1> DEFINE p == <<r, "global">>
<1>1. /\ req[r].stage = "addGlobal" /\ M!Busy(r)
      /\ rows' = rows \cup {p}
      /\ req' = [req EXCEPT ![r].stage = "save", ![r].give = {p}, ![r].list = M!WithGlobal(req[r], p)]
      /\ UNCHANGED <<links, named, kombit, granted, contended, hurt, slipped, raced, faults>>
  BY DEF M!AddGlobal, M!At, M!Busy, M!history
<1>2. p \in M!Global
  BY MadeIds
<1> HIDE DEF p
<1>3. rows \subseteq rows' /\ rows' \subseteq rows \cup M!Global
  BY <1>1, <1>2
<1>4. /\ MemberTyped' /\ Shapes' /\ Claimed' /\ Agreed' /\ ListsSound' /\ RowsPlaced' /\ SavedPlaced'
      /\ \E q : Turns(r, q) /\ q.stage = "save" /\ q.kind # "login" /\ q.row \notin M!Global
  BY <1>1, <1>2, <1>3, GlobalRead
<1>5. PICK q : Turns(r, q) /\ q.stage = "save" /\ q.kind # "login" /\ q.row \notin M!Global
  BY <1>4
<1>6. req'[r] = q /\ \A s \in Request \ {r} : req'[s] = req[s]
  BY <1>5 DEF MembershipInv, MemberTyped, Turns
<1>7. OneGlobal'
  <2> SUFFICES ASSUME "global" \notin raced PROVE OneGlobal'
    BY <1>1 DEF OneGlobal
  <2>1. M!Global \cap rows = {} /\ \A s \in Request : M!At(s, "addGlobal") => s = r
    BY <1>1 DEF MembershipInv, OneGlobal, M!At
  <2>2. M!Global \cap rows' = {p}
    BY <1>1, <1>2, <2>1
  <2>3. \A s \in Request : ~M!At(s, "addGlobal")'
    BY <1>5, <1>6, <2>1 DEF M!At
  <2> QED  BY <2>2, <2>3 DEF OneGlobal
<1>8. GlobalThere'
  BY <1>3, <1>5, <1>6 DEF MembershipInv, GlobalThere, M!Busy
<1>9. OneKombit'
  <2>1. \A s \in Request : LoggingIn(s)' => LoggingIn(s)
    BY <1>5, <1>6 DEF LoggingIn, M!Busy
  <2> QED  BY <1>1, <2>1 DEF MembershipInv, OneKombit
<1> QED  BY <1>4, <1>7, <1>8, <1>9 DEF MembershipInv

(* acceptUser reads the user with permissions and requests to join: of the *)
(* requests, the accepted one is taken from the list, or another that is   *)
(* then known to have slipped.                                             *)
LEMMA FindAcceptedKeeps ==
    ASSUME MembershipInv, NEW r \in Request, M!FindAccepted(r)
    PROVE  MembershipInv'
<1>1. PICK c : c = req[r]
  OBVIOUS
<1> DEFINE asked == M!LinksOf(c.row, M!Orgs)
           mine == <<c.row, c.org>>
<1>2. /\ c.stage = "read" /\ M!Busy(r) /\ M!LinksOf(c.row, c.give) = {}
      /\ UNCHANGED <<rows, links, named, kombit, granted, contended, hurt, raced, faults>>
  BY <1>1 DEF M!FindAccepted, M!At, M!Busy, M!stores
<1>3. PICK kept \in M!Spliced(c, asked) :
        /\ req' = [req EXCEPT ![r].stage = "save",
                              ![r].list = M!LinksOf(c.row, M!PermId) \cup {c.row} \X c.give \cup kept]
        /\ slipped' = IF mine \in asked THEN slipped ELSE slipped \cup (asked \ kept)
  BY <1>1 DEF M!FindAccepted
<1> DEFINE list == M!LinksOf(c.row, M!PermId) \cup {c.row} \X c.give \cup kept
<1>4. c \in M!Req /\ Shaped(c, r) /\ c.kind = "accept"
  BY <1>1, <1>2, ReqOf, KindAt
<1>5. c.row \in M!Users /\ c.org \in M!Orgs \cup {None} /\ c.give \subseteq M!PermId
  BY <1>4 DEF Shaped, UserShaped
<1>6. /\ c.org \notin M!PermId /\ M!Users \cup M!Orgs \cup M!PermId \subseteq M!Id /\ M!Orgs \cap M!PermId = {}
      /\ c.row \notin M!Global
  BY <1>5, MemberConstants, MadeIds
<1>7. kept \subseteq asked /\ (mine \in asked => kept = asked \ {mine})
  BY <1>3 DEF M!Spliced
<1>8. list \subseteq {c.row} \X (M!PermId \cup M!Orgs)
  BY <1>5, <1>7 DEF M!LinksOf
<1>9. PICK q : q = [c EXCEPT !.stage = "save", !.list = list]
  OBVIOUS
<1>10. /\ q \in M!Req /\ q.kind = "accept" /\ q.stage = "save" /\ q.row = c.row /\ q.org = c.org /\ q.todo = c.todo
       /\ q.give = c.give /\ q.list = list
  <2>1. list \in SUBSET (M!Id \X M!Id)
    BY <1>5, <1>6, <1>8
  <2> HIDE DEF list
  <2> QED  BY <1>4, <1>9, <2>1 DEF M!Req
<1>11. Turns(r, q)
  BY <1>1, <1>3, <1>9, <1>10 DEF Turns
<1>12. Shaped(q, r)
  <2> HIDE DEF list
  <2> QED  BY <1>5, <1>8, <1>10 DEF Shaped, NewUserShaped, UserShaped, PermissionShaped, ApplicationShaped
<1>13. slipped \subseteq slipped' /\ slipped' \subseteq M!Users \X M!Orgs
  BY <1>3, <1>5 DEF M!LinksOf, MembershipInv, MemberTyped
<1>14. Unwritten(c) = {}
  BY <1>2 DEF Unwritten
<1>15. ASSUME NEW x \in {c.row} \X (M!PermId \cup M!Orgs), x \notin Excused PROVE x \in links <=> x \in granted
  <2>1. x \in M!Writes(c)
    BY <1>4, <1>15 DEF M!Writes, M!Scope
  <2> QED  BY <1>1, <1>2, <1>14, <1>15, <2>1, AgreedOf
<1>16. Sound(q)'
  <2>1. M!Scope(q) = {c.row} \X (M!PermId \cup M!Orgs)
    BY <1>10 DEF M!Scope
  <2>2. Excused \subseteq Excused' /\ slipped' \subseteq Excused'
    BY <1>2, <1>13 DEF Excused
  <2>3. M!Promised(q)' = (granted \ {mine}) \cup {c.row} \X c.give
    BY <1>2, <1>10 DEF M!Promised, M!Taken, M!Given
  <2>4. ASSUME NEW p \in M!PermId, <<c.row, p>> \notin Excused' PROVE <<c.row, p>> \in list <=> <<c.row, p>> \in M!Promised(q)'
    <3>1. <<c.row, p>> \in links <=> <<c.row, p>> \in granted
      BY <1>15, <2>2, <2>4
    <3>2. <<c.row, p>> \in list <=> <<c.row, p>> \in links \/ p \in c.give
      BY <1>6, <1>7, <2>4 DEF M!LinksOf
    <3>3. <<c.row, p>> \in M!Promised(q)' <=> <<c.row, p>> \in granted \/ p \in c.give
      BY <1>6, <2>3
    <3> QED  BY <3>1, <3>2, <3>3
  <2>5. ASSUME NEW o \in M!Orgs, <<c.row, o>> \notin Excused' PROVE <<c.row, o>> \in list <=> <<c.row, o>> \in M!Promised(q)'
    <3>1. <<c.row, o>> \in links <=> <<c.row, o>> \in granted
      BY <1>15, <2>2, <2>5
    <3>2. <<c.row, o>> \in list <=> <<c.row, o>> \in kept
      BY <1>5, <1>6 DEF M!LinksOf
    <3>3. <<c.row, o>> \in asked <=> <<c.row, o>> \in links
      BY DEF M!LinksOf
    <3>4. <<c.row, o>> \in kept <=> <<c.row, o>> \in links /\ <<c.row, o>> # mine
      BY <1>3, <1>7, <2>2, <2>5, <3>3
    <3>5. <<c.row, o>> \in M!Promised(q)' <=> <<c.row, o>> \in granted /\ <<c.row, o>> # mine
      BY <1>5, <1>6, <2>3
    <3> QED  BY <3>1, <3>2, <3>4, <3>5
  <2>6. SameOn(M!Scope(q) \cup q.list, q.list, M!Promised(q))'
    <3> HIDE DEF list
    <3> SUFFICES ASSUME NEW x \in {c.row} \X (M!PermId \cup M!Orgs), x \notin Excused' PROVE x \in list <=> x \in M!Promised(q)'
      BY <1>8, <1>10, <2>1 DEF SameOn
    <3>1. CASE x \in {c.row} \X M!PermId
      BY <2>4, <3>1
    <3>2. CASE x \in {c.row} \X M!Orgs
      BY <2>5, <3>2
    <3> QED  BY <3>1, <3>2
  <2> QED  BY <1>10, <2>6 DEF Sound
<1>17. ToBePlaced(q)'
  BY <1>10 DEF ToBePlaced
<1>18. M!Writes(q) \subseteq M!Writes(c)
  <2>1. M!Writes(q) = ({c.row} \X (M!PermId \cup M!Orgs)) \cup list
    BY <1>10 DEF M!Writes, M!Scope
  <2>2. M!Writes(c) = ({c.row} \X (M!PermId \cup M!Orgs)) \cup c.list
    BY <1>4 DEF M!Writes, M!Scope
  <2> HIDE DEF list
  <2> QED  BY <1>8, <2>1, <2>2
<1>19. raced' \subseteq {"global", "kombit"}
  BY <1>2 DEF MembershipInv, MemberTyped, M!TypeOK
<1>20. MemberTyped' /\ Shapes' /\ Claimed' /\ Agreed' /\ ListsSound' /\ RowsPlaced' /\ SavedPlaced'
  BY <1>1, <1>2, <1>10, <1>11, <1>12, <1>13, <1>14, <1>16, <1>17, <1>18, <1>19, ReadKeeps
<1>21. OneGlobal' /\ GlobalThere' /\ OneKombit'
  BY <1>2, <1>6, <1>10, <1>11, OnesStay
<1> QED  BY <1>20, <1>21 DEF MembershipInv

(* updateAwaitingUsers reads an organization with those who ask.           *)
LEMMA FindOrgKeeps ==
    ASSUME MembershipInv, NEW r \in Request, NEW o, M!FindOrg(r, o)
    PROVE  MembershipInv'
<1>1. PICK c : c = req[r]
  OBVIOUS
<1> DEFINE list == M!LinksTo(o, M!Users) \cup {<<c.row, o>>}
<1>2. /\ c.stage = "findOrg" /\ M!Busy(r) /\ o \in c.todo
      /\ req' = [req EXCEPT ![r].stage = "saveOrg", ![r].org = o, ![r].list = list]
      /\ UNCHANGED <<rows, links, named, kombit, granted, contended, hurt, slipped, raced, faults>>
  BY <1>1 DEF M!FindOrg, M!At, M!Busy, M!stores, M!history
<1>3. c \in M!Req /\ Shaped(c, r) /\ c.kind \in {"askFirst", "ask"}
  BY <1>1, <1>2, ReqOf, KindAt
<1>4. c.row \in M!Users /\ c.todo \subseteq M!Orgs /\ c.give = {} /\ c.list = {}
  BY <1>2, <1>3 DEF Shaped, UserShaped
<1>5. M!Users \cup M!Orgs \subseteq M!Id /\ c.row \notin M!Global
  BY <1>4, MemberConstants, MadeIds
<1>6. list \subseteq M!Users \X {o}
  BY <1>4 DEF M!LinksTo
<1>7. PICK q : q = [c EXCEPT !.stage = "saveOrg", !.org = o, !.list = list]
  OBVIOUS
<1>8. /\ q \in M!Req /\ q.kind = c.kind /\ q.stage = "saveOrg" /\ q.row = c.row /\ q.org = o /\ q.todo = c.todo
      /\ q.give = {} /\ q.list = list
  <2>1. list \in SUBSET (M!Id \X M!Id) /\ o \in M!Id
    BY <1>2, <1>4, <1>5, <1>6
  <2> HIDE DEF list
  <2> QED  BY <1>3, <1>4, <1>7, <2>1 DEF M!Req
<1>9. Turns(r, q)
  BY <1>1, <1>2, <1>7, <1>8 DEF Turns
<1>10. Shaped(q, r)
  <2> HIDE DEF list
  <2> QED  BY <1>2, <1>3, <1>4, <1>6, <1>8 DEF Shaped, NewUserShaped, UserShaped, PermissionShaped, ApplicationShaped
<1>11. Unwritten(c) = {}
  BY <1>2 DEF Unwritten
<1>12. M!Users \X c.todo \subseteq M!Writes(c)
  BY <1>3 DEF M!Writes
<1>13. Sound(q)'
  <2>1. ASSUME NEW x \in M!Users \X {o}, x \notin Excused PROVE x \in links <=> x \in granted
    BY <1>1, <1>2, <1>11, <1>12, <2>1, AgreedOf
  <2>2. \A x \in M!Users \X {o} : x \in list <=> x \in links \/ x = <<c.row, o>>
    BY DEF M!LinksTo
  <2>3. q.list = list
    BY <1>8
  <2> HIDE DEF list
  <2>4. SameOn(M!Users \X {o}, q.list, granted \cup {<<c.row, o>>})'
    BY <1>2, <2>1, <2>2, <2>3 DEF SameOn, Excused
  <2> QED  BY <1>3, <1>8, <2>4 DEF Sound
<1>14. ToBePlaced(q)'
  BY <1>3, <1>8 DEF ToBePlaced
<1>15. M!Writes(q) \subseteq M!Writes(c)
  <2>1. M!Writes(q) = M!Scope(q) \cup list \cup M!Users \X c.todo
    BY <1>3, <1>8 DEF M!Writes
  <2>2. M!Writes(c) = M!Scope(c) \cup c.list \cup M!Users \X c.todo /\ M!Scope(q) = M!Scope(c)
    BY <1>3, <1>8 DEF M!Writes, M!Scope
  <2> HIDE DEF list
  <2> QED  BY <1>2, <1>6, <2>1, <2>2
<1>16. slipped' \subseteq M!Users \X M!Orgs /\ raced' \subseteq {"global", "kombit"}
  BY <1>2 DEF MembershipInv, MemberTyped, M!TypeOK
<1>17. MemberTyped' /\ Shapes' /\ Claimed' /\ Agreed' /\ ListsSound' /\ RowsPlaced' /\ SavedPlaced'
  BY <1>1, <1>2, <1>8, <1>9, <1>10, <1>11, <1>13, <1>14, <1>15, <1>16, ReadKeeps
<1>18. OneGlobal' /\ GlobalThere' /\ OneKombit'
  BY <1>2, <1>3, <1>5, <1>8, <1>9, OnesStay
<1> QED  BY <1>17, <1>18 DEF MembershipInv
-----------------------------------------------------------------------------
(* What a save writes is rows and links of rows.                           *)
LEMMA WrittenTyped ==
    ASSUME MemberTyped, NEW e \in M!Id, NEW scope, NEW list \in SUBSET (M!Id \X M!Id), M!Written(e, scope, list)
    PROVE  rows' \subseteq M!Id /\ rows \subseteq rows' /\ links' \subseteq rows' \X rows'
<1>1. rows' = rows \cup {e} /\ links' = (links \ scope) \cup list
  BY DEF M!Written
<1>2. list \subseteq links \cup rows' \X rows'
  <2> SUFFICES ASSUME NEW x \in list, x \notin links PROVE x \in rows' \X rows'
    OBVIOUS
  <2> QED  BY <1>1 DEF M!Written, M!CanSave
<1> QED  BY <1>1, <1>2 DEF MemberTyped, M!TypeOK

(* The steps of a request that writes links, and makes no claim.           *)
LEMMA WriteKeeps ==
    ASSUME MembershipInv, NEW r \in Request, M!Busy(r), NEW q, Turns(r, q),
           UNCHANGED <<named, kombit, contended, hurt, slipped, raced, faults>>,
           rows \subseteq rows', rows' \subseteq M!Id, links' \subseteq rows' \X rows', granted' \subseteq M!Id \X M!Id,
           rows' \cap M!Global = rows \cap M!Global,
           \A x : x \notin M!Writes(req[r]) => (x \in links' <=> x \in links) /\ (x \in granted' <=> x \in granted),
           NoneComes, \A x \in M!Apps \cup M!PermId, o \in M!Orgs : <<x, o>> \in links => <<x, o>> \in links',
           \A x \in rows' \ rows : x \in M!Apps \cup (M!PermId \ M!Global) => Placed(x, links)',
           q.stage \notin {"done", "failed"} => Shaped(q, r) /\ Sound(q)' /\ ToBePlaced(q)' /\ M!Writes(q) \subseteq M!Writes(req[r]),
           q.stage \notin {"new", "addGlobal"}, q.kind # "login", q.stage # "done" => q.row \notin M!Global,
           \A x \in M!Writes(req[r]) \ Excused :
               (x \in links' <=> x \in granted') \/ (q.stage # "done" /\ x \in Unwritten(q))
    PROVE  MembershipInv'
<1>1. Apart(r)
  BY DEF Apart
<1>2. Claimed'
  <2>1. M!Busy(r)' => M!Writes(q)' \subseteq M!Writes(q) /\ M!Writes(q) \subseteq M!Writes(req[r])
    <3> SUFFICES ASSUME M!Busy(r)' PROVE M!Writes(q)' \subseteq M!Writes(q) /\ M!Writes(q) \subseteq M!Writes(req[r])
      OBVIOUS
    <3>1. req'[r] = q
      BY DEF MembershipInv, MemberTyped, Turns
    <3>2. Shaped(q, r) /\ q \in M!Req /\ M!Writes(q) \subseteq M!Writes(req[r])
      BY <3>1 DEF M!Busy, Turns
    <3>3. q.kind = "createApp" => q.org \in M!Orgs
      BY <3>2 DEF Shaped, ApplicationShaped
    <3> QED  BY <3>2, <3>3, WritesShrink
  <2> QED  BY <2>1, ClaimedStays DEF MembershipInv
<1>3. Excused' = Excused
  BY DEF Excused
<1>4. Shapes' /\ Claimed' /\ Agreed' /\ ListsSound' /\ SavedPlaced'
  <2>1. \A x \in M!Writes(req[r]) \ Excused' :
            \/ x \in links' <=> x \in granted'
            \/ q.stage \notin {"new", "done", "failed"} /\ x \in Unwritten(q)
    BY <1>3 DEF Unwritten
  <2> QED  BY <1>1, <1>2, <2>1, TurnKeeps
<1>5. RowsPlaced'
  <2>1. \A x \in M!Apps \cup M!PermId, o \in M!Orgs : <<x, o>> \in links => Placed(x, links)'
    BY DEF Placed
  <2>2. \A p \in M!Global, o \in M!Orgs : <<p, o>> \notin links' \ links
    BY MadeIds DEF NoneComes
  <2> QED  BY <2>1, <2>2, PlacesStay
<1>6. OneGlobal' /\ GlobalThere' /\ OneKombit'
  BY OnesStay
<1>7. MemberTyped'
  <2>1. req' \in [Request -> M!Req]
    BY DEF MembershipInv, MemberTyped, Turns
  <2> QED  BY <2>1 DEF MembershipInv, MemberTyped, M!TypeOK
<1> QED  BY <1>4, <1>5, <1>6, <1>7 DEF MembershipInv

(* updateAwaitingUsers saves the organization with one more that asks.     *)
LEMMA SaveAwaitingKeeps ==
    ASSUME MembershipInv, NEW r \in Request, M!SaveAwaiting(r)
    PROVE  MembershipInv'
<1>1. PICK c : c = req[r]
  OBVIOUS
<1> DEFINE mine == M!Users \X {c.org}
<1>2. /\ c.stage = "saveOrg" /\ c.kind # "reject" /\ M!Busy(r)
      /\ M!Written(c.org, mine, c.list) /\ granted' = granted \cup {<<c.row, c.org>>}
      /\ UNCHANGED <<named, kombit, contended, hurt, slipped, raced, faults>>
  BY <1>1 DEF M!SaveAwaiting, M!At, M!Busy
<1>3. c \in M!Req /\ Shaped(c, r) /\ Sound(c) /\ c.kind \in {"askFirst", "ask"}
  BY <1>1, <1>2, ReqOf, KindAt
<1>4. c.row \in M!Users /\ c.todo \subseteq M!Orgs /\ c.give = {} /\ c.org \in c.todo /\ c.list \subseteq mine
  BY <1>2, <1>3 DEF Shaped, UserShaped
<1>5. /\ M!Users \cup M!Orgs \subseteq M!Id /\ c.row \notin M!Global /\ c.org \notin M!PermId \cup M!Apps
      /\ M!Users \cap (M!Apps \cup M!PermId) = {}
  BY <1>4, MemberConstants, MadeIds
<1>6. PICK q : /\ Turns(r, q) /\ q.kind = c.kind
               /\ \/ q.stage = "done"
                  \/ q.stage = "findOrg" /\ q.row = c.row /\ q.todo = c.todo \ {c.org} /\ q.list = {} /\ q.give = {}
  <2>1. CASE c.todo = {c.org}
    <3>1. M!Answer(r, "done")
      BY <1>1, <2>1 DEF M!SaveAwaiting
    <3> QED  BY <1>1, <3>1, AnswerOf DEF MembershipInv
  <2>2. CASE c.todo # {c.org}
    <3>1. PICK d : d = [c EXCEPT !.stage = "findOrg", !.todo = @ \ {c.org}, !.list = {}]
      OBVIOUS
    <3>2. d \in M!Req /\ d.kind = c.kind /\ d.stage = "findOrg" /\ d.row = c.row /\ d.todo = c.todo \ {c.org} /\ d.list = {} /\ d.give = {}
      BY <1>3, <1>4, <3>1 DEF M!Req
    <3>3. req' = [req EXCEPT ![r] = d]
      BY <1>1, <2>2, <3>1 DEF M!SaveAwaiting
    <3> QED  BY <3>2, <3>3 DEF Turns
  <2> QED  BY <2>1, <2>2
<1>7. rows' \subseteq M!Id /\ rows \subseteq rows' /\ links' \subseteq rows' \X rows'
  <2>1. c.org \in M!Id /\ c.list \in SUBSET (M!Id \X M!Id)
    BY <1>4, <1>5 DEF M!Req
  <2> QED  BY <1>2, <2>1, WrittenTyped DEF MembershipInv
<1>8. rows' = rows \cup {c.org} /\ links' = (links \ mine) \cup c.list
  BY <1>2 DEF M!Written
<1>9. granted' \subseteq M!Id \X M!Id
  <2>1. <<c.row, c.org>> \in M!Id \X M!Id
    BY <1>4, <1>5
  <2> QED  BY <1>2, <2>1 DEF MembershipInv, MemberTyped, M!TypeOK
<1>10. mine \cup M!Users \X c.todo \subseteq M!Writes(c) /\ <<c.row, c.org>> \in mine
  BY <1>3, <1>4 DEF M!Writes
<1>11. \A x \in mine \ Excused : x \in c.list <=> x \in granted'
  BY <1>2, <1>3 DEF Sound, SameOn
<1>12. \A x : x \notin M!Writes(c) => (x \in links' <=> x \in links) /\ (x \in granted' <=> x \in granted)
  BY <1>2, <1>4, <1>8, <1>10
<1>13. \A x \in M!Apps \cup M!PermId, o \in M!Orgs : <<x, o>> \in links <=> <<x, o>> \in links'
  BY <1>4, <1>5, <1>8
<1>14. q.stage # "done" => Shaped(q, r) /\ Sound(q)' /\ ToBePlaced(q)' /\ M!Writes(q) \subseteq M!Writes(c)
  <2> SUFFICES ASSUME q.stage # "done" PROVE Shaped(q, r) /\ Sound(q)' /\ ToBePlaced(q)' /\ M!Writes(q) \subseteq M!Writes(c)
    OBVIOUS
  <2>1. Shaped(q, r)
    BY <1>3, <1>4, <1>6 DEF Shaped, NewUserShaped, UserShaped, PermissionShaped, ApplicationShaped
  <2>2. Sound(q)'
    BY <1>3, <1>6 DEF Sound
  <2>3. ToBePlaced(q)'
    BY <1>3, <1>6 DEF ToBePlaced
  <2>4. M!Writes(q) \subseteq M!Writes(c)
    <3>1. M!Scope(q) = M!Scope(c)
      BY <1>3, <1>6 DEF M!Scope
    <3> QED  BY <1>3, <1>6, <3>1 DEF M!Writes
  <2> QED  BY <2>1, <2>2, <2>3, <2>4
<1>15. \A x \in M!Writes(c) \ Excused : x \in links' <=> x \in granted'
  <2> SUFFICES ASSUME NEW x \in M!Writes(c) \ Excused PROVE x \in links' <=> x \in granted'
    OBVIOUS
  <2>1. CASE x \in mine
    BY <1>8, <1>11, <2>1
  <2>2. CASE x \notin mine
    <3>1. x \in links <=> x \in granted
      BY <1>1, <1>2, AgreedOf DEF Unwritten
    <3> QED  BY <1>2, <1>4, <1>8, <1>10, <2>2, <3>1
  <2> QED  BY <2>1, <2>2
<1>16. rows' \cap M!Global = rows \cap M!Global /\ \A x \in rows' \ rows : x \notin M!Apps \cup (M!PermId \ M!Global)
  BY <1>5, <1>8, MadeIds
<1>17. NoneComes
  BY <1>13 DEF NoneComes
<1>18. /\ q.stage \notin {"done", "failed"} => Shaped(q, r) /\ Sound(q)' /\ ToBePlaced(q)' /\ M!Writes(q) \subseteq M!Writes(req[r])
       /\ q.stage \notin {"new", "addGlobal"} /\ q.kind # "login" /\ (q.stage # "done" => q.row \notin M!Global)
  BY <1>1, <1>3, <1>5, <1>6, <1>14
<1> QED  BY <1>1, <1>2, <1>6, <1>7, <1>9, <1>12, <1>13, <1>15, <1>16, <1>17, <1>18, WriteKeeps

(* rejectAwaitingUser saves the organization with one less that asks.      *)
LEMMA SaveRejectedKeeps ==
    ASSUME MembershipInv, NEW r \in Request, M!SaveRejected(r)
    PROVE  MembershipInv'
<1>1. PICK c : c = req[r]
  OBVIOUS
<1> DEFINE mine == M!Users \X {c.org}
<1>2. /\ c.stage = "saveOrg" /\ c.kind = "reject" /\ M!Busy(r) /\ M!Answer(r, "done")
      /\ M!Written(c.org, mine, c.list) /\ granted' = granted \ {<<c.row, c.org>>}
      /\ UNCHANGED <<named, kombit, contended, hurt, slipped, raced, faults>>
  BY <1>1 DEF M!SaveRejected, M!At, M!Busy
<1>3. c \in M!Req /\ Shaped(c, r) /\ Sound(c)
  BY <1>1, <1>2, ReqOf
<1>4. c.row \in M!Users /\ c.todo \subseteq M!Orgs /\ c.org \in c.todo /\ c.list \subseteq mine
  BY <1>2, <1>3 DEF Shaped, UserShaped
<1>5. /\ M!Users \cup M!Orgs \subseteq M!Id /\ c.org \notin M!PermId \cup M!Apps
      /\ M!Users \cap (M!Apps \cup M!PermId) = {}
  BY <1>4, MemberConstants
<1>6. PICK q : Turns(r, q) /\ q.kind = c.kind /\ q.stage = "done"
  BY <1>1, <1>2, AnswerOf DEF MembershipInv
<1>7. rows' \subseteq M!Id /\ rows \subseteq rows' /\ links' \subseteq rows' \X rows'
  <2>1. c.org \in M!Id /\ c.list \in SUBSET (M!Id \X M!Id)
    BY <1>3, <1>4, <1>5 DEF M!Req
  <2> QED  BY <1>2, <2>1, WrittenTyped DEF MembershipInv
<1>8. rows' = rows \cup {c.org} /\ links' = (links \ mine) \cup c.list
  BY <1>2 DEF M!Written
<1>9. granted' \subseteq M!Id \X M!Id
  BY <1>2 DEF MembershipInv, MemberTyped, M!TypeOK
<1>10. mine \subseteq M!Writes(c) /\ <<c.row, c.org>> \in mine
  BY <1>2, <1>4 DEF M!Writes
<1>11. \A x \in mine \ Excused : x \in c.list <=> x \in granted'
  BY <1>2, <1>3 DEF Sound, SameOn
<1>12. \A x : x \notin M!Writes(c) => (x \in links' <=> x \in links) /\ (x \in granted' <=> x \in granted)
  BY <1>2, <1>4, <1>8, <1>10
<1>13. \A x \in M!Apps \cup M!PermId, o \in M!Orgs : <<x, o>> \in links <=> <<x, o>> \in links'
  BY <1>4, <1>5, <1>8
<1>14. \A x \in M!Writes(c) \ Excused : x \in links' <=> x \in granted'
  <2> SUFFICES ASSUME NEW x \in M!Writes(c) \ Excused PROVE x \in links' <=> x \in granted'
    OBVIOUS
  <2>1. CASE x \in mine
    BY <1>8, <1>11, <2>1
  <2>2. CASE x \notin mine
    <3>1. x \in links <=> x \in granted
      BY <1>1, <1>2, AgreedOf DEF Unwritten
    <3> QED  BY <1>2, <1>4, <1>8, <1>10, <2>2, <3>1
  <2> QED  BY <2>1, <2>2
<1>15. rows' \cap M!Global = rows \cap M!Global /\ \A x \in rows' \ rows : x \notin M!Apps \cup (M!PermId \ M!Global)
  BY <1>5, <1>8, MadeIds
<1>16. NoneComes
  BY <1>13 DEF NoneComes
<1> QED  BY <1>1, <1>2, <1>6, <1>7, <1>9, <1>12, <1>13, <1>14, <1>15, <1>16, WriteKeeps

(* A save after which requests to come may write more.                     *)
LEMMA ClaimKeeps ==
    ASSUME MembershipInv, NEW r \in Request, M!Busy(r), NEW q, Turns(r, q), M!Claim,
           UNCHANGED <<hurt, slipped, raced, faults>>, named' \subseteq M!Id, kombit' \subseteq M!Users \cap rows',
           rows \subseteq rows', rows' \subseteq M!Id, links' \subseteq rows' \X rows', granted' \subseteq M!Id \X M!Id,
           \A x : x \notin M!Writes(req[r]) => (x \in links' <=> x \in links) /\ (x \in granted' <=> x \in granted),
           \A x \in M!Apps \cup M!PermId, o \in M!Orgs : <<x, o>> \in links => Placed(x, links)',
           \A x \in rows' \ rows : x \in M!Apps \cup (M!PermId \ M!Global) => Placed(x, links)',
           \A p \in M!Global, o \in M!Orgs : <<p, o>> \notin links' \ links,
           q.stage # "new", q.stage \notin {"done", "failed"} => Shaped(q, r) /\ Sound(q)' /\ ToBePlaced(q)',
           \A x \in M!Writes(req[r]) \ Excused :
               (x \in links' <=> x \in granted') \/ (q.stage # "done" /\ x \in Unwritten(q))
    PROVE  MemberTyped' /\ Shapes' /\ Claimed' /\ Agreed' /\ ListsSound' /\ RowsPlaced' /\ SavedPlaced'
<1>1. contended \subseteq contended' /\ Excused \subseteq Excused'
  BY DEF M!Claim, Excused
<1>2. Apart(r)
  BY <1>1 DEF Apart
<1>3. Shapes' /\ Claimed' /\ Agreed' /\ ListsSound' /\ SavedPlaced'
  <2>1. \A x \in M!Writes(req[r]) \ Excused' :
            \/ x \in links' <=> x \in granted'
            \/ q.stage \notin {"new", "done", "failed"} /\ x \in Unwritten(q)
    BY <1>1 DEF Unwritten
  <2>2. Claimed'
    BY ClaimedByClaim
  <2> QED  BY <1>2, <2>1, <2>2, TurnKeeps
<1>4. RowsPlaced'
  BY <1>1, PlacesStay
<1>5. MemberTyped'
  <2>1. req' \in [Request -> M!Req]
    BY DEF MembershipInv, MemberTyped, Turns
  <2>2. contended' \subseteq M!Id \X M!Id
    BY <1>3, <2>1, ClaimTyped DEF MembershipInv
  <2> QED  BY <2>1, <2>2 DEF MembershipInv, MemberTyped, M!TypeOK
<1> QED  BY <1>3, <1>4, <1>5

(* create, the second save: the organization's permissions.                *)
LEMMA SaveDefaultsKeeps ==
    ASSUME MembershipInv, NEW r \in Request, M!SaveDefaults(r)
    PROVE  MembershipInv'
<1>1. PICK c : c = req[r]
  OBVIOUS
<1> DEFINE ds == M!Defaults(c.row)
<1>2. /\ c.stage = "defaults" /\ c.row \in rows /\ M!Busy(r) /\ M!Answer(r, "done") /\ M!Claim
      /\ rows' = rows \cup ds /\ links' = links \cup ds \X {c.row}
      /\ UNCHANGED <<named, kombit, granted, hurt, slipped, raced, faults>>
  BY <1>1 DEF M!SaveDefaults, M!At, M!Busy
<1>3. c \in M!Req /\ Shaped(c, r) /\ Sound(c) /\ c.kind = "createOrg"
  BY <1>1, <1>2, ReqOf, KindAt
<1>4. c.row \in M!Orgs
  BY <1>3 DEF Shaped, PermissionShaped
<1>5. ds \subseteq M!PermId \ M!Global /\ M!PermId \subseteq M!Id /\ M!PermId \cap M!Orgs = {}
  BY <1>4, MadeIds, MemberConstants
<1>6. PICK q : Turns(r, q) /\ q.kind = c.kind /\ q.stage = "done"
  BY <1>1, <1>2, AnswerOf DEF MembershipInv
<1>7. ds \X {c.row} \subseteq M!Writes(c) /\ Unwritten(c) = ds \X {c.row}
  BY <1>2, <1>3 DEF M!Writes, Unwritten
<1>8. ds \X {c.row} \subseteq granted \cup Excused
  BY <1>2, <1>3 DEF Sound
<1> HIDE DEF ds
<1>9. rows \subseteq rows' /\ rows' \subseteq M!Id /\ links' \subseteq rows' \X rows' /\ granted' \subseteq M!Id \X M!Id
  BY <1>2, <1>5 DEF MembershipInv, MemberTyped, M!TypeOK
<1>10. \A x : x \notin M!Writes(c) => (x \in links' <=> x \in links) /\ (x \in granted' <=> x \in granted)
  BY <1>2, <1>7
<1>11. \A x \in M!Writes(c) \ Excused : x \in links' <=> x \in granted'
  <2> SUFFICES ASSUME NEW x \in M!Writes(c) \ Excused PROVE x \in links' <=> x \in granted'
    OBVIOUS
  <2>1. CASE x \in ds \X {c.row}
    BY <1>2, <1>8, <2>1
  <2>2. CASE x \notin ds \X {c.row}
    <3>1. x \in links <=> x \in granted
      BY <1>1, <1>2, <1>7, <2>2, AgreedOf
    <3> QED  BY <1>2, <2>2, <3>1
  <2> QED  BY <2>1, <2>2
<1>12. \A x \in M!Apps \cup M!PermId, o \in M!Orgs : <<x, o>> \in links => Placed(x, links)'
  BY <1>2 DEF Placed
<1>13. \A x \in rows' \ rows : Placed(x, links)'
  <2> SUFFICES ASSUME NEW x \in ds PROVE Placed(x, links)'
    BY <1>2
  <2>1. <<x, c.row>> \in links' /\ <<x, c.row>> \in {x} \X M!Orgs
    BY <1>2, <1>4
  <2> QED  BY <2>1 DEF Placed
<1>14. \A p \in M!Global, o \in M!Orgs : <<p, o>> \notin links' \ links
  BY <1>2, <1>5
<1>15. named' \subseteq M!Id /\ kombit' \subseteq M!Users \cap rows'
  BY <1>2 DEF MembershipInv, MemberTyped, M!TypeOK
<1>16. MemberTyped' /\ Shapes' /\ Claimed' /\ Agreed' /\ ListsSound' /\ RowsPlaced' /\ SavedPlaced'
  BY <1>1, <1>2, <1>6, <1>9, <1>10, <1>11, <1>12, <1>13, <1>14, <1>15, ClaimKeeps
<1>17. OneGlobal' /\ GlobalThere' /\ OneKombit'
  BY <1>2, <1>5, <1>6, OnesStay
<1> QED  BY <1>16, <1>17 DEF MembershipInv

(* autoAddPermissionsToApplication reads the permissions that take new     *)
(* applications: the application is promised to each, and still to write.  *)
LEMMA FindAutoAddingKeeps ==
    ASSUME MembershipInv, NEW r \in Request, M!FindAutoAdding(r)
    PROVE  MembershipInv'
<1>1. PICK c, ps : c = req[r] /\ ps = M!AutoAdding(c.org)
  OBVIOUS
<1>2. /\ c.stage = "auto" /\ M!Busy(r)
      /\ UNCHANGED <<rows, links, named, kombit, contended, hurt, slipped, raced, faults>>
      /\ granted' = granted \cup {c.row} \X ps
  BY <1>1 DEF M!FindAutoAdding, M!At, M!Busy, M!stores, M!AutoAdding, M!Of
<1>3. c \in M!Req /\ Shaped(c, r) /\ c.kind = "createApp"
  BY <1>1, <1>2, ReqOf, KindAt
<1>4. c.row \in M!Apps /\ c.org \in M!Orgs /\ c.give \subseteq M!PermId /\ c.list = {}
  BY <1>2, <1>3 DEF Shaped, ApplicationShaped
<1>5. ps \subseteq {p \in M!PermId : p[2] = "auto" /\ <<p, c.org>> \in links}
  BY <1>1 DEF M!AutoAdding, M!Of
<1>6. M!Apps \cup M!PermId \subseteq M!Id /\ c.row \notin M!Global
  BY <1>4, MemberConstants, MadeIds
<1>7. M!Writes(c) = M!Apps \X ps \cup ps \X {c.org} /\ Unwritten(c) = {}
  BY <1>1, <1>2, <1>3, <1>4 DEF M!Writes, M!Scope, M!AutoAdding, Unwritten
<1> DEFINE list == (links \cap (M!Apps \X ps)) \cup {c.row} \X ps
<1>8. list \subseteq M!Apps \X ps
  BY <1>4
<1>9. PICK q : /\ Turns(r, q) /\ q.kind = "createApp"
               /\ \/ q.stage = "done" /\ ps = {}
                  \/ /\ q.stage = "share" /\ q.row = c.row /\ q.org = c.org /\ q.give = c.give
                     /\ q.todo = ps /\ q.list = list
  <2>1. CASE ps = {}
    <3>1. M!Answer(r, "done")
      BY <1>1, <2>1 DEF M!FindAutoAdding
    <3> QED  BY <1>1, <1>3, <2>1, <3>1, AnswerOf DEF MembershipInv
  <2>2. CASE ps # {}
    <3>1. PICK d : d = [c EXCEPT !.stage = "share", !.todo = ps, !.list = list]
      OBVIOUS
    <3>2. /\ d \in M!Req /\ d.kind = "createApp" /\ d.stage = "share" /\ d.row = c.row /\ d.org = c.org
          /\ d.give = c.give /\ d.todo = ps /\ d.list = list
      <4>1. list \in SUBSET (M!Id \X M!Id) /\ ps \in SUBSET M!Id
        BY <1>5, <1>6, <1>8
      <4> HIDE DEF list
      <4> QED  BY <1>3, <3>1, <4>1 DEF M!Req
    <3>3. req' = [req EXCEPT ![r] = d]
      BY <1>1, <2>2, <3>1 DEF M!FindAutoAdding
    <3> QED  BY <3>2, <3>3 DEF Turns
  <2> QED  BY <2>1, <2>2
<1>10. ASSUME NEW x \in M!Writes(c), x \notin Excused PROVE x \in links <=> x \in granted
  BY <1>1, <1>2, <1>7, <1>10, AgreedOf
<1>11. granted' \subseteq M!Id \X M!Id /\ {c.row} \X ps \subseteq M!Writes(c)
  BY <1>2, <1>4, <1>5, <1>6, <1>7 DEF MembershipInv, MemberTyped, M!TypeOK
<1>12. q.stage # "done" => Shaped(q, r) /\ Sound(q)' /\ ToBePlaced(q)' /\ M!Writes(q) \subseteq M!Writes(c)
  <2> SUFFICES ASSUME q.stage # "done" PROVE Shaped(q, r) /\ Sound(q)' /\ ToBePlaced(q)' /\ M!Writes(q) \subseteq M!Writes(c)
    OBVIOUS
  <2>1. Shaped(q, r)
    <3>1. q.list \subseteq M!Apps \X M!PermId
      BY <1>5, <1>8, <1>9
    <3> QED  BY <1>4, <1>5, <1>9, <3>1 DEF Shaped, NewUserShaped, UserShaped, PermissionShaped, ApplicationShaped
  <2>2. Sound(q)'
    <3>1. \A x \in M!Apps \X ps : x \in q.list <=> x \in links \/ x \in {c.row} \X ps
      BY <1>9
    <3>2. M!Apps \X ps \subseteq M!Writes(c)
      BY <1>7
    <3>3. SameOn(M!Apps \X q.todo, q.list, granted)'
      BY <1>2, <1>9, <1>10, <3>1, <3>2 DEF SameOn, Excused
    <3> QED  BY <1>9, <3>3 DEF Sound
  <2>3. ToBePlaced(q)'
    BY <1>2, <1>5, <1>9 DEF ToBePlaced
  <2>4. M!Writes(q) \subseteq M!Writes(c)
    <3>1. M!Writes(q) = q.list \cup M!Apps \X ps \cup ps \X {c.org}
      BY <1>9 DEF M!Writes, M!Scope
    <3> QED  BY <1>7, <1>8, <1>9, <3>1
  <2> QED  BY <2>1, <2>2, <2>3, <2>4
<1>13. ASSUME NEW x \in M!Writes(c), x \notin Excused PROVE (x \in links' <=> x \in granted') \/ (q.stage # "done" /\ x \in Unwritten(q))
  <2>1. x \in links <=> x \in granted
    BY <1>10, <1>13
  <2>2. CASE x \in {c.row} \X ps
    <3>1. q.stage = "share" /\ q.row = c.row /\ q.todo = ps
      BY <1>9, <2>2
    <3> QED  BY <2>2, <3>1 DEF Unwritten
  <2>3. CASE x \notin {c.row} \X ps
    BY <1>2, <2>1, <2>3
  <2> QED  BY <2>2, <2>3
<1>14. NoneComes /\ rows' = rows /\ rows' \subseteq M!Id /\ links' \subseteq rows' \X rows' /\ links' = links
  BY <1>2 DEF NoneComes, MembershipInv, MemberTyped, M!TypeOK
<1>15. \A x : x \notin M!Writes(c) => (x \in links' <=> x \in links) /\ (x \in granted' <=> x \in granted)
  BY <1>2, <1>11
<1>16. q.stage \notin {"new", "addGlobal"} /\ q.kind # "login" /\ (q.stage # "done" => q.row \notin M!Global)
  BY <1>6, <1>9
<1> HIDE DEF list
<1> QED  BY <1>1, <1>2, <1>9, <1>11, <1>12, <1>13, <1>14, <1>15, <1>16, WriteKeeps

(* autoAddPermissionsToApplication saves one of the permissions.           *)
LEMMA ShareKeeps ==
    ASSUME MembershipInv, NEW r \in Request, NEW p, M!Share(r, p)
    PROVE  MembershipInv'
<1>1. PICK c : c = req[r]
  OBVIOUS
<1> DEFINE mine == M!Apps \X {p}
<1>2. /\ c.stage = "share" /\ p \in c.todo /\ M!Busy(r) /\ M!Written(p, mine, c.list \cap mine)
      /\ UNCHANGED <<named, kombit, granted, contended, hurt, slipped, raced, faults>>
  BY <1>1 DEF M!Share, M!At, M!Busy, M!history
<1>3. c \in M!Req /\ Shaped(c, r) /\ Sound(c) /\ ToBePlaced(c) /\ c.kind = "createApp"
  BY <1>1, <1>2, ReqOf, KindAt
<1>4. /\ c.row \in M!Apps /\ c.org \in M!Orgs /\ c.give \subseteq M!PermId
      /\ c.todo \subseteq {x \in M!PermId : x[2] = "auto"} /\ c.list \subseteq M!Apps \X M!PermId
  BY <1>2, <1>3 DEF Shaped, ApplicationShaped
<1>5. /\ p \in M!PermId /\ p \notin M!Global /\ p \notin M!Orgs /\ c.row \notin M!Global
      /\ M!Apps \cup M!PermId \cup M!Orgs \subseteq M!Id /\ M!Apps \cap M!PermId = {}
  BY <1>2, <1>4, MemberConstants, MadeIds
<1>6. PICK q : /\ Turns(r, q) /\ q.kind = "createApp"
               /\ \/ q.stage = "done" /\ c.todo = {p}
                  \/ /\ q.stage = "share" /\ q.row = c.row /\ q.org = c.org /\ q.give = c.give
                     /\ q.todo = c.todo \ {p} /\ q.list = c.list
  <2>1. CASE c.todo = {p}
    <3>1. M!Answer(r, "done")
      BY <1>1, <2>1 DEF M!Share
    <3> QED  BY <1>1, <1>3, <2>1, <3>1, AnswerOf DEF MembershipInv
  <2>2. CASE c.todo # {p}
    <3>1. PICK d : d = [c EXCEPT !.todo = @ \ {p}]
      OBVIOUS
    <3>2. /\ d \in M!Req /\ d.kind = "createApp" /\ d.stage = "share" /\ d.row = c.row /\ d.org = c.org
          /\ d.give = c.give /\ d.todo = c.todo \ {p} /\ d.list = c.list
      BY <1>2, <1>3, <3>1 DEF M!Req
    <3>3. req' = [req EXCEPT ![r] = d]
      BY <1>1, <2>2, <3>1 DEF M!Share
    <3> QED  BY <3>2, <3>3 DEF Turns
  <2> QED  BY <2>1, <2>2
<1>7. rows' \subseteq M!Id /\ rows \subseteq rows' /\ links' \subseteq rows' \X rows'
  <2>1. p \in M!Id /\ c.list \cap mine \in SUBSET (M!Id \X M!Id)
    BY <1>3, <1>5 DEF M!Req
  <2> QED  BY <1>2, <2>1, WrittenTyped DEF MembershipInv
<1>8. rows' = rows \cup {p} /\ links' = (links \ mine) \cup (c.list \cap mine)
  BY <1>2 DEF M!Written
<1>9. M!Apps \X c.todo \cup c.todo \X {c.org} \cup c.list \subseteq M!Writes(c) /\ mine \subseteq M!Writes(c)
  BY <1>2, <1>3 DEF M!Writes
<1>10. \A x \in M!Apps \X c.todo : x \notin Excused => (x \in c.list <=> x \in granted)
  BY <1>2, <1>3 DEF Sound, SameOn
<1>11. \A x : x \notin M!Writes(c) => (x \in links' <=> x \in links) /\ (x \in granted' <=> x \in granted)
  BY <1>2, <1>8, <1>9
<1>12. \A x \in M!Apps \cup M!PermId, o \in M!Orgs : <<x, o>> \in links <=> <<x, o>> \in links'
  BY <1>5, <1>8
<1>13. q.stage # "done" => Shaped(q, r) /\ Sound(q)' /\ ToBePlaced(q)' /\ M!Writes(q) \subseteq M!Writes(c)
  <2> SUFFICES ASSUME q.stage # "done" PROVE Shaped(q, r) /\ Sound(q)' /\ ToBePlaced(q)' /\ M!Writes(q) \subseteq M!Writes(c)
    OBVIOUS
  <2>1. Shaped(q, r)
    BY <1>4, <1>6 DEF Shaped, NewUserShaped, UserShaped, PermissionShaped, ApplicationShaped
  <2>2. Sound(q)'
    <3>1. SameOn(M!Apps \X q.todo, q.list, granted)'
      BY <1>2, <1>6, <1>10 DEF SameOn, Excused
    <3> QED  BY <1>6, <3>1 DEF Sound
  <2>3. ToBePlaced(q)'
    <3>1. \A x \in c.todo : <<x, c.org>> \in links \cup contended \cup hurt
      BY <1>2, <1>3 DEF ToBePlaced
    <3> QED  BY <1>2, <1>4, <1>6, <1>12, <3>1 DEF ToBePlaced
  <2>4. M!Writes(q) \subseteq M!Writes(c)
    <3>1. M!Writes(q) = q.list \cup M!Apps \X q.todo \cup q.todo \X {q.org}
      BY <1>6 DEF M!Writes, M!Scope
    <3> QED  BY <1>6, <1>9, <3>1
  <2> QED  BY <2>1, <2>2, <2>3, <2>4
<1>14. ASSUME NEW x \in M!Writes(c), x \notin Excused PROVE (x \in links' <=> x \in granted') \/ (q.stage # "done" /\ x \in Unwritten(q))
  <2>1. CASE x \in mine
    BY <1>2, <1>8, <1>10, <1>14, <2>1
  <2>2. CASE x \notin mine
    <3>1. (x \in links <=> x \in granted) \/ x \in {c.row} \X c.todo
      BY <1>1, <1>2, <1>14, AgreedOf DEF Unwritten
    <3>2. ASSUME x \in {c.row} \X c.todo PROVE q.stage # "done" /\ x \in Unwritten(q)
      BY <1>4, <1>6, <2>2, <3>2 DEF Unwritten
    <3> QED  BY <1>2, <1>8, <2>2, <3>1, <3>2
  <2> QED  BY <2>1, <2>2
<1>15. rows' \cap M!Global = rows \cap M!Global
  BY <1>5, <1>8
<1>16. ASSUME NEW x \in rows' \ rows PROVE Placed(x, links)'
  <2>1. x = p
    BY <1>8, <1>16
  <2>2. <<p, c.org>> \in links \cup contended \cup hurt
    BY <1>2, <1>3 DEF ToBePlaced
  <2>3. <<p, c.org>> \in links' \cup contended' \cup hurt'
    BY <1>2, <1>4, <1>5, <1>12, <2>2
  <2>4. <<p, c.org>> \in {p} \X M!Orgs
    BY <1>4
  <2> QED  BY <2>1, <2>3, <2>4 DEF Placed
<1>17. NoneComes
  BY <1>12 DEF NoneComes
<1>18. q.stage \notin {"new", "addGlobal"} /\ q.kind # "login" /\ (q.stage # "done" => q.row \notin M!Global)
  BY <1>5, <1>6
<1>19. granted' \subseteq M!Id \X M!Id
  BY <1>2 DEF MembershipInv, MemberTyped, M!TypeOK
<1> QED  BY <1>1, <1>2, <1>6, <1>7, <1>11, <1>12, <1>13, <1>14, <1>15, <1>16, <1>17, <1>18, <1>19, WriteKeeps

(* A save: the links it is for become those of the list, which are the     *)
(* ones promised now.                                                      *)
LEMMA SaveAgrees ==
    ASSUME MembershipInv, NEW r \in Request, M!Save(r), NEW x \in M!Writes(req[r]) \ Excused
    PROVE  \/ x \in links' <=> x \in granted'
           \/ req[r].kind = "createOrg" /\ x \in M!Defaults(req[r].row) \X {req[r].row}
<1>1. PICK c : c = req[r]
  OBVIOUS
<1>2. /\ c.stage = "save" /\ M!Busy(r) /\ granted' = M!Promised(c)
      /\ links' = (links \ M!Scope(c)) \cup M!ListOf(c)
  BY <1>1 DEF M!Save, M!At, M!Busy, M!Written
<1>3. c \in M!Req /\ Shaped(c, r) /\ Sound(c)
  BY <1>1, <1>2, ReqOf
<1>4. SameOn(M!Scope(c) \cup c.list, c.list, M!Promised(c))
  BY <1>2, <1>3 DEF Sound
<1>5. CASE x \in M!Scope(c) \cup c.list
  <2>1. x \in c.list <=> x \in M!ListOf(c)
    BY <1>3, <1>5 DEF Sound, M!ListOf
  <2>2. M!ListOf(c) \subseteq c.list
    BY DEF M!ListOf
  <2> QED  BY <1>2, <1>4, <1>5, <2>1, <2>2 DEF SameOn
<1>6. CASE x \notin M!Scope(c) \cup c.list
  <2>1. x \in links' <=> x \in links
    BY <1>2, <1>6 DEF M!ListOf
  <2>2. x \in links <=> x \in granted
    BY <1>1, <1>2, AgreedOf DEF Unwritten
  <2>3. granted \subseteq M!Id \X M!Id
    BY DEF MembershipInv, MemberTyped, M!TypeOK
  <2>4. x \in granted' <=> x \in granted \/ x \in M!Given(c)
    <3>1. x \in granted => x \notin M!Taken(c)
      BY <1>2, <1>3, <1>6, <2>3, SaveScope
    <3> QED  BY <1>2, <3>1 DEF M!Promised
  <2>5. x \in M!Given(c) => c.kind = "createOrg" /\ x \in M!Defaults(c.row) \X {c.row}
    BY <1>2, <1>3, <1>6, SaveScope
  <2> QED  BY <1>1, <2>1, <2>2, <2>4, <2>5
<1> QED  BY <1>5, <1>6

(* A save leaves what goes with an organization something of it: an update *)
(* of an application names its organization, and one of an organization    *)
(* has all its permissions in the list.                                    *)
LEMMA SavePlaces ==
    ASSUME MembershipInv, NEW r \in Request, M!Save(r), NEW x \in M!Apps \cup M!PermId
    PROVE  /\ \A o \in M!Orgs : <<x, o>> \in links => Placed(x, links)'
           /\ x \in rows' \ rows /\ x \notin M!Global => Placed(x, links)'
           /\ x \in M!Global => \A o \in M!Orgs : <<x, o>> \notin links' \ links
<1>1. PICK c : c = req[r]
  OBVIOUS
<1>2. /\ c.stage = "save" /\ M!Busy(r) /\ rows' = rows \cup {c.row}
      /\ links' = (links \ M!Scope(c)) \cup M!ListOf(c) /\ hurt' = hurt /\ contended \subseteq contended'
  BY <1>1 DEF M!Save, M!At, M!Busy, M!Written, M!Claim
<1>3. c \in M!Req /\ Shaped(c, r) /\ Sound(c) /\ ToBePlaced(c)
  BY <1>1, <1>2, ReqOf
<1>4. /\ M!Apps \cap M!Users = {} /\ M!PermId \cap M!Users = {} /\ M!Apps \cap M!Keys = {} /\ M!PermId \cap M!Keys = {}
      /\ M!Apps \cap M!Orgs = {} /\ M!PermId \cap M!Orgs = {} /\ M!Apps \cap M!PermId = {} /\ M!Users \cap M!Orgs = {}
  BY MemberConstants
<1>5. ASSUME NEW o \in M!Orgs, <<x, o>> \in links' \cup contended' \cup hurt' PROVE Placed(x, links)'
  <2>1. <<x, o>> \in {x} \X M!Orgs
    OBVIOUS
  <2> QED  BY <1>5, <2>1 DEF Placed
<1>6. ASSUME c.kind \in {"createApp", "updateApp"}
      PROVE  c.row \in M!Apps /\ c.org \in M!Orgs /\ <<c.row, c.org>> \in links'
  <2>1. c.row \in M!Apps /\ c.org \in M!Orgs /\ c.list = {c.row} \X (c.give \cup {c.org})
    BY <1>2, <1>3, <1>6 DEF Shaped, ApplicationShaped
  <2> QED  BY <1>2, <1>6, <2>1 DEF M!ListOf
<1>7. ASSUME NEW o \in M!Orgs, <<x, o>> \in links PROVE Placed(x, links)'
  <2>1. CASE <<x, o>> \notin M!Scope(c)
    <3>1. <<x, o>> \in links'
      BY <1>2, <1>7, <2>1
    <3> QED  BY <1>5, <3>1
  <2>2. CASE <<x, o>> \in M!Scope(c) /\ c.kind = "updateApp"
    <3>1. x = c.row
      BY <2>2 DEF M!Scope
    <3> QED  BY <1>5, <1>6, <2>2, <3>1
  <2>3. CASE <<x, o>> \in M!Scope(c) /\ c.kind = "updateOrg"
    <3>1. CASE <<x, o>> \in Excused
      BY <1>2, <1>4, <1>5, <3>1 DEF Excused, MembershipInv, MemberTyped
    <3>2. CASE <<x, o>> \notin Excused
      <4>1. <<x, o>> \in M!Writes(c) \ Excused
        BY <2>3, <3>2 DEF M!Writes
      <4>2. <<x, o>> \in granted
        BY <1>1, <1>2, <1>7, <4>1, AgreedOf DEF Unwritten
      <4>3. M!Promised(c) = granted
        BY <1>3, <2>3 DEF M!Promised, M!Taken, M!Given, Shaped, PermissionShaped
      <4>4. <<x, o>> \in c.list
        BY <1>2, <1>3, <2>3, <3>2, <4>2, <4>3 DEF Sound, SameOn
      <4>5. <<x, o>> \in M!ListOf(c)
        BY <1>3, <2>3, <3>2, <4>4 DEF Sound, M!ListOf
      <4> QED  BY <1>2, <1>5, <4>5
    <3> QED  BY <3>1, <3>2
  <2>4. ASSUME c.kind \notin {"updateApp", "updateOrg"} PROVE <<x, o>> \notin M!Scope(c)
    <3>1. c.kind \in {"promote", "demote", "accept", "askFirst"} => c.row \in M!Users
      BY <1>3 DEF Shaped, UserShaped
    <3>2. c.kind = "updateKey" => c.row \in M!Keys
      BY <1>3 DEF Shaped, ApplicationShaped
    <3>3. c.kind \in {"updatePermission", "updateWithoutUsers"} => c.row \in M!PermId
      BY <1>3 DEF Shaped, PermissionShaped
    <3> QED  BY <1>4, <2>4, <3>1, <3>2, <3>3 DEF M!Scope
  <2> QED  BY <2>1, <2>2, <2>3, <2>4
<1>8. ASSUME x \in rows' \ rows, x \notin M!Global PROVE Placed(x, links)'
  <2>1. x = c.row
    BY <1>2, <1>8
  <2>2. CASE c.kind \in {"createApp", "updateApp"}
    BY <1>5, <1>6, <2>1, <2>2
  <2>3. CASE c.kind = "createPermission"
    <3>1. c.org \in M!Orgs /\ <<c.row, c.org>> \in M!ListOf(c)
      BY <1>3, <2>3 DEF Shaped, PermissionShaped, M!ListOf
    <3> QED  BY <1>2, <1>5, <2>1, <3>1
  <2>4. CASE c.kind \in {"updatePermission", "updateWithoutUsers"}
    <3>1. Placed(x, c.list) /\ M!ListOf(c) = c.list
      BY <1>3, <1>8, <2>1, <2>4 DEF ToBePlaced, M!ListOf
    <3> QED  BY <1>2, <3>1 DEF Placed
  <2>5. c.kind \in {"createUser", "createAdmin", "login", "promote", "demote", "accept", "askFirst"} => c.row \in M!Users
    BY <1>3, MadeIds DEF Shaped, NewUserShaped, UserShaped
  <2>6. c.kind \in {"createKey", "updateKey"} => c.row \in M!Keys
    BY <1>3 DEF Shaped, ApplicationShaped
  <2>7. c.kind \in {"createOrg", "updateOrg"} => c.row \in M!Orgs
    BY <1>3 DEF Shaped, PermissionShaped
  <2>8. c.kind \notin {"none", "delete", "ask", "reject"}
    BY <1>2, <1>3 DEF Shaped, UserShaped
  <2> QED  BY <1>3, <1>4, <2>1, <2>2, <2>3, <2>4, <2>5, <2>6, <2>7, <2>8 DEF M!Req
<1>9. ASSUME x \in M!Global, NEW o \in M!Orgs, <<x, o>> \in links', <<x, o>> \notin links PROVE FALSE
  <2>1. <<x, o>> \in c.list /\ x \in M!PermId
    BY <1>2, <1>9, MadeIds DEF M!ListOf
  <2>2. CASE c.kind \in {"createUser", "createAdmin", "login", "promote", "demote", "accept", "askFirst"}
    <3>1. c.row \in M!Users
      BY <1>3, <2>2, MadeIds DEF Shaped, NewUserShaped, UserShaped
    <3>2. \A y \in c.list : y[1] = c.row
      BY <1>2, <1>3, <2>2 DEF Shaped, NewUserShaped, UserShaped
    <3> QED  BY <1>4, <2>1, <3>1, <3>2
  <2>3. CASE c.kind \in {"createPermission", "updatePermission", "updateWithoutUsers"}
    <3>1. c.kind = "createPermission" => c.row \notin M!Global /\ \A y \in c.list : y = <<c.row, c.org>> \/ y[2] = c.row
      BY <1>3 DEF Shaped, PermissionShaped
    <3>2. c.kind # "createPermission" =>
            /\ \A y \in c.list : y \in {c.row} \X M!Orgs \/ y[2] = c.row
            /\ c.row \in M!Global => c.list \cap ({c.row} \X M!Orgs) = {}
      BY <1>3, <2>3 DEF Shaped, PermissionShaped
    <3>3. c.row \in M!PermId
      BY <1>3, <2>3 DEF Shaped, PermissionShaped
    <3>4. o # c.row
      BY <1>4, <3>3
    <3> QED  BY <1>9, <2>1, <2>3, <3>1, <3>2, <3>4
  <2>4. CASE c.kind \in {"createOrg", "updateOrg"}
    BY <1>3, <1>9, <2>1, <2>4 DEF Shaped, PermissionShaped
  <2>5. CASE c.kind \in {"createApp", "updateApp", "createKey", "updateKey"}
    <3>1. c.row \in M!Apps \cup M!Keys /\ \A y \in c.list : y[1] = c.row
      BY <1>2, <1>3, <2>5 DEF Shaped, ApplicationShaped
    <3> QED  BY <1>4, <2>1, <3>1
  <2>6. c.kind \notin {"none", "delete", "ask", "reject"}
    BY <1>2, <1>3 DEF Shaped, UserShaped
  <2> QED  BY <1>3, <2>2, <2>3, <2>4, <2>5, <2>6 DEF M!Req
<1> QED  BY <1>7, <1>8, <1>9

(* Repository.save of what a request has read and edited.                  *)
LEMMA SaveKeeps ==
    ASSUME MembershipInv, NEW r \in Request, M!Save(r)
    PROVE  MembershipInv'
<1>1. PICK c : c = req[r]
  OBVIOUS
<1>2. /\ c.stage = "save" /\ M!Busy(r) /\ M!Written(c.row, M!Scope(c), M!ListOf(c)) /\ granted' = M!Promised(c)
      /\ M!Claim /\ UNCHANGED <<hurt, slipped, raced, faults>>
      /\ named' = IF c.kind \in {"askFirst", "createUser", "createAdmin"} THEN named \cup {c.row} ELSE named
      /\ kombit' = IF c.kind = "login" THEN kombit \cup {c.row} ELSE kombit
  BY <1>1 DEF M!Save, M!At, M!Busy
<1>3. c \in M!Req /\ Shaped(c, r) /\ Sound(c) /\ ToBePlaced(c) /\ c.stage \notin {"new", "done", "failed"}
  BY <1>1, <1>2, ReqOf
<1>4. PICK q : /\ Turns(r, q) /\ q.kind = c.kind
               /\ \/ q.stage = "done" /\ M!AfterSave(c) = "done"
                  \/ /\ M!AfterSave(c) # "done" /\ q.stage = M!AfterSave(c) /\ q.row = c.row /\ q.org = c.org
                     /\ q.give = c.give /\ q.todo = c.todo /\ q.list = {}
  <2>1. CASE M!AfterSave(c) = "done"
    <3>1. M!Answer(r, "done")
      BY <1>1, <2>1 DEF M!Save
    <3> QED  BY <1>1, <2>1, <3>1, AnswerOf DEF MembershipInv
  <2>2. CASE M!AfterSave(c) # "done"
    <3>1. PICK d, s : s = M!AfterSave(c) /\ d = [c EXCEPT !.stage = s, !.list = {}]
      OBVIOUS
    <3>2. s \in {"defaults", "auto", "findOrg"}
      BY <2>2, <3>1 DEF M!AfterSave
    <3>3. /\ d \in M!Req /\ d.kind = c.kind /\ d.stage = s /\ d.row = c.row /\ d.org = c.org
          /\ d.give = c.give /\ d.todo = c.todo /\ d.list = {}
      BY <1>3, <3>1, <3>2 DEF M!Req
    <3>4. req' = [req EXCEPT ![r] = d]
      BY <1>1, <2>2, <3>1 DEF M!Save
    <3> QED  BY <2>2, <3>1, <3>3, <3>4 DEF Turns
  <2> QED  BY <2>1, <2>2
<1>5. q.stage # "done" =>
        /\ \/ q.kind = "createOrg" /\ q.stage = "defaults"
           \/ q.kind = "createApp" /\ q.stage = "auto"
           \/ q.kind = "askFirst" /\ q.stage = "findOrg"
        /\ q.row = c.row /\ q.org = c.org /\ q.give = c.give /\ q.todo = c.todo /\ q.list = {}
  <2>1. M!AfterSave(c) # "done" =>
          \/ c.kind = "createOrg" /\ M!AfterSave(c) = "defaults"
          \/ c.kind = "createApp" /\ M!AfterSave(c) = "auto"
          \/ c.kind = "askFirst" /\ M!AfterSave(c) = "findOrg"
    BY DEF M!AfterSave
  <2> QED  BY <1>4, <2>1
<1>6. q.stage = "done" => q.kind # "createOrg"
  <2>1. c.kind = "createOrg" => M!AfterSave(c) = "defaults"
    BY DEF M!AfterSave
  <2> QED  BY <1>4, <2>1
<1>7. M!Writes(c) \subseteq M!Id \X M!Id /\ c.row \in M!Id
  BY <1>3, WritesTyped, RowTyped
<1>8. M!ListOf(c) \subseteq c.list /\ M!Scope(c) \cup c.list \subseteq M!Writes(c)
  BY <1>3, WritesAll DEF M!ListOf
<1>9. rows' \subseteq M!Id /\ rows \subseteq rows' /\ links' \subseteq rows' \X rows'
  <2>1. M!ListOf(c) \in SUBSET (M!Id \X M!Id)
    BY <1>7, <1>8
  <2> QED  BY <1>2, <1>7, <2>1, WrittenTyped DEF MembershipInv
<1>10. rows' = rows \cup {c.row} /\ links' = (links \ M!Scope(c)) \cup M!ListOf(c)
  BY <1>2 DEF M!Written
<1>11. /\ granted' \subseteq M!Id \X M!Id
       /\ \A x : x \notin M!Writes(c) => (x \in links' <=> x \in links) /\ (x \in granted' <=> x \in granted)
  <2>1. (M!Taken(c) \cap (M!Id \X M!Id)) \cup M!Given(c) \subseteq M!Writes(c) /\ granted \subseteq M!Id \X M!Id
    BY <1>2, <1>3, WritesAll DEF MembershipInv, MemberTyped, M!TypeOK
  <2>2. granted' = (granted \ M!Taken(c)) \cup M!Given(c)
    BY <1>2 DEF M!Promised
  <2> QED  BY <1>7, <1>8, <1>10, <2>1, <2>2
<1>12. q.stage # "done" => Shaped(q, r) /\ Sound(q)' /\ ToBePlaced(q)'
  <2> SUFFICES ASSUME q.stage # "done" PROVE Shaped(q, r) /\ Sound(q)' /\ ToBePlaced(q)'
    OBVIOUS
  <2>1. Shaped(q, r)
    BY <1>3, <1>4, <1>5 DEF Shaped, NewUserShaped, UserShaped, PermissionShaped, ApplicationShaped
  <2>2. Sound(q)'
    <3>1. CASE q.kind = "createOrg"
      <4>1. M!Defaults(c.row) \X {c.row} \subseteq granted'
        BY <1>2, <1>4, <3>1 DEF M!Promised, M!Given
      <4> QED  BY <1>5, <3>1, <4>1 DEF Sound
    <3>2. CASE q.kind # "createOrg"
      BY <1>5, <3>2 DEF Sound
    <3> QED  BY <3>1, <3>2
  <2>3. ToBePlaced(q)'
    BY <1>5 DEF ToBePlaced
  <2> QED  BY <2>1, <2>2, <2>3
<1>13. ASSUME NEW x \in M!Writes(c) \ Excused PROVE (x \in links' <=> x \in granted') \/ (q.stage # "done" /\ x \in Unwritten(q))
  <2>1. CASE c.kind = "createOrg" /\ x \in M!Defaults(c.row) \X {c.row}
    BY <1>4, <1>5, <1>6, <2>1 DEF Unwritten
  <2> QED  BY <1>1, <2>1, SaveAgrees
<1>14. /\ \A x \in M!Apps \cup M!PermId, o \in M!Orgs : <<x, o>> \in links => Placed(x, links)'
       /\ \A x \in rows' \ rows : x \in M!Apps \cup (M!PermId \ M!Global) => Placed(x, links)'
       /\ \A p \in M!Global, o \in M!Orgs : <<p, o>> \notin links' \ links
  BY SavePlaces, MadeIds, MemberConstants
<1>15. named' \subseteq M!Id /\ kombit' \subseteq M!Users \cap rows'
  <2>1. c.kind = "login" => c.row \in M!Users
    BY <1>3, MadeIds DEF Shaped, NewUserShaped
  <2> QED  BY <1>2, <1>7, <1>10, <2>1 DEF MembershipInv, MemberTyped, M!TypeOK
<1>16. q.stage # "new"
  BY <1>5
<1>17. MemberTyped' /\ Shapes' /\ Claimed' /\ Agreed' /\ ListsSound' /\ RowsPlaced' /\ SavedPlaced'
  <2>1. q.stage \notin {"done", "failed"} => Shaped(q, r) /\ Sound(q)' /\ ToBePlaced(q)'
    BY <1>12
  <2> QED  BY <1>1, <1>2, <1>4, <1>9, <1>11, <1>13, <1>14, <1>15, <1>16, <2>1, ClaimKeeps
<1>18. rows' \cap M!Global = rows \cap M!Global /\ (c.row \in M!Global => c.row \in rows)
  <2>1. c.row \in M!Global => c.row \in rows
    BY <1>1, <1>2 DEF MembershipInv, GlobalThere
  <2> QED  BY <1>10, <2>1
<1>19. OneGlobal' /\ GlobalThere'
  BY <1>2, <1>4, <1>5, <1>18, GlobalsStay
<1>20. OneKombit'
  <2>1. CASE c.kind # "login"
    <3>1. kombit' = kombit /\ q.kind # "login"
      BY <1>2, <1>4, <2>1
    <3> QED  BY <1>2, <1>4, <1>5, <1>18, <3>1, OnesStay
  <2>2. CASE c.kind = "login"
    <3> SUFFICES ASSUME "kombit" \notin raced PROVE OneKombit'
      BY <1>2 DEF OneKombit
    <3>1. LoggingIn(r)
      BY <1>1, <1>2, <2>2 DEF LoggingIn
    <3>2. kombit = {} /\ \A s \in Request : LoggingIn(s) => s = r
      BY <3>1 DEF MembershipInv, OneKombit
    <3>3. kombit' = {c.row}
      BY <1>2, <2>2, <3>2
    <3>4. req'[r] = q /\ \A s \in Request \ {r} : req'[s] = req[s]
      BY <1>4 DEF MembershipInv, MemberTyped, Turns
    <3>5. \A s \in Request : ~LoggingIn(s)'
      BY <1>4, <1>5, <2>2, <3>2, <3>4 DEF LoggingIn, M!Busy
    <3> QED  BY <3>3, <3>5 DEF OneKombit
  <2> QED  BY <2>1, <2>2
<1> QED  BY <1>17, <1>19, <1>20 DEF MembershipInv

(* A delete takes the links of what goes: whoever was about to write one   *)
(* is excused.                                                             *)
LEMMA DeleteKeeps ==
    ASSUME MembershipInv, NEW r \in Request, NEW e, M!Delete(r, e)
    PROVE  MembershipInv'
<1>1. PICK gone : gone = M!Cascade(e)
  OBVIOUS
<1>2. /\ req[r] = M!Idle /\ e \in rows \ (M!Global \cup M!Users) /\ M!Answer(r, "done")
      /\ rows' = rows \ gone
      /\ links' = links \ M!Touching(gone, links) /\ granted' = granted \ M!Touching(gone, granted)
      /\ contended' = contended \cup UNION {M!Touching(gone, M!Writes(req[p])) : p \in {p \in Request : M!Busy(p)}}
      /\ UNCHANGED <<named, kombit, hurt, slipped, raced, faults>>
  BY <1>1 DEF M!Delete
<1>3. gone = {e} \cup {x \in M!PermId \cup M!Apps : <<x, e>> \in links /\ e \in M!Orgs}
  BY <1>1 DEF M!Cascade
<1>4. /\ M!PermId \cap M!Users = {} /\ M!Apps \cap M!Users = {} /\ M!PermId \cap M!Orgs = {} /\ M!Apps \cap M!Orgs = {}
      /\ M!Global \subseteq M!PermId
  BY MemberConstants, MadeIds
<1>5. gone \cap M!Users = {} /\ gone \cap M!Global = {}
  BY <1>2, <1>3, <1>4 DEF MembershipInv, RowsPlaced
<1> DEFINE touched(x) == x[1] \in gone \/ x[2] \in gone
<1>6. \A x : (x \in links' <=> x \in links /\ ~touched(x)) /\ (x \in granted' <=> x \in granted /\ ~touched(x))
  BY <1>2 DEF M!Touching
<1>7. ~M!Busy(r) /\ contended \subseteq contended' /\ Excused \subseteq Excused'
  BY <1>2 DEF M!Busy, M!Idle, Excused
<1>8. ASSUME NEW s \in Request, M!Busy(s), NEW x \in M!Writes(req[s]), x \notin contended' PROVE ~touched(x)
  <2>1. x \notin M!Touching(gone, M!Writes(req[s]))
    BY <1>2, <1>8
  <2> QED  BY <1>8, <2>1 DEF M!Touching
<1>9. PICK q : Turns(r, q) /\ q.stage = "done" /\ q.kind = req[r].kind
  BY <1>2, AnswerOf DEF MembershipInv
<1>10. req'[r] = q /\ req' \in [Request -> M!Req] /\ \A s \in Request \ {r} : req'[s] = req[s]
  BY <1>9 DEF MembershipInv, MemberTyped, Turns
<1>11. \A s \in Request : M!Busy(s)' => s # r /\ M!Busy(s) /\ req'[s] = req[s]
  BY <1>9, <1>10 DEF M!Busy
<1>12. NoneComes
  BY <1>6 DEF NoneComes
<1> HIDE DEF touched
<1>13. Claimed'
  <2>1. ~M!Busy(r)'
    BY <1>11
  <2> QED  BY <1>7, <1>9, <1>12, <2>1, ClaimedStays DEF MembershipInv
<1>14. Agreed'
  <2> SUFFICES ASSUME NEW x, x \notin Excused', ~(x \in links' <=> x \in granted')
               PROVE  \E s \in Request : M!Busy(s)' /\ x \in Unwritten(req'[s])
    BY DEF Agreed
  <2>1. x \in links \cup granted /\ x \notin Excused /\ ~(x \in links <=> x \in granted)
    BY <1>6, <1>7
  <2>2. PICK s \in Request : M!Busy(s) /\ x \in Unwritten(req[s])
    BY <2>1 DEF MembershipInv, Agreed
  <2>3. s # r
    BY <1>7, <2>2
  <2> QED  BY <1>10, <2>2, <2>3 DEF M!Busy
<1>15. ASSUME NEW s \in Request, M!Busy(s)' PROVE Shaped(req[s], s)' /\ Sound(req[s])' /\ ToBePlaced(req[s])'
  <2>1. PICK c : c = req[s]
    OBVIOUS
  <2>2. req'[s] = c /\ M!Busy(s) /\ c \in M!Req /\ c.stage \notin {"new", "done", "failed"}
    BY <1>11, <1>15, <2>1, ReqOf
  <2>3. Shaped(c, s) /\ Sound(c) /\ ToBePlaced(c)
    BY <2>1, <2>2, ReqOf
  <2>4. \A x \in M!Writes(c) \ Excused' : ~touched(x)
    BY <1>8, <2>1, <2>2 DEF Excused
  <2>5. Sound(c)'
    <3>1. \A x \in M!Writes(c) \ Excused' : x \in granted' <=> x \in granted
      BY <1>6, <2>4
    <3>2. ASSUME NEW x \in c.list \ Excused', x[1] \in rows PROVE x[1] \in rows'
      <4>1. ~touched(x)
        BY <2>4 DEF M!Writes
      <4> QED  BY <1>2, <3>2, <4>1 DEF touched
    <3> QED  BY <1>7, <2>2, <2>3, <3>1, <3>2, SoundStays
  <2>6. ToBePlaced(c)'
    <3>1. ASSUME c.kind \in {"updatePermission", "updateWithoutUsers"}, c.row \notin M!Global PROVE Placed(c.row, c.list)'
      BY <1>2, <1>7, <2>3, <3>1 DEF ToBePlaced, Placed
    <3>2. ASSUME c.stage = "share", NEW p \in c.todo PROVE (<<p, c.org>> \in links \cup contended \cup hurt)'
      <4>1. <<p, c.org>> \in M!Writes(c)
        BY <2>2, <2>3, <3>2, WritesAll
      <4>2. <<p, c.org>> \in links \cup contended \cup hurt
        BY <2>3, <3>2 DEF ToBePlaced
      <4>3. <<p, c.org>> \notin contended' => ~touched(<<p, c.org>>)
        BY <1>8, <2>1, <2>2, <4>1
      <4> QED  BY <1>2, <1>6, <1>7, <4>2, <4>3
    <3> QED  BY <3>1, <3>2 DEF ToBePlaced
  <2>7. Shaped(req[s], s)'
    BY <2>2, <2>3
  <2>8. Sound(req[s])'
    BY <2>2, <2>5 DEF Sound, SameOn, M!Promised
  <2>9. ToBePlaced(req[s])'
    BY <2>2, <2>6 DEF ToBePlaced, Placed
  <2> QED  BY <2>7, <2>8, <2>9
<1>16. Shapes' /\ ListsSound' /\ SavedPlaced'
  BY <1>15 DEF Shapes, ListsSound, SavedPlaced
<1>17. RowsPlaced'
  <2>1. ASSUME NEW x \in rows', x \in M!Apps \cup (M!PermId \ M!Global) PROVE Placed(x, links)'
    <3>1. x \in rows /\ x \notin gone
      BY <1>2, <2>1
    <3>2. PICK o \in M!Orgs : <<x, o>> \in links \cup contended \cup hurt
      BY <2>1, <3>1 DEF MembershipInv, RowsPlaced, Placed
    <3>3. <<x, o>> \in links => o \notin gone
      BY <1>3, <1>4, <2>1, <3>1
    <3>4. <<x, o>> \in links' \cup contended' \cup hurt'
      BY <1>2, <1>6, <1>7, <3>1, <3>2, <3>3 DEF touched
    <3>5. <<x, o>> \in {x} \X M!Orgs
      OBVIOUS
    <3> QED  BY <3>4, <3>5 DEF Placed
  <2>2. \A p \in M!Global, o \in M!Orgs : <<p, o>> \notin links'
    BY <1>6 DEF MembershipInv, RowsPlaced
  <2> QED  BY <2>1, <2>2 DEF RowsPlaced
<1>18. OneGlobal' /\ GlobalThere' /\ OneKombit'
  <2>1. rows' \cap M!Global = rows \cap M!Global
    BY <1>2, <1>5
  <2>2. q.kind # "login"
    BY <1>2, <1>9 DEF M!Idle
  <2> QED  BY <1>2, <1>9, <2>1, <2>2, OnesStay
<1>19. MemberTyped'
  <2>1. contended' \subseteq M!Id \X M!Id
    <3>1. ASSUME NEW p \in Request, M!Busy(p) PROVE M!Writes(req[p]) \subseteq M!Id \X M!Id
      BY <3>1, ReqOf, WritesTyped
    <3>2. contended \subseteq M!Id \X M!Id
      BY DEF MembershipInv, MemberTyped, M!TypeOK
    <3> QED  BY <1>2, <3>1, <3>2 DEF M!Touching
  <2>2. links' \subseteq rows' \X rows'
    <3> SUFFICES ASSUME NEW x \in links' PROVE x \in rows' \X rows'
      OBVIOUS
    <3>1. x \in rows \X rows /\ ~touched(x)
      BY <1>6 DEF MembershipInv, MemberTyped, M!TypeOK
    <3> QED  BY <1>2, <3>1 DEF touched
  <2>3. granted' \subseteq M!Id \X M!Id /\ rows' \subseteq M!Id
    BY <1>2 DEF MembershipInv, MemberTyped, M!TypeOK
  <2>4. kombit' \subseteq rows' /\ kombit' \subseteq M!Users
    BY <1>2, <1>5 DEF MembershipInv, MemberTyped, M!TypeOK
  <2> QED  BY <1>2, <1>10, <2>1, <2>2, <2>3, <2>4 DEF MembershipInv, MemberTyped, M!TypeOK
<1> QED  BY <1>13, <1>14, <1>16, <1>17, <1>18, <1>19 DEF MembershipInv
-----------------------------------------------------------------------------
(* The rows and links there at the start: every permission and application *)
(* has an organization, and nothing is promised that is not there.         *)
LEMMA MembershipInit == M!Init => MembershipInv
<1> SUFFICES ASSUME M!Init PROVE MembershipInv
  OBVIOUS
<1> DEFINE defaults == UNION {M!Defaults(o) : o \in Org}
           placed == UNION {M!Defaults(o) \X {o} : o \in Org}
           auto == <<OldOrg, "auto">>
<1>1. PICK global \in SUBSET {M!OldGlobal} :
        /\ rows = User \cup Org \cup App \cup ApiKey \cup global \cup defaults
        /\ links = Asked \cup App \X {OldOrg} \cup placed
                   \cup (App \cup ApiKey \cup {OldUser}) \X {auto} \cup {OldUser} \X global
  BY DEF M!Init
<1>2. /\ named = {OldUser} /\ kombit = {} /\ req = [r \in Request |-> M!Idle] /\ granted = links
      /\ contended = {} /\ hurt = {} /\ slipped = {} /\ raced = {} /\ faults = 0
  BY DEF M!Init
<1>3. /\ defaults \subseteq M!PermId \ M!Global /\ auto \in defaults /\ auto \notin M!Orgs
      /\ global \subseteq M!Global /\ M!Global \subseteq M!PermId
  <2>1. auto \in M!Defaults(OldOrg) /\ OldOrg \in Org
    BY MemberConstants DEF M!Defaults
  <2>2. defaults \subseteq M!PermId \ M!Global
    BY MemberConstants, MadeIds
  <2>3. global \subseteq M!Global
    BY DEF M!Global
  <2>4. auto \in defaults
    BY <2>1
  <2> HIDE DEF defaults, auto
  <2> QED  BY <2>2, <2>3, <2>4, MemberConstants, MadeIds
<1>4. placed \subseteq defaults \X Org /\ \A x \in defaults : \E o \in Org : <<x, o>> \in placed
  OBVIOUS
<1> HIDE DEF defaults, placed, auto
<1>5. \A r \in Request : ~M!Busy(r) /\ req[r] = M!Idle
  BY <1>2 DEF M!Busy, M!Idle
<1>6. MemberTyped
  <2>1. rows \subseteq M!Id
    BY <1>1, <1>3, MemberConstants
  <2>2. links \subseteq rows \X rows
    <3>1. Asked \subseteq rows \X rows /\ App \X {OldOrg} \subseteq rows \X rows
      BY <1>1, MemberConstants
    <3>2. placed \subseteq rows \X rows
      BY <1>1, <1>4
    <3>3. (App \cup ApiKey \cup {OldUser}) \X {auto} \subseteq rows \X rows /\ {OldUser} \X global \subseteq rows \X rows
      BY <1>1, <1>3, MemberConstants
    <3> QED  BY <1>1, <3>1, <3>2, <3>3
  <2>3. M!Idle \in M!Req
    BY DEF M!Idle, M!Req
  <2>4. links \subseteq M!Id \X M!Id
    BY <2>1, <2>2
  <2>5. OldUser \in M!Id /\ 0 \in 0..MaxFaults
    BY MemberConstants
  <2> QED  BY <1>2, <2>1, <2>2, <2>3, <2>4, <2>5 DEF MemberTyped, M!TypeOK
<1>7. Shapes /\ Claimed /\ Agreed /\ ListsSound /\ SavedPlaced /\ GlobalThere
  BY <1>2, <1>5 DEF Shapes, Claimed, Agreed, ListsSound, SavedPlaced, GlobalThere
<1>8. RowsPlaced
  <2>1. ASSUME NEW x \in rows, x \in M!Apps \cup (M!PermId \ M!Global) PROVE Placed(x, links)
    <3>1. x \in App \/ x \in defaults
      BY <1>1, <1>3, <2>1, MemberConstants
    <3>2. PICK o \in Org : <<x, o>> \in links
      BY <1>1, <1>4, <3>1, MemberConstants
    <3>3. <<x, o>> \in {x} \X M!Orgs
      BY MemberConstants
    <3> QED  BY <3>2, <3>3 DEF Placed
  <2>2. ASSUME NEW p \in M!Global, NEW o \in M!Orgs, <<p, o>> \in links PROVE FALSE
    <3>1. p \in M!PermId /\ p \notin User \cup App \cup ApiKey \cup {OldUser}
      BY <1>3, MemberConstants
    <3>2. <<p, o>> \in placed
      BY <1>1, <2>2, <3>1, MemberConstants
    <3> QED  BY <1>3, <1>4, <3>2
  <2> QED  BY <2>1, <2>2 DEF RowsPlaced
<1>9. OneGlobal
  <2>1. M!Global \cap rows \subseteq global
    BY <1>1, <1>3, MemberConstants
  <2>2. \A r \in Request : ~M!At(r, "addGlobal")
    BY <1>5 DEF M!At, M!Idle
  <2> QED  BY <2>1, <2>2 DEF OneGlobal
<1>10. OneKombit
  BY <1>2, <1>5 DEF OneKombit, LoggingIn
<1> QED  BY <1>6, <1>7, <1>8, <1>9, <1>10 DEF MembershipInv

(* The requests that begin. *)
LEMMA NewKeeps ==
    ASSUME MembershipInv, NEW r \in Request, M!NewUserRequest(r) \/ M!NewPermissionRequest(r) \/ M!NewApplicationRequest(r)
    PROVE  MembershipInv'
<1>1. CASE M!NewUserRequest(r)
  <2>1. ASSUME NEW u \in M!Users, M!BeginUpdateUser(r, u) PROVE MembershipInv'
    BY <2>1, UserUpdateBegins
  <2>2. ASSUME NEW u \in M!Users, NEW os \in SUBSET Org, M!BeginAskFirst(r, u, os) \/ M!BeginAsk(r, u, os) PROVE MembershipInv'
    BY <2>2, AskFirstBegins, AskBegins
  <2>3. ASSUME NEW u \in M!Users, NEW o \in M!Orgs, M!BeginReject(r, u, o) PROVE MembershipInv'
    BY <2>3, RejectBegins
  <2> QED  BY <1>1, <2>1, <2>2, <2>3, UserCreateBegins, LoginBegins DEF M!NewUserRequest
<1>2. CASE M!NewPermissionRequest(r)
  <2>1. ASSUME NEW as \in M!Few(M!Apps \cap rows), NEW us \in M!Few(M!Users \cap rows), NEW k \in M!Kind \ {"global"},
               NEW o \in M!Orgs, M!BeginCreatePermission(r, k, o, as, us)
        PROVE  MembershipInv'
    <3>1. as \in SUBSET M!Apps /\ us \in SUBSET M!Users
      BY DEF M!Few
    <3> QED  BY <2>1, <3>1, PermissionCreateBegins
  <2>2. ASSUME NEW as \in M!Few(M!Apps \cap rows), NEW us \in M!Few(M!Users \cap rows), NEW p \in M!PermId,
               M!BeginUpdatePermission(r, p, as, us)
        PROVE  MembershipInv'
    <3>1. as \in SUBSET M!Apps /\ us \in SUBSET M!Users
      BY DEF M!Few
    <3> QED  BY <2>2, <3>1, PermissionUpdateBegins
  <2>3. ASSUME NEW u \in M!Users, NEW o \in M!Orgs, NEW ps, M!BeginAccept(r, u, o, ps) PROVE MembershipInv'
    BY <2>3, AcceptBegins
  <2>4. ASSUME NEW o \in M!Orgs, M!BeginUpdateOrg(r, o) PROVE MembershipInv'
    BY <2>4, OrgUpdateBegins
  <2> QED  BY <1>2, <2>1, <2>2, <2>3, <2>4, OrgCreateBegins DEF M!NewPermissionRequest
<1>3. CASE M!NewApplicationRequest(r)
  <2>1. PICK ps \in M!Few(rows \cap M!PermId) :
          \/ \E o \in M!Orgs : M!BeginCreateApp(r, o, ps) \/ \E a \in M!Apps : M!BeginUpdateApp(r, a, o, ps)
          \/ M!BeginCreateKey(r, ps)
          \/ \E k \in M!Keys : M!BeginUpdateKey(r, k, ps)
    BY <1>3 DEF M!NewApplicationRequest
  <2>2. ps \in SUBSET M!PermId /\ <<r, "app">> \in M!Apps /\ <<r, "key">> \in M!Keys
    BY MadeIds DEF M!Few
  <2>3. ASSUME NEW o \in M!Orgs, M!BeginCreateApp(r, o, ps) PROVE MembershipInv'
    BY <2>2, <2>3, AppBegins DEF M!BeginCreateApp
  <2>4. ASSUME NEW o \in M!Orgs, NEW a \in M!Apps, M!BeginUpdateApp(r, a, o, ps) PROVE MembershipInv'
    BY <2>2, <2>4, AppBegins DEF M!BeginUpdateApp
  <2>5. ASSUME M!BeginCreateKey(r, ps) PROVE MembershipInv'
    BY <2>2, <2>5, KeyBegins DEF M!BeginCreateKey
  <2>6. ASSUME NEW k \in M!Keys, M!BeginUpdateKey(r, k, ps) PROVE MembershipInv'
    BY <2>2, <2>6, KeyBegins DEF M!BeginUpdateKey
  <2> QED  BY <2>1, <2>3, <2>4, <2>5, <2>6
<1> QED  BY <1>1, <1>2, <1>3

(* The steps of membership, the ones that fail among them.                 *)
LEMMA MembershipStep == MembershipInv /\ M!Next => MembershipInv'
<1> SUFFICES ASSUME MembershipInv, M!Next PROVE MembershipInv'
  OBVIOUS
<1>1. ASSUME NEW r \in Request, M!Continue(r) PROVE MembershipInv'
  BY <1>1, FindGlobalKeeps, AddGlobalKeeps, FindAcceptedKeeps, SaveAwaitingKeeps, SaveRejectedKeeps, SaveDefaultsKeeps,
     FindAutoAddingKeeps, FindOrgKeeps, ShareKeeps, SaveKeeps DEF M!Continue
<1>2. ASSUME NEW r \in Request, M!Refuse(r) PROVE MembershipInv'
  <2>1. M!Busy(r)
    BY <1>2 DEF M!Refuse, M!Refused, M!Busy
  <2>2. M!Abort(r) /\ faults' \in 0..MaxFaults
    BY <1>2 DEF M!Refuse, MembershipInv, MemberTyped, M!TypeOK
  <2> QED  BY <2>1, <2>2, AbortKeeps
<1>3. ASSUME NEW r \in Request, M!CallFails(r) PROVE MembershipInv'
  <2>1. M!Busy(r) /\ M!Abort(r) /\ faults < MaxFaults /\ faults' = faults + 1
    BY <1>3 DEF M!CallFails, M!Fault
  <2>2. faults' \in 0..MaxFaults
    BY <2>1, MemberConstants DEF MembershipInv, MemberTyped, M!TypeOK
  <2> QED  BY <2>1, <2>2, AbortKeeps
<1>4. ASSUME NEW r \in Request, NEW e \in rows, M!Delete(r, e) PROVE MembershipInv'
  BY <1>4, DeleteKeeps
<1> QED  BY <1>1, <1>2, <1>3, <1>4, NewKeeps, CrashKeeps DEF M!Next

(* In the composition the invariant holds while membership is followed.    *)
LEMMA MembershipAlways == Spec => [](on = "membership" => MembershipInv)
<1> DEFINE Here == on = "membership" => MembershipInv
<1>1. Init => Here
  BY MembershipInit DEF Init
<1>2. Here /\ [Next]_vars => Here'
  <2> SUFFICES ASSUME Here, [Next]_vars, on' = "membership" PROVE MembershipInv'
    OBVIOUS
  <2>1. CASE UNCHANGED vars
    BY <2>1, MemberStutters DEF vars
  <2>2. CASE Next
    BY <2>2, MembershipStep DEF Next
  <2> QED  BY <2>1, <2>2
<1> QED  BY <1>1, <1>2, PTL DEF Spec
-----------------------------------------------------------------------------
(* What is not as promised was rewritten by two requests at once, may have *)
(* been written by one that failed, slipped with another's acceptance, or  *)
(* is still to be written.                                                 *)
LEMMA PromisedBut ==
    ASSUME MembershipInv, NEW pairs, pairs \cap slipped = {}
    PROVE  M!AsPromised(pairs)
<1> SUFFICES ASSUME NEW x \in (links \cup granted) \ (links \cap granted), x \in pairs, x \notin contended \cup hurt
             PROVE  \E r \in Request : M!Busy(r) /\ x \in M!Writes(req[r])
  BY DEF M!AsPromised
<1>1. x \in (links \cup granted) \ Excused
  BY DEF Excused
<1>2. PICK r \in Request : M!Busy(r) /\ x \in Unwritten(req[r])
  BY <1>1 DEF MembershipInv, Agreed
<1>3. x \in M!Writes(req[r])
  BY <1>2, ReqOf, WritesAll
<1> QED  BY <1>2, <1>3

(* Membership: for any number of requests, users, permissions and API      *)
(* keys, whoever was given a permission holds it until a request takes it  *)
(* away, and a request to join waits until its organization answers;       *)
(* except for the links two requests rewrote at once, or a failed one may  *)
(* have written, and for requests that slipped with an acceptance          *)
(* (user.service.ts, permission.service.ts, api-key.service.ts).           *)
THEOREM GrantsAlwaysKept == Spec => []GrantsKept
<1>1. (on = "membership" => MembershipInv) => GrantsKept
  <2> SUFFICES ASSUME MembershipInv PROVE M!GrantsKept /\ M!RequestsKept
    BY DEF GrantsKept
  <2>1. slipped \subseteq M!Users \X M!Orgs /\ M!Orgs \cap M!PermId = {}
    BY MemberConstants DEF MembershipInv, MemberTyped
  <2>2. (M!Holders \X M!PermId) \cap slipped = {} /\ ((M!Users \X M!Orgs) \ slipped) \cap slipped = {}
    BY <2>1
  <2> QED  BY <2>2, PromisedBut DEF M!GrantsKept, M!RequestsKept
<1> QED  BY <1>1, MembershipAlways, PTL

(* Membership: for any number of requests and applications, a permission   *)
(* reaches the applications it was given and, when it takes new ones,      *)
(* those of its organization made since; with the same exceptions          *)
(* (application.service.ts, permission.service.ts).                        *)
THEOREM ApplicationsAlwaysReached == Spec => []ApplicationsReached
<1>1. (on = "membership" => MembershipInv) => ApplicationsReached
  <2> SUFFICES ASSUME MembershipInv PROVE M!ApplicationsReached
    BY DEF ApplicationsReached
  <2>1. (M!Apps \X M!PermId) \cap slipped = {}
    BY MemberConstants DEF MembershipInv, MemberTyped
  <2> QED  BY <2>1, PromisedBut DEF M!ApplicationsReached
<1> QED  BY <1>1, MembershipAlways, PTL

(* Membership: a permission stays with its organization, an application    *)
(* with the one it was last given to; there is one global admin permission *)
(* and one user of a Kombit person, unless two requests looked for it at   *)
(* once (organization.service.ts, permission.service.ts, user.service.ts). *)
THEOREM MembershipAlwaysWhole == Spec => []MembershipWhole
<1>1. (on = "membership" => MembershipInv) => MembershipWhole
  <2> SUFFICES ASSUME MembershipInv PROVE M!OrganizationKept /\ M!MadeOnce
    BY DEF MembershipWhole
  <2>1. M!AsPromised((M!PermId \cup M!Apps) \X M!Orgs)
    <3>1. ((M!PermId \cup M!Apps) \X M!Orgs) \cap slipped = {}
      BY MemberConstants DEF MembershipInv, MemberTyped
    <3> QED  BY <3>1, PromisedBut
  <2>2. ASSUME NEW x \in rows \cap (M!Apps \cup (M!PermId \ M!Global)), M!LinksOf(x, M!Orgs) = {}
        PROVE  ({x} \X M!Orgs) \cap (contended \cup hurt) # {}
    BY <2>2 DEF MembershipInv, RowsPlaced, Placed, M!LinksOf
  <2>3. M!MadeOnce
    BY DEF MembershipInv, OneGlobal, OneKombit, M!MadeOnce
  <2> QED  BY <2>1, <2>2, <2>3 DEF M!OrganizationKept
<1> QED  BY <1>1, MembershipAlways, PTL

(* Every part: the variables have their types, whichever part is followed, *)
(* and a behaviour follows one of the parts.                               *)
THEOREM AdministrationTyped == Spec => []TypeOK
<1> DEFINE Followed == on \in {"membership", "access", "sigfox", "groups", "tokens", "profiles", "connections"}
<1>1. Spec => []Followed
  <2>1. Init => Followed
    BY DEF Init
  <2>2. Followed /\ [Next]_vars => Followed'
    <3>1. [Next]_vars => on' = on
      BY PartStep
    <3> QED  BY <3>1
  <2> QED  BY <2>1, <2>2, PTL DEF Spec
<1>2. /\ Followed
      /\ (on = "membership" => MembershipInv) /\ (on = "access" => AccessInv) /\ SigFoxHere
      /\ (on = "groups" => GroupsInv) /\ (on = "tokens" => TokensInv)
      /\ (on = "profiles" => ProfilesInv) /\ (on = "connections" => ConnectionsInv)
      => TypeOK
  BY DEF TypeOK, MembershipInv, MemberTyped, AccessInv, SigFoxHere, SigFoxInv, GroupsInv, TokensInv, ProfilesInv,
         ConnectionsInv
<1> QED  BY <1>1, <1>2, MembershipAlways, AccessAlways, SigFoxAlways, GroupsAlways, TokensAlways, ProfilesAlways,
            ConnectionsAlways, PTL
=============================================================================
