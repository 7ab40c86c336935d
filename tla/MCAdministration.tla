--------------------------- MODULE MCAdministration ---------------------------
(* A small instance of Administration: values of the constants that a .cfg *)
(* cannot write down, and requests that are alike.                         *)
EXTENDS Administration, TLC

CONSTANTS u2, o1, o2, a1, appReader, admin, global, guest, d1, n1, nn1

OneHasAsked == {u2} \X {o1, o2}

(* A reader that administrates applications, an organization's             *)
(* administration, another's reader, and the global one.                   *)
FourPermissions == {appReader, admin, global, guest}
FourLevels == [p \in FourPermissions |->
    CASE p = appReader -> {"Read", "OrganizationApplicationAdmin"}
      [] p = admin -> {"OrganizationUserAdmin", "OrganizationApplicationAdmin",
                       "OrganizationGatewayAdmin", "Read"}
      [] p = guest -> {"Read"}
      [] OTHER -> {"GlobalAdmin"}]
FourOrganizations == [p \in FourPermissions |-> CASE p = global -> None [] p = guest -> o2 [] OTHER -> o1]
OneEach == [a \in Applications |-> IF a = a1 THEN o1 ELSE o2]

(* The reader may list an application of another organization as well. *)
ReaderListsMore == {x \in Applications \X FourPermissions : OneEach[x[1]] = FourOrganizations[x[2]] \/ x[2] = appReader}

FirstApart == [d \in Device |-> IF d = d1 THEN a1 ELSE CHOOSE a \in Applications : a # a1]

LowerCase == [n \in Name |-> IF n = nn1 THEN n1 ELSE n]

AnyOrder == Permutations(Request) \cup Permutations(Asker)
=============================================================================
