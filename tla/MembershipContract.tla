------------------------- MODULE MembershipContract -------------------------
(***************************************************************************)
(* What the workspace module promises, with each operation as one          *)
(* indivisible step: who may be invited, admitted, promoted, removed, and  *)
(* when the workspace may be deleted.  It knows nothing of requests,       *)
(* database statements, tokens or e-mails.                                 *)
(***************************************************************************)
EXTENDS Naturals, FiniteSets

CONSTANTS User, Creator, Onboarded, InviteRoles, UpdateRoles, FreeLimit,
          PlanLimits

VARIABLES
    alive,   \* the workspace is not deleted
    limit,   \* seats of the plan
    roles,   \* the role of each active member, "NONE" for everybody else
    offers,  \* the role each open invite offers, "NONE" without one
    room     \* the members of #general

cvars == <<alive, limit, roles, offers, room>>

In == {u \in User : roles[u] # "NONE"}
Offered == {u \in User : offers[u] # "NONE"}
Owning == {u \in User : roles[u] = "OWNER"}

CInit ==
    /\ alive = TRUE
    /\ limit = FreeLimit
    /\ roles = [u \in User |-> IF u = Creator THEN "OWNER" ELSE "NONE"]
    /\ \E role \in InviteRoles :
         offers = [u \in User |-> IF u \in Onboarded THEN role ELSE "NONE"]
    /\ room = {Creator}

\* An offer takes a seat; a renewed one takes the seat it already has.
Offer(u, role) ==
    /\ alive = TRUE
    /\ Cardinality(In \cup Offered \cup {u}) <= limit \/ u \in Offered
    /\ offers' = [offers EXCEPT ![u] = role]
    /\ UNCHANGED <<alive, limit, roles, room>>

Withdraw(u) ==
    /\ u \in Offered
    /\ offers' = [offers EXCEPT ![u] = "NONE"]
    /\ UNCHANGED <<alive, limit, roles, room>>

\* Admission spends the offer, grants its role and opens #general.
Admission(u) ==
    /\ alive /\ u \in Offered /\ u \notin In
    /\ roles' = [roles EXCEPT ![u] = offers[u]]
    /\ offers' = [offers EXCEPT ![u] = "NONE"]
    /\ room' = room \cup {u}
    /\ UNCHANGED <<alive, limit>>

Promote(u, v, role) ==
    /\ u \in In /\ v \in In /\ u # v
    /\ roles[u] = "OWNER" \/ (roles[u] = "ADMIN" /\ roles[v] \in {"MEMBER", "GUEST"})
    /\ roles[v] # "OWNER" /\ role # "OWNER"
    /\ roles' = [roles EXCEPT ![v] = role]
    /\ UNCHANGED <<alive, limit, offers, room>>

\* Out of the workspace and of its channels: removed by an owner or an
\* administrator, or leaving.  Owners are not removed, and the last one stays.
Departure(u) ==
    /\ u \in In
    /\ roles[u] = "OWNER" => Owning # {u}
    /\ roles' = [roles EXCEPT ![u] = "NONE"]
    /\ room' = room \ {u}
    /\ UNCHANGED <<alive, limit, offers>>

Close ==
    /\ alive /\ Cardinality(In) <= 1
    /\ alive' = FALSE
    /\ UNCHANGED <<limit, roles, offers, room>>

ChangePlan(seats) ==
    /\ alive = TRUE
    /\ limit' = seats
    /\ UNCHANGED <<alive, roles, offers, room>>

CNext ==
    \/ \E u \in User, role \in InviteRoles : Offer(u, role)
    \/ \E u \in User : Withdraw(u) \/ Admission(u) \/ Departure(u)
    \/ \E u, v \in User, role \in UpdateRoles : Promote(u, v, role)
    \/ \E seats \in PlanLimits : ChangePlan(seats)
    \/ Close

CSpec == CInit /\ [][CNext]_cvars

=============================================================================
