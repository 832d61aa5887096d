----------------------------- MODULE Workspaces -----------------------------
(***************************************************************************)
(* Membership of one workspace: invites, member rows, the #general         *)
(* channel, ownership, the member limit of the plan, and deletion.         *)
(*                                                                         *)
(* Every HTTP request is an asynchronous handler.  Each repository call is *)
(* one autocommitted database statement, so each is one action here, and   *)
(* requests interleave between any two of them.  A request that throws, or *)
(* whose process dies, stops where it is: nothing is rolled back.          *)
(*                                                                         *)
(* An account and its e-mail address are the same element of User: the     *)
(* service normalises addresses to lower case and compares them that way.  *)
(***************************************************************************)
EXTENDS Naturals, FiniteSets

CONSTANTS
    User,        \* accounts, each with the e-mail address invites are sent to
    Creator,     \* the account that created the workspace
    Onboarded,   \* the addresses invited by createWorkspaceOnboarding
    Req,         \* requests that can be in flight at the same time
    Enabled,     \* the operations that clients call
    Batches,     \* the address lists an InviteMembersDto may carry
    InviteRoles, \* the roles an invite may offer
    UpdateRoles, \* the roles an UpdateMemberDto may carry
    Leavers,     \* the accounts that ever ask to leave
    FreeLimit,   \* PLAN_MAX_MEMBERS.FREE
    PlanLimits,  \* the values of PLAN_MAX_MEMBERS an administrator may set
    MaxToken,    \* bound: tokens issued for one address
    CanFail      \* whether a request may die between two of its statements

Role == {"OWNER", "ADMIN", "MEMBER", "GUEST"}

\* ROLE_HIERARCHY of the guard, and roleHierarchy of updateMember.
Level == [OWNER |-> 4, ADMIN |-> 3, MEMBER |-> 2, GUEST |-> 1]

Operation == {"invite", "resend", "revoke", "accept", "decline", "update",
              "remove", "leave", "delete", "plan", "purge"}

ASSUME UserAssumption ==
    /\ IsFiniteSet(User)
    /\ Creator \in User
    /\ Onboarded \subseteq User
    /\ Leavers \subseteq User

ASSUME InputAssumption ==
    /\ Enabled \subseteq Operation
    /\ Batches \subseteq (SUBSET User) \ {{}}
    /\ InviteRoles \subseteq Role /\ InviteRoles # {}
    /\ UpdateRoles \subseteq Role
    /\ CanFail \in BOOLEAN

ASSUME LimitAssumption ==
    /\ FreeLimit \in Nat /\ PlanLimits \subseteq Nat
    /\ MaxToken \in Nat \ {0}
    \* createWorkspaceOnboarding refuses a longer list
    /\ Cardinality(Onboarded) + 1 <= FreeLimit

VARIABLES
    ws,         \* "live", "deleted" (deletedAt is set) or "gone" (row deleted)
    maxMembers, \* Workspace.maxMembers
    member,     \* WorkspaceMember rows of the workspace, by account
    invite,     \* WorkspaceInvite rows of the workspace, by address
    general,    \* accounts with a ChannelMember row in #general
    req         \* the requests: position in the handler, arguments, values read

db == <<ws, maxMembers, member, invite, general>>
vars == <<ws, maxMembers, member, invite, general, req>>

MemberRow == [row : {"none", "active", "inactive"}, role : Role]

\* "mailed": the current token of the row has been sent to the address.
InviteRow == [status : {"NONE", "PENDING", "ACCEPTED", "DECLINED", "REVOKED"},
              role : Role, token : 0..MaxToken,
              expired : BOOLEAN, mailed : BOOLEAN]

NoMember == [row |-> "none", role |-> "MEMBER"]
NoInvite == [status |-> "NONE", role |-> "MEMBER", token |-> 0,
             expired |-> FALSE, mailed |-> FALSE]

Label == {"idle",
          "invite_workspace", "invite_self", "invite_lookup", "invite_count",
          "invite_count_members", "invite_count_invites", "invite_write",
          "invite_mail",
          "resend_find", "resend_workspace", "resend_self", "resend_write",
          "resend_mail", "revoke_find", "revoke_write", "decline_write",
          "accept_workspace", "accept_member", "accept_update",
          "accept_create", "accept_general", "accept_join", "accept_close",
          "update_self", "update_target", "update_write", "remove_target",
          "leave_member", "leave_count", "deactivate", "channels",
          "delete_find", "delete_count", "delete_write", "plan_write",
          "purge_write"}

Request == [pc : Label,
            by : User,            \* the caller
            who : User,           \* the account or address acted upon
            role : Role,          \* the role asked for, or read from an invite
            seen : Role,          \* the caller's role as it was read
            token : 0..MaxToken,  \* the invite token that was read or written
            todo : SUBSET User,   \* addresses of the batch still to be written
            unread : SUBSET User, \* addresses of the batch not looked up yet
            known : SUBSET User,  \* addresses found to have an invite row
            pend : SUBSET User,   \* addresses found to have a PENDING invite
            n : Nat,              \* the first of the two counts
            max : Nat]            \* workspace.maxMembers as it was read, or the new one

Blank == [pc |-> "idle", by |-> Creator, who |-> Creator, role |-> "MEMBER",
          seen |-> "MEMBER", token |-> 0, todo |-> {}, unread |-> {},
          known |-> {}, pend |-> {}, n |-> 0, max |-> 0]

Active(u) == member[u].row = "active"
Members == {u \in User : Active(u)}
Owners == {u \in User : Active(u) /\ member[u].role = "OWNER"}
InvitedAddresses == {u \in User : invite[u].status # "NONE"}
PendingInvites == {u \in User : invite[u].status = "PENDING"}

\* The state createWorkspaceSetup and createWorkspaceOnboarding commit: one
\* owner, who is in #general, and the onboarding invites.  Their e-mails are
\* sent after the commit, one by one, so any part of them may be missing.
Init ==
    /\ ws = "live"
    /\ maxMembers = FreeLimit
    /\ member = [u \in User |->
                   IF u = Creator THEN [row |-> "active", role |-> "OWNER"]
                                  ELSE NoMember]
    /\ \E offered \in InviteRoles, sent \in SUBSET Onboarded :
         invite = [u \in User |->
                     IF u \in Onboarded
                     THEN [status |-> "PENDING", role |-> offered, token |-> 1,
                           expired |-> FALSE, mailed |-> u \in sent]
                     ELSE NoInvite]
    /\ general = {Creator}
    /\ req = [r \in Req |-> Blank]

-----------------------------------------------------------------------------
(* Steps of a handler                                                      *)

\* A request enters its handler: the record it starts with.
Arrive(r, op, first) ==
    /\ op \in Enabled
    /\ req[r].pc = "idle"
    /\ req' = [req EXCEPT ![r] = first]
    /\ UNCHANGED db

\* A read: the handler goes on with "next" when its checks pass, and throws
\* otherwise.
Read(r, label, ok, next) ==
    /\ req[r].pc = label
    /\ req' = [req EXCEPT ![r] = IF ok THEN next ELSE Blank]
    /\ UNCHANGED db

Goto(r, label) == [req[r] EXCEPT !.pc = label]

\* A write to a row that has to exist fails once the workspace is purged: the
\* delete cascades to every row of it.
Row(r, label, next) ==
    /\ req[r].pc = label
    /\ ws # "gone"
    /\ req' = [req EXCEPT ![r] = next]

\* A statement that the database refuses (no such row, a unique or foreign
\* key) throws, and the request ends.
Throws(r, label, refused) ==
    /\ req[r].pc = label
    /\ refused
    /\ req' = [req EXCEPT ![r] = Blank]
    /\ UNCHANGED db

\* WorkspaceRoleGuard: an active member at or above the role of the route.  It
\* looks at the member row only, never at the workspace.
WorkspaceRoleGuard(u, least) ==
    Active(u) /\ Level[member[u].role] >= Level[least]

-----------------------------------------------------------------------------
(* Mutants: operators below with a bug a change of the code could bring in. *)
(* No action uses them; each must break the property named with it.         *)

\* Counts the members and invites there are, not the ones to come.
\* (SeatsWithinLimit)
WithinLimitOfToday(r, count) == req[r].n + count <= req[r].max

\* Keeps looking up the same addresses.  (RequestsEnd)
LookupForever(r) ==
    \E u \in req[r].unread :
        Read(r, "invite_lookup", TRUE,
             [req[r] EXCEPT !.known = @ \cup ({u} \cap InvitedAddresses),
                            !.pend = @ \cup ({u} \cap PendingInvites)])

\* Revokes and resends whatever the status.  (ClosedInviteStaysClosed)
AnyStatus(r) == invite[req[r].who].status # "NONE"

\* Does not look at the status of the invite.  (JoinsByOpenInvite)
AcceptableInAnyStatus(u) == invite[u].mailed /\ ~invite[u].expired

\* Marks the invite ACCEPTED first.  (Inv)
AcceptClosesFirst(r) ==
    /\ req[r].pc = "accept_workspace"
    /\ invite' = [invite EXCEPT ![req[r].who].status = "ACCEPTED"]
    /\ req' = [req EXCEPT ![r] = Goto(r, "accept_member")]
    /\ UNCHANGED <<ws, maxMembers, member, general>>

\* Leaves #general out.  (MembersReachGeneral)
AcceptWithoutGeneral(r) ==
    Read(r, "accept_general", TRUE, Goto(r, "accept_close"))

\* Hands out ownership.  (OwnersAreFounderOrInvited)
UpdateToOwner(r) ==
    Read(r, "update_target",
         /\ Active(req[r].who) /\ member[req[r].who].role # "OWNER"
         /\ req[r].seen = "ADMIN" =>
               Level[member[req[r].who].role] < Level["ADMIN"],
         Goto(r, "update_write"))

\* Lets administrators change each other.  (RoleChangedByHigherRank)
UpdateAmongAdmins(r) ==
    Read(r, "update_target",
         /\ Active(req[r].who) /\ member[req[r].who].role # "OWNER"
         /\ req[r].role # "OWNER",
         Goto(r, "update_write"))

\* Removes owners too.  (FounderKeepsOwnership)
RemoveOwnersToo(r) ==
    Read(r, "remove_target", Active(req[r].who), Goto(r, "deactivate"))

\* Off by one.  (SomeOwner)
LeaveUnlessNoOwner(r) ==
    Read(r, "leave_count", Cardinality(Owners) # 0, Goto(r, "deactivate"))

\* Off by one.  (KeepsContract)
DeleteWithOneMore(r) ==
    Read(r, "delete_count", Cardinality(Members) <= 2, Goto(r, "delete_write"))

-----------------------------------------------------------------------------
(* inviteMembers                                                           *)

InviteArrive(r) ==
    \E u \in User, batch \in Batches, offered \in InviteRoles :
        /\ WorkspaceRoleGuard(u, "ADMIN")
        /\ \A v \in batch : invite[v].token < MaxToken  \* bound
        /\ Arrive(r, "invite",
                  [Blank EXCEPT !.pc = "invite_workspace", !.by = u,
                                !.todo = batch, !.unread = batch,
                                !.role = offered])

InviteFindWorkspace(r) ==
    Read(r, "invite_workspace", ws = "live",
         [Goto(r, "invite_self") EXCEPT !.max = maxMembers])

InviteFindSelf(r) ==
    Read(r, "invite_self", Active(req[r].by), Goto(r, "invite_lookup"))

\* findByWorkspaceAndEmail, once per address.
InviteLookup(r) ==
    \E u \in req[r].unread :
        LET q == req[r]
            rest == q.unread \ {u}
        IN  Read(r, "invite_lookup", TRUE,
                 [q EXCEPT !.pc = IF rest = {} THEN "invite_count" ELSE @,
                           !.unread = rest,
                           !.known = @ \cup ({u} \cap InvitedAddresses),
                           !.pend = @ \cup ({u} \cap PendingInvites)])

\* countActiveAndPendingInvites issues its two counts in parallel; the second
\* answer, whichever it is, decides.
WithinLimit(r, count) ==
    LET q == req[r]
    IN  q.n + count + Cardinality(q.todo \ q.pend) <= q.max

Count(r, mine, other, count) ==
    \/ Read(r, "invite_count", TRUE, [Goto(r, other) EXCEPT !.n = count])
    \/ Read(r, mine, WithinLimit(r, count),
            [Goto(r, "invite_write") EXCEPT !.n = 0, !.max = 0, !.pend = {}])

InviteCountMembers(r) ==
    Count(r, "invite_count_members", "invite_count_invites",
          Cardinality(Members))

InviteCountInvites(r) ==
    Count(r, "invite_count_invites", "invite_count_members",
          Cardinality(PendingInvites))

\* resetForReinvite for an address that had a row when it was looked up,
\* create for the others.
InviteWrite(r) ==
    \E u \in req[r].todo :
        /\ invite[u].token < MaxToken  \* bound
        /\ \/ u \in req[r].known
           \/ invite[u].status = "NONE"
        /\ Row(r, "invite_write",
               [Goto(r, "invite_mail") EXCEPT !.who = u,
                                              !.token = invite[u].token + 1])
        /\ invite' = [invite EXCEPT ![u] =
                        [status |-> "PENDING", role |-> req[r].role,
                         token |-> invite[u].token + 1,
                         expired |-> FALSE, mailed |-> FALSE]]
        /\ UNCHANGED <<ws, maxMembers, member, general>>

\* create meets a row that another request created since the lookup, or the
\* workspace is gone.
InviteWriteFails(r) ==
    \E u \in req[r].todo :
        Throws(r, "invite_write",
               ws = "gone" \/ (u \notin req[r].known
                               /\ invite[u].status # "NONE"))

\* An e-mail carries the token the handler holds, which may be outdated.
Mailed(r) ==
    [invite EXCEPT ![req[r].who].mailed =
        @ \/ (invite[req[r].who].status # "NONE"
              /\ req[r].token = invite[req[r].who].token)]

InviteMail(r) ==
    LET q == req[r]
        rest == q.todo \ {q.who}
    IN  /\ q.pc = "invite_mail"
        /\ invite' = Mailed(r)
        /\ req' = [req EXCEPT ![r] =
                     IF rest = {} THEN Blank
                     ELSE [q EXCEPT !.pc = "invite_write", !.todo = rest,
                                    !.who = Creator, !.token = 0]]
        /\ UNCHANGED <<ws, maxMembers, member, general>>

-----------------------------------------------------------------------------
(* resendInvite, revokeInvite                                              *)

\* The caller names the invite by its id, so its row exists.
OnInvite(r, op, label) ==
    \E u \in User, v \in InvitedAddresses :
        /\ WorkspaceRoleGuard(u, "ADMIN")
        /\ Arrive(r, op, [Blank EXCEPT !.pc = label, !.by = u, !.who = v])

Pending(r) == invite[req[r].who].status = "PENDING"

ResendArrive(r) == OnInvite(r, "resend", "resend_find")

ResendFindInvite(r) ==
    Read(r, "resend_find", Pending(r),
         [Goto(r, "resend_workspace") EXCEPT !.token = invite[req[r].who].token])

ResendFindWorkspace(r) ==
    Read(r, "resend_workspace", ws = "live", Goto(r, "resend_self"))

ResendFindSelf(r) ==
    Read(r, "resend_self", Active(req[r].by), Goto(r, "resend_write"))

\* A new expiresAt, whatever the status of the row is by now.
ResendWrite(r) ==
    /\ Row(r, "resend_write", Goto(r, "resend_mail"))
    /\ invite' = [invite EXCEPT ![req[r].who].expired = FALSE]
    /\ UNCHANGED <<ws, maxMembers, member, general>>

\* The mail carries the token of the first read.
ResendMail(r) ==
    /\ req[r].pc = "resend_mail"
    /\ invite' = Mailed(r)
    /\ req' = [req EXCEPT ![r] = Blank]
    /\ UNCHANGED <<ws, maxMembers, member, general>>

RevokeArrive(r) == OnInvite(r, "revoke", "revoke_find")

RevokeFindInvite(r) ==
    Read(r, "revoke_find", Pending(r), Goto(r, "revoke_write"))

\* The last statement of acceptInvite, declineInvite and revokeInvite: an
\* update by id that does not look at the status the row has by now.
CloseInvite(r, label, status) ==
    /\ Row(r, label, Blank)
    /\ invite' = [invite EXCEPT ![req[r].who].status = status]
    /\ UNCHANGED <<ws, maxMembers, member, general>>

RevokeWrite(r) == CloseInvite(r, "revoke_write", "REVOKED")

-----------------------------------------------------------------------------
(* acceptInvite, declineInvite                                             *)

\* findByToken and the checks on the row it returns.  Only a token that was
\* mailed can be presented; an outdated one finds no row and changes nothing.
Acceptable(u) ==
    /\ invite[u].status = "PENDING"
    /\ invite[u].mailed
    /\ ~invite[u].expired

AcceptArrive(r) ==
    \E u \in User :
        /\ Acceptable(u)
        /\ Arrive(r, "accept",
                  [Blank EXCEPT !.pc = "accept_workspace", !.by = u, !.who = u,
                                !.role = invite[u].role,
                                !.token = invite[u].token])

AcceptFindWorkspace(r) ==
    Read(r, "accept_workspace", ws = "live", Goto(r, "accept_member"))

AcceptFindMember(r) ==
    Read(r, "accept_member", ~Active(req[r].who),
         Goto(r, IF member[req[r].who].row = "none"
                 THEN "accept_create" ELSE "accept_update"))

\* The member row becomes active with the role that was read from the invite.
Activate(r, label) ==
    /\ Row(r, label, Goto(r, "accept_general"))
    /\ member' = [member EXCEPT ![req[r].who] =
                    [row |-> "active", role |-> req[r].role]]
    /\ UNCHANGED <<ws, maxMembers, invite, general>>

AcceptUpdateMember(r) == Activate(r, "accept_update")

AcceptCreateMember(r) ==
    /\ member[req[r].who].row = "none"
    /\ Activate(r, "accept_create")

AcceptCreateMemberFails(r) ==
    Throws(r, "accept_create", ws = "gone" \/ member[req[r].who].row # "none")

\* findGeneralByWorkspace and findByChannelAndUserRaw.  #general is created
\* with the workspace and cannot be deleted.
AcceptFindGeneral(r) ==
    Read(r, "accept_general", TRUE,
         Goto(r, IF req[r].who \in general \/ ws = "gone"
                 THEN "accept_close" ELSE "accept_join"))

AcceptJoinGeneral(r) ==
    /\ req[r].who \notin general
    /\ Row(r, "accept_join", Goto(r, "accept_close"))
    /\ general' = general \cup {req[r].who}
    /\ UNCHANGED <<ws, maxMembers, member, invite>>

AcceptJoinGeneralFails(r) ==
    Throws(r, "accept_join", ws = "gone" \/ req[r].who \in general)

AcceptCloseInvite(r) == CloseInvite(r, "accept_close", "ACCEPTED")

DeclineArrive(r) ==
    \E u \in User :
        /\ Acceptable(u)
        /\ Arrive(r, "decline", [Blank EXCEPT !.pc = "decline_write",
                                              !.by = u, !.who = u])

DeclineWrite(r) == CloseInvite(r, "decline_write", "DECLINED")

-----------------------------------------------------------------------------
(* updateMember, removeMember, leaveWorkspace                              *)

UpdateArrive(r) ==
    \E u, v \in User, new \in UpdateRoles :
        /\ u # v
        /\ WorkspaceRoleGuard(u, "ADMIN")
        /\ Arrive(r, "update", [Blank EXCEPT !.pc = "update_self", !.by = u,
                                             !.who = v, !.role = new])

UpdateFindSelf(r) ==
    Read(r, "update_self", Active(req[r].by),
         [Goto(r, "update_target") EXCEPT !.seen = member[req[r].by].role])

UpdateFindTarget(r) ==
    LET q == req[r]
        target == member[q.who]
    IN  Read(r, "update_target",
             /\ Active(q.who)
             /\ target.role # "OWNER"
             /\ q.role # "OWNER"
             /\ q.seen = "ADMIN" => Level[target.role] < Level["ADMIN"],
             Goto(r, "update_write"))

UpdateWrite(r) ==
    /\ Row(r, "update_write", Blank)
    /\ member' = [member EXCEPT ![req[r].who].role = req[r].role]
    /\ UNCHANGED <<ws, maxMembers, invite, general>>

RemoveArrive(r) ==
    \E u, v \in User :
        /\ WorkspaceRoleGuard(u, "ADMIN")
        /\ Arrive(r, "remove", [Blank EXCEPT !.pc = "remove_target",
                                             !.by = u, !.who = v])

RemoveFindTarget(r) ==
    Read(r, "remove_target",
         Active(req[r].who) /\ member[req[r].who].role # "OWNER",
         Goto(r, "deactivate"))

LeaveArrive(r) ==
    \E u \in Leavers :
        /\ WorkspaceRoleGuard(u, "GUEST")
        /\ Arrive(r, "leave", [Blank EXCEPT !.pc = "leave_member",
                                            !.by = u, !.who = u])

LeaveFindMember(r) ==
    LET u == req[r].who
    IN  Read(r, "leave_member", Active(u) /\ member[u].role # "ADMIN",
             Goto(r, IF member[u].role = "OWNER"
                     THEN "leave_count" ELSE "deactivate"))

LeaveCountOwners(r) ==
    Read(r, "leave_count", Cardinality(Owners) # 1, Goto(r, "deactivate"))

\* removeMember and leaveWorkspace end in the same two statements.
Deactivate(r) ==
    /\ Row(r, "deactivate", Goto(r, "channels"))
    /\ member' = [member EXCEPT ![req[r].who].row = "inactive"]
    /\ UNCHANGED <<ws, maxMembers, invite, general>>

\* removeAllByWorkspaceAndUser deletes what it finds, possibly nothing.
RemoveFromChannels(r) ==
    /\ req[r].pc = "channels"
    /\ general' = general \ {req[r].who}
    /\ req' = [req EXCEPT ![r] = Blank]
    /\ UNCHANGED <<ws, maxMembers, member, invite>>

-----------------------------------------------------------------------------
(* deleteWorkspace, and the administrator's updatePlan and deleteWorkspace *)

DeleteArrive(r) ==
    \E u \in User :
        /\ WorkspaceRoleGuard(u, "OWNER")
        /\ Arrive(r, "delete", [Blank EXCEPT !.pc = "delete_find",
                                             !.by = u, !.who = u])

DeleteFindWorkspace(r) ==
    Read(r, "delete_find", ws = "live", Goto(r, "delete_count"))

DeleteCountMembers(r) ==
    Read(r, "delete_count", Cardinality(Members) <= 1, Goto(r, "delete_write"))

SoftDelete(r) ==
    /\ Row(r, "delete_write", Blank)
    /\ ws' = "deleted"
    /\ UNCHANGED <<maxMembers, member, invite, general>>

PlanArrive(r) ==
    \E limit \in PlanLimits :
        /\ ws = "live"
        /\ Arrive(r, "plan", [Blank EXCEPT !.pc = "plan_write", !.max = limit])

PlanWrite(r) ==
    /\ Row(r, "plan_write", Blank)
    /\ maxMembers' = req[r].max
    /\ UNCHANGED <<ws, member, invite, general>>

PurgeArrive(r) ==
    /\ ws = "live"
    /\ Arrive(r, "purge", [Blank EXCEPT !.pc = "purge_write"])

\* The delete cascades to members, invites, channels and channel members.
HardDelete(r) ==
    /\ Row(r, "purge_write", Blank)
    /\ ws' = "gone"
    /\ member' = [u \in User |-> NoMember]
    /\ invite' = [u \in User |-> NoInvite]
    /\ general' = {}
    /\ UNCHANGED maxMembers

-----------------------------------------------------------------------------

\* An update or delete by id of a row that the purge took away.
RowIsGone(r) ==
    \E label \in {"resend_write", "revoke_write", "accept_update",
                  "accept_close", "decline_write", "update_write",
                  "deactivate", "delete_write", "plan_write", "purge_write"} :
        Throws(r, label, ws = "gone")

\* A statement or an e-mail fails, or the process stops: the request ends, and
\* what it has written stays.
Fail(r) ==
    /\ CanFail
    /\ req[r].pc # "idle"
    /\ req' = [req EXCEPT ![r] = Blank]
    /\ UNCHANGED db

\* Three days pass.
Expire(u) ==
    /\ invite[u].status = "PENDING" /\ ~invite[u].expired
    /\ invite' = [invite EXCEPT ![u].expired = TRUE]
    /\ UNCHANGED <<ws, maxMembers, member, general, req>>

InviteStep(r) ==
    \/ InviteFindWorkspace(r) \/ InviteFindSelf(r) \/ InviteLookup(r)
    \/ InviteCountMembers(r) \/ InviteCountInvites(r)
    \/ InviteWrite(r) \/ InviteWriteFails(r) \/ InviteMail(r)

ResendStep(r) ==
    \/ ResendFindInvite(r) \/ ResendFindWorkspace(r) \/ ResendFindSelf(r)
    \/ ResendWrite(r) \/ ResendMail(r)

AcceptStep(r) ==
    \/ AcceptFindWorkspace(r) \/ AcceptFindMember(r)
    \/ AcceptUpdateMember(r) \/ AcceptCreateMember(r)
    \/ AcceptCreateMemberFails(r) \/ AcceptFindGeneral(r)
    \/ AcceptJoinGeneral(r) \/ AcceptJoinGeneralFails(r)
    \/ AcceptCloseInvite(r)

MemberStep(r) ==
    \/ UpdateFindSelf(r) \/ UpdateFindTarget(r) \/ UpdateWrite(r)
    \/ RemoveFindTarget(r) \/ LeaveFindMember(r) \/ LeaveCountOwners(r)
    \/ Deactivate(r) \/ RemoveFromChannels(r)

WorkspaceStep(r) ==
    \/ DeleteFindWorkspace(r) \/ DeleteCountMembers(r) \/ SoftDelete(r)
    \/ PlanWrite(r) \/ HardDelete(r)

Continue(r) ==
    \/ InviteStep(r) \/ ResendStep(r) \/ AcceptStep(r) \/ MemberStep(r)
    \/ WorkspaceStep(r)
    \/ RevokeFindInvite(r) \/ RevokeWrite(r) \/ DeclineWrite(r)
    \/ RowIsGone(r)

Call(r) ==
    \/ InviteArrive(r) \/ ResendArrive(r) \/ RevokeArrive(r)
    \/ AcceptArrive(r) \/ DeclineArrive(r) \/ UpdateArrive(r)
    \/ RemoveArrive(r) \/ LeaveArrive(r) \/ DeleteArrive(r)
    \/ PlanArrive(r) \/ PurgeArrive(r)

Next ==
    \/ \E r \in Req : Call(r) \/ Continue(r) \/ Fail(r)
    \/ \E u \in User : Expire(u)

Spec == Init /\ [][Next]_vars

\* Node runs every continuation and the database answers every statement: a
\* request that is in its handler gets its next step.
FairSpec == Spec /\ \A r \in Req : WF_vars(Continue(r))

-----------------------------------------------------------------------------
(* Properties of every interleaving                                        *)

\* Every variable keeps its shape: rows, roles, tokens within the bound, and
\* request records whose batch fields are sets of addresses.
TypeOK ==
    /\ ws \in {"live", "deleted", "gone"}
    /\ maxMembers \in Nat
    /\ member \in [User -> MemberRow]
    /\ invite \in [User -> InviteRow]
    /\ general \subseteq User
    /\ req \in [Req -> Request]

\* Whoever holds an ACCEPTED invite has a member row.
AcceptedInviteHasMembership ==
    \A u \in User : invite[u].status = "ACCEPTED" => member[u].row # "none"

\* Nobody is in #general without one.
GeneralMembersHaveMembership ==
    \A u \in general : member[u].row # "none"

\* acceptInvite commits the member row before it enters #general and before it
\* marks the invite ACCEPTED: a request that dies half-way, or overlaps with
\* others, never leaves an invite consumed and nobody admitted, or somebody in
\* the channel whom the workspace does not know.
Inv == TypeOK /\ AcceptedInviteHasMembership /\ GeneralMembersHaveMembership

\* What protects the founder: either the founder never asks to leave, or the
\* workspace never offers the OWNER role, so that the founder is counted as
\* the only owner.
FounderProtected == Creator \notin Leavers \/ "OWNER" \notin InviteRoles

\* updateMember, removeMember and acceptInvite decide on roles they read some
\* statements earlier, yet none of them, whatever the requests they overlap
\* with, can demote, deactivate or re-admit in a lesser role the founder: a
\* workspace whose founder is protected always has that active owner.
FounderKeepsOwnership ==
    FounderProtected =>
        \/ ws = "gone"
        \/ member[Creator] = [row |-> "active", role |-> "OWNER"]

\* updateMember refuses to hand out OWNER, so an account other than the
\* founder is only ever an owner through an invite that offered the role.
OwnersAreFounderOrInvited ==
    "OWNER" \notin InviteRoles => Owners \subseteq {Creator}

-----------------------------------------------------------------------------
(* Properties of requests that do not overlap, each of which may fail at   *)
(* any statement (Req has one element)                                     *)

\* A workspace never loses its last active owner: leaveWorkspace tells the
\* only owner to transfer the ownership first.
SomeOwner == ws # "gone" => Owners # {}

\* Every person who is a member or holds a pending invite takes a seat of the
\* plan; inviteMembers never brings the seats above the limit.  They may
\* exceed it because the plan was lowered, and then they do not grow.
Seats == Members \cup PendingInvites

SeatsWithinLimit ==
    [][Cardinality(Seats') > Cardinality(Seats)
         => Cardinality(Seats') <= maxMembers']_vars

\* Somebody becomes a member only by an invite that is open at that moment,
\* in the role it offers: not by a revoked, declined, used or replaced one.
JoinsByOpenInvite ==
    [][\A u \in User :
         ~Active(u) /\ Active(u)' =>
            /\ invite[u].status = "PENDING"
            /\ invite[u].mailed
            /\ member'[u].role = invite[u].role]_vars

\* An invite that was accepted, declined or revoked stays so until the address
\* is invited again under a new token (or the workspace is purged).
ClosedInviteStaysClosed ==
    [][\A u \in User :
         invite[u].status \in {"ACCEPTED", "DECLINED", "REVOKED"}
           => \/ invite'[u].status = invite[u].status
              \/ invite'[u].status = "PENDING"
                 /\ invite'[u].token > invite[u].token
              \/ ws' = "gone"]_vars

\* A role is only changed by somebody who outranks it at that moment: an
\* owner, or an administrator when the member is neither.
RoleChangedByHigherRank ==
    [][\A u \in User :
         Active(u) /\ Active(u)' /\ member'[u].role # member[u].role =>
            \E r \in Req :
                /\ req[r].pc = "update_write" /\ req[r].who = u
                /\ Level[member[req[r].by].role] > Level[member[u].role]]_vars

-----------------------------------------------------------------------------
(* Properties of requests that do not fail                                 *)

\* A request that has written the member row is committed to the rest of its
\* statements: the contract sees their effect at once.
Admitting == {u \in User : \E r \in Req :
                 req[r].who = u
                 /\ req[r].pc \in {"accept_general", "accept_join", "accept_close"}}
Departing == {u \in User : \E r \in Req :
                 req[r].who = u /\ req[r].pc = "channels"}

Contract == INSTANCE MembershipContract WITH
    alive <- ws = "live",
    limit <- maxMembers,
    roles <- [u \in User |-> IF Active(u) THEN member[u].role ELSE "NONE"],
    offers <- [u \in User |->
                 IF invite[u].status = "PENDING" /\ u \notin Admitting
                 THEN invite[u].role ELSE "NONE"],
    room <- (general \cup Admitting) \ Departing

\* Requests that neither overlap nor fail behave as indivisible operations: in
\* particular, deleteWorkspace waits until nobody but one member is left, and
\* nobody is admitted to a deleted workspace afterwards.
KeepsContract == Contract!CSpec

\* Somebody who has become a member gets into #general, or stops being one.
MembersReachGeneral ==
    \A u \in User : Active(u) ~> (u \in general \/ ~Active(u))

\* Every request comes to its end: the loop of inviteMembers handles each
\* address once.
RequestsEnd ==
    \A r \in Req : req[r].pc # "idle" ~> req[r].pc = "idle"

=============================================================================
