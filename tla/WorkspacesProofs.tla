-------------------------- MODULE WorkspacesProofs --------------------------
(***************************************************************************)
(* Theorems about Workspaces, for every set of accounts and every choice   *)
(* of the other constants: first of any number of overlapping requests,    *)
(* then of requests that come one at a time.                               *)
(***************************************************************************)
EXTENDS Workspaces, FiniteSetTheorems, TLAPS

-----------------------------------------------------------------------------
(* Type correctness                                                        *)

USE DEF Arrive, Read, Row, Throws

LEMMA BlankType == Blank \in Request
  BY UserAssumption, LimitAssumption DEF Blank, Request, Label, Role

LEMMA InitType == Init => TypeOK
  <1> SUFFICES ASSUME Init PROVE TypeOK
    OBVIOUS
  <1>1. ws \in {"live", "deleted", "gone"} /\ maxMembers \in Nat
    BY LimitAssumption DEF Init
  <1>2. member \in [User -> MemberRow]
    BY DEF Init, MemberRow, NoMember, Role
  <1>3. invite \in [User -> InviteRow]
    <2>1. PICK offered \in InviteRoles, sent \in SUBSET Onboarded :
            invite = [u \in User |->
                        IF u \in Onboarded
                        THEN [status |-> "PENDING", role |-> offered,
                              token |-> 1, expired |-> FALSE,
                              mailed |-> u \in sent]
                        ELSE NoInvite]
      BY DEF Init
    <2>2. ASSUME NEW u \in User PROVE (u \in sent) \in BOOLEAN
      OBVIOUS
    <2>3. offered \in Role /\ 1 \in 0..MaxToken /\ 0 \in 0..MaxToken
      BY InputAssumption, LimitAssumption
    <2> QED
      BY <2>1, <2>2, <2>3 DEF NoInvite, InviteRow, Role
  <1>4. general \subseteq User
    BY UserAssumption DEF Init
  <1>5. req \in [Req -> Request]
    BY BlankType DEF Init
  <1> QED
    BY <1>1, <1>2, <1>3, <1>4, <1>5 DEF TypeOK

LEMMA SetRequest ==
  ASSUME TypeOK, NEW r \in Req, NEW q \in Request,
         req' = [req EXCEPT ![r] = q], UNCHANGED db
  PROVE  TypeOK'
  BY DEF TypeOK, db

\* What the arrival of a request does: nothing to the database, and to the
\* request what the later steps of its handler count on.
Starts(r, q) ==
    /\ UNCHANGED db
    /\ req' = [req EXCEPT ![r] = q]
    /\ q.pc \in {"invite_workspace", "resend_find", "revoke_find",
                 "accept_workspace", "decline_write", "update_self",
                 "remove_target", "leave_member", "delete_find", "plan_write",
                 "purge_write"}
    /\ q.pc = "leave_member" => q.who \in Leavers
    /\ \/ q.role = "MEMBER" \/ q.role \in InviteRoles
       \/ q.role = invite[q.who].role
       \/ q.pc = "update_self"

LEMMA CallShape ==
  ASSUME TypeOK, NEW r \in Req, Call(r)
  PROVE  \E q \in Request : Starts(r, q)
  <1> USE UserAssumption, InputAssumption, LimitAssumption
  <1>0. /\ "MEMBER" \in Role /\ Creator \in User
        /\ 0 \in 0..MaxToken /\ 0 \in Nat
        /\ \A u \in User : invite[u].role \in Role /\ invite[u].token \in 0..MaxToken
    BY DEF TypeOK, InviteRow, Role
  <1>1. CASE InviteArrive(r)
    <2>1. PICK u \in User, batch \in Batches, offered \in InviteRoles :
            Starts(r, [Blank EXCEPT !.pc = "invite_workspace", !.by = u,
                          !.todo = batch, !.unread = batch,
                          !.role = offered])
      BY <1>1 DEF InviteArrive, Starts, Blank
    <2>2. [Blank EXCEPT !.pc = "invite_workspace", !.by = u,
                          !.todo = batch, !.unread = batch,
                          !.role = offered]
            \in Request
      BY <2>1, <1>0 DEF Blank, Request, Label
    <2> QED
      BY <2>1, <2>2
  <1>2. CASE ResendArrive(r)
    <2>1. PICK u \in User, v \in User :
            Starts(r, [Blank EXCEPT !.pc = "resend_find", !.by = u, !.who = v])
      BY <1>2 DEF ResendArrive, Starts, Blank, OnInvite, InvitedAddresses
    <2>2. [Blank EXCEPT !.pc = "resend_find", !.by = u, !.who = v]
            \in Request
      BY <2>1, <1>0 DEF Blank, Request, Label
    <2> QED
      BY <2>1, <2>2
  <1>3. CASE RevokeArrive(r)
    <2>1. PICK u \in User, v \in User :
            Starts(r, [Blank EXCEPT !.pc = "revoke_find", !.by = u, !.who = v])
      BY <1>3 DEF RevokeArrive, Starts, Blank, OnInvite, InvitedAddresses
    <2>2. [Blank EXCEPT !.pc = "revoke_find", !.by = u, !.who = v]
            \in Request
      BY <2>1, <1>0 DEF Blank, Request, Label
    <2> QED
      BY <2>1, <2>2
  <1>4. CASE AcceptArrive(r)
    <2>1. PICK u \in User :
            Starts(r, [Blank EXCEPT !.pc = "accept_workspace", !.by = u,
                          !.who = u, !.role = invite[u].role,
                          !.token = invite[u].token])
      BY <1>4 DEF AcceptArrive, Starts, Blank
    <2>2. [Blank EXCEPT !.pc = "accept_workspace", !.by = u,
                          !.who = u, !.role = invite[u].role,
                          !.token = invite[u].token]
            \in Request
      BY <2>1, <1>0 DEF Blank, Request, Label
    <2> QED
      BY <2>1, <2>2
  <1>5. CASE DeclineArrive(r)
    <2>1. PICK u \in User :
            Starts(r, [Blank EXCEPT !.pc = "decline_write", !.by = u, !.who = u])
      BY <1>5 DEF DeclineArrive, Starts, Blank
    <2>2. [Blank EXCEPT !.pc = "decline_write", !.by = u, !.who = u]
            \in Request
      BY <2>1, <1>0 DEF Blank, Request, Label
    <2> QED
      BY <2>1, <2>2
  <1>6. CASE UpdateArrive(r)
    <2>1. PICK u \in User, v \in User, new \in UpdateRoles :
            Starts(r, [Blank EXCEPT !.pc = "update_self", !.by = u,
                          !.who = v, !.role = new])
      BY <1>6 DEF UpdateArrive, Starts, Blank
    <2>2. [Blank EXCEPT !.pc = "update_self", !.by = u,
                          !.who = v, !.role = new]
            \in Request
      BY <2>1, <1>0 DEF Blank, Request, Label
    <2> QED
      BY <2>1, <2>2
  <1>7. CASE RemoveArrive(r)
    <2>1. PICK u \in User, v \in User :
            Starts(r, [Blank EXCEPT !.pc = "remove_target", !.by = u, !.who = v])
      BY <1>7 DEF RemoveArrive, Starts, Blank
    <2>2. [Blank EXCEPT !.pc = "remove_target", !.by = u, !.who = v]
            \in Request
      BY <2>1, <1>0 DEF Blank, Request, Label
    <2> QED
      BY <2>1, <2>2
  <1>8. CASE LeaveArrive(r)
    <2>1. PICK u \in Leavers :
            Starts(r, [Blank EXCEPT !.pc = "leave_member", !.by = u, !.who = u])
      BY <1>8 DEF LeaveArrive, Starts, Blank
    <2>2. [Blank EXCEPT !.pc = "leave_member", !.by = u, !.who = u]
            \in Request
      BY <2>1, <1>0 DEF Blank, Request, Label
    <2> QED
      BY <2>1, <2>2
  <1>9. CASE DeleteArrive(r)
    <2>1. PICK u \in User :
            Starts(r, [Blank EXCEPT !.pc = "delete_find", !.by = u, !.who = u])
      BY <1>9 DEF DeleteArrive, Starts, Blank
    <2>2. [Blank EXCEPT !.pc = "delete_find", !.by = u, !.who = u]
            \in Request
      BY <2>1, <1>0 DEF Blank, Request, Label
    <2> QED
      BY <2>1, <2>2
  <1>10. CASE PlanArrive(r)
    <2>1. PICK limit \in PlanLimits :
            Starts(r, [Blank EXCEPT !.pc = "plan_write", !.max = limit])
      BY <1>10 DEF PlanArrive, Starts, Blank
    <2>2. [Blank EXCEPT !.pc = "plan_write", !.max = limit]
            \in Request
      BY <2>1, <1>0 DEF Blank, Request, Label
    <2> QED
      BY <2>1, <2>2
  <1>11. CASE PurgeArrive(r)
    <2>1. Starts(r, [Blank EXCEPT !.pc = "purge_write"])
      BY <1>11 DEF PurgeArrive, Starts, Blank
    <2>2. [Blank EXCEPT !.pc = "purge_write"] \in Request
      BY <1>0 DEF Blank, Request, Label
    <2> QED
      BY <2>1, <2>2
  <1> QED
    BY <1>1, <1>2, <1>3, <1>4, <1>5, <1>6, <1>7, <1>8, <1>9, <1>10, <1>11
    DEF Call

LEMMA CallType ==
  ASSUME TypeOK, NEW r \in Req, Call(r)
  PROVE  TypeOK'
  BY CallShape, SetRequest DEF Starts

LEMMA GotoType ==
  ASSUME TypeOK, NEW r \in Req, NEW label \in Label
  PROVE  Goto(r, label) \in Request
  BY DEF TypeOK, Goto, Request

\* Rows keep their type when a flag is set.
LEMMA FlagType ==
  ASSUME NEW row \in InviteRow, NEW flag \in BOOLEAN
  PROVE  /\ [row EXCEPT !.mailed = flag] \in InviteRow
         /\ [row EXCEPT !.expired = flag] \in InviteRow
  BY DEF InviteRow

LEMMA MailedType ==
  ASSUME TypeOK, NEW r \in Req
  PROVE  Mailed(r) \in [User -> InviteRow]
  <1> DEFINE u == req[r].who
             sent == invite[u].mailed
                       \/ (invite[u].status # "NONE"
                             /\ req[r].token = invite[u].token)
  <1>1. u \in User /\ invite[u] \in InviteRow
    BY DEF TypeOK, Request
  <1>2. sent \in BOOLEAN
    OBVIOUS
  <1>3. [invite[u] EXCEPT !.mailed = sent] \in InviteRow
    BY <1>1, <1>2, FlagType
  <1>4. Mailed(r) = [invite EXCEPT ![u] = [invite[u] EXCEPT !.mailed = sent]]
    BY DEF Mailed
  <1> HIDE DEF sent, u
  <1> QED
    BY <1>1, <1>3, <1>4 DEF TypeOK

LEMMA InviteStepType ==
  ASSUME TypeOK, NEW r \in Req, InviteStep(r)
  PROVE  TypeOK'
  <1> USE UserAssumption, BlankType, GotoType DEF db
  <1>0. req[r] \in Request
    BY DEF TypeOK
  <1>1. CASE InviteFindWorkspace(r)
    <2>1. [Goto(r, "invite_self") EXCEPT !.max = maxMembers] \in Request
      <3>1. Goto(r, "invite_self") \in Request
        BY DEF Label
      <3> QED
        BY <3>1 DEF TypeOK, Request
    <2> QED
      BY <1>1, <2>1 DEF InviteFindWorkspace, TypeOK
  <1>2. CASE InviteFindSelf(r)
    BY <1>2 DEF InviteFindSelf, TypeOK, Label
  <1>3. CASE InviteLookup(r)
    <2>1. PICK u \in req[r].unread :
            Read(r, "invite_lookup", TRUE,
                 [req[r] EXCEPT
                    !.pc = IF req[r].unread \ {u} = {}
                           THEN "invite_count" ELSE @,
                    !.unread = req[r].unread \ {u},
                    !.known = @ \cup ({u} \cap InvitedAddresses),
                    !.pend = @ \cup ({u} \cap PendingInvites)])
      BY <1>3 DEF InviteLookup
    <2>2. [req[r] EXCEPT
             !.pc = IF req[r].unread \ {u} = {} THEN "invite_count" ELSE @,
             !.unread = req[r].unread \ {u},
             !.known = @ \cup ({u} \cap InvitedAddresses),
             !.pend = @ \cup ({u} \cap PendingInvites)] \in Request
      <3>1. ASSUME NEW label \in Label, NEW q \in Request
            PROVE  [q EXCEPT !.pc = label,
                             !.unread = q.unread \ {u},
                             !.known = q.known \cup ({u} \cap InvitedAddresses),
                             !.pend = q.pend \cup ({u} \cap PendingInvites)]
                     \in Request
        BY DEF Request, InvitedAddresses, PendingInvites
      <3>2. (IF req[r].unread \ {u} = {} THEN "invite_count" ELSE req[r].pc)
              \in Label
        BY <1>0 DEF Request, Label
      <3> QED
        BY <1>0, <3>1, <3>2
    <2> QED
      BY <2>1, <2>2, SetRequest
  <1>4. ASSUME NEW mine, NEW other \in Label, NEW count \in Nat,
               Count(r, mine, other, count)
        PROVE  TypeOK'
    <2>1. [Goto(r, other) EXCEPT !.n = count] \in Request
      BY <1>0 DEF Request, Goto
    <2>2. [Goto(r, "invite_write") EXCEPT !.n = 0, !.max = 0, !.pend = {}]
            \in Request
      <3>1. Goto(r, "invite_write") \in Request
        BY DEF Label
      <3> QED
        BY <3>1 DEF Request
    <2> QED
      BY <1>4, <2>1, <2>2 DEF Count, TypeOK
  <1>5. CASE InviteCountMembers(r)
    <2>1. Cardinality(Members) \in Nat
      BY FS_Subset, FS_CardinalityType DEF Members
    <2> QED
      BY <1>5, <2>1, <1>4 DEF InviteCountMembers, Label
  <1>6. CASE InviteCountInvites(r)
    <2>1. Cardinality(PendingInvites) \in Nat
      BY FS_Subset, FS_CardinalityType DEF PendingInvites
    <2> QED
      BY <1>6, <2>1, <1>4 DEF InviteCountInvites, Label
  <1>7. CASE InviteWrite(r)
    <2>1. PICK u \in req[r].todo :
            /\ invite[u].token < MaxToken
            /\ Row(r, "invite_write",
                   [Goto(r, "invite_mail") EXCEPT !.who = u,
                                                  !.token = invite[u].token + 1])
            /\ invite' = [invite EXCEPT ![u] =
                            [status |-> "PENDING", role |-> req[r].role,
                             token |-> invite[u].token + 1,
                             expired |-> FALSE, mailed |-> FALSE]]
            /\ UNCHANGED <<ws, maxMembers, member, general>>
      BY <1>7 DEF InviteWrite
    <2>2. u \in User /\ req[r].role \in Role
      BY <1>0 DEF Request
    <2>3. invite[u].token + 1 \in 0..MaxToken
      BY <2>1, <2>2, LimitAssumption DEF TypeOK, InviteRow
    <2>4. [Goto(r, "invite_mail") EXCEPT !.who = u,
                                         !.token = invite[u].token + 1] \in Request
      <3>1. Goto(r, "invite_mail") \in Request
        BY DEF Label
      <3> QED
        BY <2>2, <2>3, <3>1 DEF Request
    <2>5. [status |-> "PENDING", role |-> req[r].role,
           token |-> invite[u].token + 1, expired |-> FALSE, mailed |-> FALSE]
             \in InviteRow
      BY <2>2, <2>3 DEF InviteRow
    <2> QED
      BY <2>1, <2>2, <2>4, <2>5 DEF TypeOK
  <1>8. CASE InviteWriteFails(r)
    BY <1>8 DEF InviteWriteFails, TypeOK
  <1>9. CASE InviteMail(r)
    <2>1. Mailed(r) \in [User -> InviteRow]
      BY MailedType
    <2>2. ASSUME NEW q \in Request
          PROVE  [q EXCEPT !.pc = "invite_write", !.todo = q.todo \ {q.who},
                           !.who = Creator, !.token = 0] \in Request
      <3>1. "invite_write" \in Label /\ 0 \in 0..MaxToken
        BY LimitAssumption DEF Label
      <3> QED
        BY <3>1 DEF Request
    <2> QED
      BY <1>9, <1>0, <2>1, <2>2 DEF InviteMail, TypeOK
  <1> QED
    BY <1>1, <1>2, <1>3, <1>5, <1>6, <1>7, <1>8,
       <1>9 DEF InviteStep

LEMMA CloseInviteType ==
  ASSUME TypeOK, NEW r \in Req, NEW label,
         NEW status \in {"ACCEPTED", "DECLINED", "REVOKED"},
         CloseInvite(r, label, status)
  PROVE  TypeOK'
  <1>1. invite' \in [User -> InviteRow]
    BY DEF CloseInvite, TypeOK, InviteRow, Request
  <1> QED
    BY <1>1, BlankType DEF CloseInvite, TypeOK

LEMMA ResendStepType ==
  ASSUME TypeOK, NEW r \in Req,
         ResendStep(r) \/ RevokeFindInvite(r) \/ RevokeWrite(r) \/ DeclineWrite(r)
  PROVE  TypeOK'
  <1> USE BlankType, GotoType, MailedType, CloseInviteType DEF db
  <1>1. CASE ResendFindInvite(r)
    <2>1. [Goto(r, "resend_workspace") EXCEPT !.token = invite[req[r].who].token]
            \in Request
      <3>1. Goto(r, "resend_workspace") \in Request
        BY DEF Label
      <3>2. invite[req[r].who].token \in 0..MaxToken
        BY DEF TypeOK, Request, InviteRow
      <3> QED
        BY <3>1, <3>2 DEF Request
    <2> QED
      BY <1>1, <2>1 DEF ResendFindInvite, TypeOK
  <1>2. CASE ResendFindWorkspace(r)
    BY <1>2 DEF ResendFindWorkspace, TypeOK, Label
  <1>3. CASE ResendFindSelf(r)
    BY <1>3 DEF ResendFindSelf, TypeOK, Label
  <1>4. CASE ResendWrite(r)
    <2>1. invite' \in [User -> InviteRow]
      <3>1. req[r].who \in User
        BY DEF TypeOK, Request
      <3>2. [invite[req[r].who] EXCEPT !.expired = FALSE] \in InviteRow
        BY <3>1, FlagType DEF TypeOK
      <3>3. invite' = [invite EXCEPT ![req[r].who] =
                         [invite[req[r].who] EXCEPT !.expired = FALSE]]
        BY <1>4 DEF ResendWrite
      <3> QED
        BY <3>1, <3>2, <3>3 DEF TypeOK
    <2> QED
      BY <1>4, <2>1 DEF ResendWrite, TypeOK, Label
  <1>5. CASE ResendMail(r)
    BY <1>5 DEF ResendMail, TypeOK
  <1>6. CASE RevokeFindInvite(r)
    BY <1>6 DEF RevokeFindInvite, TypeOK, Label
  <1>7. CASE RevokeWrite(r)
    BY <1>7 DEF RevokeWrite
  <1>8. CASE DeclineWrite(r)
    BY <1>8 DEF DeclineWrite
  <1> QED
    BY <1>1, <1>2, <1>3, <1>4, <1>5, <1>6, <1>7, <1>8 DEF ResendStep

LEMMA AcceptStepType ==
  ASSUME TypeOK, NEW r \in Req, AcceptStep(r)
  PROVE  TypeOK'
  <1> USE BlankType, GotoType DEF db
  <1>0. ASSUME NEW label, Activate(r, label)
        PROVE  TypeOK'
    <2>1. [row |-> "active", role |-> req[r].role] \in MemberRow
      BY DEF TypeOK, Request, MemberRow
    <2> QED
      BY <1>0, <2>1 DEF Activate, TypeOK, Label
  <1>1. CASE AcceptFindWorkspace(r)
    BY <1>1 DEF AcceptFindWorkspace, TypeOK, Label
  <1>2. CASE AcceptFindMember(r)
    BY <1>2 DEF AcceptFindMember, TypeOK, Label
  <1>3. CASE AcceptUpdateMember(r)
    BY <1>3, <1>0 DEF AcceptUpdateMember
  <1>4. CASE AcceptCreateMember(r)
    BY <1>4, <1>0 DEF AcceptCreateMember
  <1>5. CASE AcceptCreateMemberFails(r)
    BY <1>5 DEF AcceptCreateMemberFails, TypeOK
  <1>6. CASE AcceptFindGeneral(r)
    BY <1>6 DEF AcceptFindGeneral, TypeOK, Label
  <1>7. CASE AcceptJoinGeneral(r)
    <2>1. general' \subseteq User
      BY <1>7 DEF AcceptJoinGeneral, TypeOK, Request
    <2> QED
      BY <1>7, <2>1 DEF AcceptJoinGeneral, TypeOK, Label
  <1>8. CASE AcceptJoinGeneralFails(r)
    BY <1>8 DEF AcceptJoinGeneralFails, TypeOK
  <1>9. CASE AcceptCloseInvite(r)
    BY <1>9, CloseInviteType DEF AcceptCloseInvite
  <1> QED
    BY <1>1, <1>2, <1>3, <1>4, <1>5, <1>6, <1>7, <1>8, <1>9 DEF AcceptStep

LEMMA MemberStepType ==
  ASSUME TypeOK, NEW r \in Req, MemberStep(r)
  PROVE  TypeOK'
  <1> USE BlankType, GotoType DEF db
  <1>0. req[r] \in Request /\ req[r].by \in User /\ req[r].role \in Role
    BY DEF TypeOK, Request
  <1>1. CASE UpdateFindSelf(r)
    <2>1. [Goto(r, "update_target") EXCEPT !.seen = member[req[r].by].role]
            \in Request
      <3>1. Goto(r, "update_target") \in Request
        BY DEF Label
      <3>2. member[req[r].by].role \in Role
        BY <1>0 DEF TypeOK, MemberRow
      <3> QED
        BY <3>1, <3>2 DEF Request
    <2> QED
      BY <1>1, <2>1 DEF UpdateFindSelf, TypeOK
  <1>2. CASE UpdateFindTarget(r)
    BY <1>2 DEF UpdateFindTarget, TypeOK, Label
  <1>3. CASE UpdateWrite(r)
    <2>1. member' \in [User -> MemberRow]
      BY <1>3, <1>0 DEF UpdateWrite, TypeOK, MemberRow
    <2> QED
      BY <1>3, <2>1 DEF UpdateWrite, TypeOK
  <1>4. CASE RemoveFindTarget(r)
    BY <1>4 DEF RemoveFindTarget, TypeOK, Label
  <1>5. CASE LeaveFindMember(r)
    BY <1>5 DEF LeaveFindMember, TypeOK, Label
  <1>6. CASE LeaveCountOwners(r)
    BY <1>6 DEF LeaveCountOwners, TypeOK, Label
  <1>7. CASE Deactivate(r)
    <2>1. member' \in [User -> MemberRow]
      BY <1>7 DEF Deactivate, TypeOK, MemberRow
    <2> QED
      BY <1>7, <2>1 DEF Deactivate, TypeOK, Label
  <1>8. CASE RemoveFromChannels(r)
    BY <1>8 DEF RemoveFromChannels, TypeOK
  <1> QED
    BY <1>1, <1>2, <1>3, <1>4, <1>5, <1>6, <1>7, <1>8 DEF MemberStep

LEMMA WorkspaceStepType ==
  ASSUME TypeOK, NEW r \in Req, WorkspaceStep(r)
  PROVE  TypeOK'
  <1> USE BlankType, GotoType DEF db
  <1>1. CASE DeleteFindWorkspace(r)
    BY <1>1 DEF DeleteFindWorkspace, TypeOK, Label
  <1>2. CASE DeleteCountMembers(r)
    BY <1>2 DEF DeleteCountMembers, TypeOK, Label
  <1>3. CASE SoftDelete(r)
    BY <1>3 DEF SoftDelete, TypeOK
  <1>4. CASE PlanWrite(r)
    <2>1. maxMembers' \in Nat
      BY <1>4 DEF PlanWrite, TypeOK, Request
    <2> QED
      BY <1>4, <2>1 DEF PlanWrite, TypeOK
  <1>5. CASE HardDelete(r)
    <2>1. NoMember \in MemberRow
      BY DEF NoMember, MemberRow, Role
    <2>2. NoInvite \in InviteRow
      BY LimitAssumption DEF NoInvite, InviteRow, Role
    <2> QED
      BY <1>5, <2>1, <2>2 DEF HardDelete, TypeOK
  <1> QED
    BY <1>1, <1>2, <1>3, <1>4, <1>5 DEF WorkspaceStep

LEMMA ContinueType ==
  ASSUME TypeOK, NEW r \in Req, Continue(r)
  PROVE  TypeOK'
  <1>1. CASE RowIsGone(r)
    BY <1>1, BlankType DEF RowIsGone, TypeOK, db
  <1> QED
    BY <1>1, InviteStepType, ResendStepType, AcceptStepType, MemberStepType,
       WorkspaceStepType DEF Continue

LEMMA NextType == TypeOK /\ [Next]_vars => TypeOK'
  <1> SUFFICES ASSUME TypeOK, [Next]_vars PROVE TypeOK'
    OBVIOUS
  <1>1. ASSUME NEW r \in Req, Fail(r) PROVE TypeOK'
    BY <1>1, BlankType DEF Fail, TypeOK, db
  <1>2. ASSUME NEW u \in User, Expire(u) PROVE TypeOK'
    <2>1. invite' \in [User -> InviteRow]
      BY <1>2 DEF Expire, TypeOK, InviteRow
    <2> QED
      BY <1>2, <2>1 DEF Expire, TypeOK
  <1>3. CASE UNCHANGED vars
    BY <1>3 DEF vars, TypeOK
  <1> QED
    BY <1>1, <1>2, <1>3, CallType, ContinueType DEF Next

\* The variables keep their types in every behaviour.
LEMMA TypeCorrect == Spec => []TypeOK
  BY InitType, NextType, PTL DEF Spec

-----------------------------------------------------------------------------
(* Steps that leave the database alone                                     *)

Quietly(r) ==
    \/ InviteFindWorkspace(r) \/ InviteFindSelf(r) \/ InviteLookup(r)
    \/ InviteCountMembers(r) \/ InviteCountInvites(r)
    \/ InviteWriteFails(r) \/ ResendFindInvite(r)
    \/ ResendFindWorkspace(r) \/ ResendFindSelf(r) \/ RevokeFindInvite(r)
    \/ AcceptFindWorkspace(r) \/ AcceptFindMember(r)
    \/ AcceptCreateMemberFails(r) \/ AcceptFindGeneral(r)
    \/ AcceptJoinGeneralFails(r) \/ UpdateFindSelf(r)
    \/ UpdateFindTarget(r) \/ RemoveFindTarget(r) \/ LeaveFindMember(r)
    \/ LeaveCountOwners(r) \/ DeleteFindWorkspace(r)
    \/ DeleteCountMembers(r) \/ RowIsGone(r) \/ Fail(r)

\* A handler goes on, for the same account and role, to a label that its
\* checks allow.
Proceeds(r, q) ==
    /\ q.who = req[r].who /\ q.role = req[r].role
    /\ q.pc \notin {"accept_general", "channels", "update_self", "leave_member",
                    "invite_mail"}
    /\ q.pc \in {"accept_create", "accept_update"} => ~Active(q.who)
    /\ q.pc \in {"accept_join", "accept_close"} => req[r].pc = "accept_general"
    /\ req[r].pc = "update_self" => q.pc = "update_target"
    /\ req[r].pc = "update_target" => q.pc = "update_write"
    /\ q.pc = "update_write" => member[q.who].role # "OWNER" /\ q.role # "OWNER"
    /\ q.pc = "leave_count" => req[r].pc = "leave_member"
    /\ q.pc = "deactivate" =>
         \/ member[q.who].role # "OWNER"
         \/ req[r].pc = "leave_count" /\ Cardinality(Owners) # 1

LEMMA QuietShape ==
  ASSUME TypeOK, NEW r \in Req, Quietly(r)
  PROVE  /\ UNCHANGED db
         /\ req' = [req EXCEPT ![r] = req'[r]]
         /\ req'[r] = Blank \/ Proceeds(r, req'[r])
  <1>0. req \in [Req -> Request] /\ req[r] \in Request
    BY DEF TypeOK
  <1> USE <1>0 DEF Request, Goto, Proceeds
  <1>1. CASE InviteFindWorkspace(r)
    BY <1>1 DEF InviteFindWorkspace
  <1>2. CASE InviteFindSelf(r)
    BY <1>2 DEF InviteFindSelf
  <1>3. CASE InviteLookup(r)
    <2>1. PICK u \in req[r].unread :
            /\ req[r].pc = "invite_lookup"
            /\ UNCHANGED db
            /\ req' = [req EXCEPT ![r] =
                 [req[r] EXCEPT
                    !.pc = IF req[r].unread \ {u} = {}
                           THEN "invite_count" ELSE @,
                    !.unread = req[r].unread \ {u},
                    !.known = @ \cup ({u} \cap InvitedAddresses),
                    !.pend = @ \cup ({u} \cap PendingInvites)]]
      BY <1>3 DEF InviteLookup
    <2>2. /\ req'[r].who = req[r].who /\ req'[r].role = req[r].role
          /\ req'[r].pc \in {"invite_lookup", "invite_count"}
      BY <2>1
    <2> QED
      BY <2>1, <2>2
  <1>4. ASSUME NEW count, NEW mine,
               NEW other \in {"invite_count_members", "invite_count_invites"},
               mine \in {"invite_count_members", "invite_count_invites"},
               Count(r, mine, other, count)
        PROVE  /\ UNCHANGED db
               /\ req' = [req EXCEPT ![r] = req'[r]]
               /\ req'[r] = Blank \/ Proceeds(r, req'[r])
    <2>1. CASE Read(r, "invite_count", TRUE, [Goto(r, other) EXCEPT !.n = count])
      <3>1. /\ req'[r].who = req[r].who /\ req'[r].role = req[r].role
            /\ req'[r].pc = other
        BY <2>1
      <3> QED
        BY <1>4, <2>1, <3>1
    <2>2. CASE Read(r, mine, WithinLimit(r, count),
                    [Goto(r, "invite_write") EXCEPT !.n = 0, !.max = 0, !.pend = {}])
      <3>1. \/ req'[r] = Blank
            \/ /\ req'[r].who = req[r].who /\ req'[r].role = req[r].role
               /\ req'[r].pc = "invite_write"
        BY <2>2
      <3> QED
        BY <1>4, <2>2, <3>1
    <2> QED
      BY <1>4, <2>1, <2>2 DEF Count
  <1>5. CASE InviteCountMembers(r) \/ InviteCountInvites(r)
    BY <1>4, <1>5 DEF InviteCountMembers, InviteCountInvites
  <1>6. CASE InviteWriteFails(r)
    BY <1>6 DEF InviteWriteFails
  <1>7. CASE ResendFindInvite(r)
    BY <1>7 DEF ResendFindInvite
  <1>8. CASE ResendFindWorkspace(r)
    BY <1>8 DEF ResendFindWorkspace
  <1>9. CASE ResendFindSelf(r)
    BY <1>9 DEF ResendFindSelf
  <1>10. CASE RevokeFindInvite(r)
    BY <1>10 DEF RevokeFindInvite
  <1>11. CASE AcceptFindWorkspace(r)
    BY <1>11 DEF AcceptFindWorkspace
  <1>12. CASE AcceptFindMember(r)
    BY <1>12 DEF AcceptFindMember
  <1>13. CASE AcceptCreateMemberFails(r)
    BY <1>13 DEF AcceptCreateMemberFails
  <1>14. CASE AcceptFindGeneral(r)
    BY <1>14 DEF AcceptFindGeneral
  <1>15. CASE AcceptJoinGeneralFails(r)
    BY <1>15 DEF AcceptJoinGeneralFails
  <1>16. CASE UpdateFindSelf(r)
    BY <1>16 DEF UpdateFindSelf
  <1>17. CASE UpdateFindTarget(r)
    BY <1>17 DEF UpdateFindTarget
  <1>18. CASE RemoveFindTarget(r)
    BY <1>18 DEF RemoveFindTarget
  <1>19. CASE LeaveFindMember(r)
    BY <1>19 DEF LeaveFindMember
  <1>20. CASE LeaveCountOwners(r)
    BY <1>20 DEF LeaveCountOwners
  <1>21. CASE DeleteFindWorkspace(r)
    BY <1>21 DEF DeleteFindWorkspace
  <1>22. CASE DeleteCountMembers(r)
    BY <1>22 DEF DeleteCountMembers
  <1>23. CASE RowIsGone(r)
    BY <1>23 DEF RowIsGone
  <1>24. CASE Fail(r)
    BY <1>24 DEF Fail
  <1> QED
    BY <1>1, <1>2, <1>3, <1>4, <1>5, <1>6, <1>7, <1>8, <1>9, <1>10, <1>11, <1>12, <1>13, <1>14, <1>15, <1>16, <1>17, <1>18, <1>19, <1>20, <1>21, <1>22, <1>23, <1>24
    DEF Quietly

LEMMA StepKinds ==
  ASSUME NEW r \in Req, Continue(r) \/ Fail(r)
  PROVE  \/ Quietly(r)
         \/ InviteWrite(r) \/ InviteMail(r) \/ ResendWrite(r) \/ ResendMail(r)
         \/ RevokeWrite(r) \/ DeclineWrite(r) \/ AcceptCloseInvite(r)
         \/ AcceptUpdateMember(r) \/ AcceptCreateMember(r)
         \/ AcceptJoinGeneral(r) \/ UpdateWrite(r) \/ Deactivate(r)
         \/ RemoveFromChannels(r) \/ SoftDelete(r) \/ PlanWrite(r)
         \/ HardDelete(r)
  BY Zenon DEF Quietly, Continue, InviteStep, ResendStep, AcceptStep, MemberStep,
         WorkspaceStep

-----------------------------------------------------------------------------
(* Member rows, accepted invites and #general                              *)

\* Past the statement that admits, acceptInvite counts on the member row; the
\* row stays because only the purge deletes it.
AdmittedHaveRow ==
    \A r \in Req :
        req[r].pc \in {"accept_general", "accept_join", "accept_close"} =>
            ws = "gone" \/ member[req[r].who].row # "none"

MembershipInv ==
    AcceptedInviteHasMembership /\ GeneralMembersHaveMembership /\ AdmittedHaveRow

LEMMA MembershipInit == Init => MembershipInv
  BY UserAssumption DEF Init, NoInvite, NoMember, Blank, MembershipInv,
     AcceptedInviteHasMembership, GeneralMembersHaveMembership, AdmittedHaveRow

\* The request that took the step is the only one whose claim has to be
\* looked at again when the member rows stay.
LEMMA AdmittedStays ==
  ASSUME TypeOK, AdmittedHaveRow, NEW r \in Req,
         req' = [req EXCEPT ![r] = req'[r]],
         ws' = "gone" \/ (\A u \in User : member[u].row # "none"
                                            => member'[u].row # "none"),
         ws = "gone" => ws' = "gone",
         req'[r].pc \in {"accept_general", "accept_join", "accept_close"} =>
            ws' = "gone" \/ member'[req'[r].who].row # "none"
  PROVE  AdmittedHaveRow'
  BY DEF AdmittedHaveRow, TypeOK, Request

LEMMA MembershipWrite ==
  ASSUME TypeOK, MembershipInv, NEW r \in Req,
         \/ InviteWrite(r) \/ InviteMail(r) \/ ResendWrite(r) \/ ResendMail(r)
         \/ RevokeWrite(r) \/ DeclineWrite(r) \/ AcceptCloseInvite(r)
  PROVE  MembershipInv'
  <1>0. /\ req \in [Req -> Request] /\ req[r] \in Request /\ req[r].who \in User
        /\ invite \in [User -> InviteRow] /\ Blank.pc = "idle"
    BY DEF TypeOK, Request, Blank
  <1>1. /\ UNCHANGED <<ws, member, general>>
        /\ req' = [req EXCEPT ![r] = req'[r]]
        /\ req'[r].pc \notin {"accept_general", "accept_join", "accept_close"}
        /\ \A u \in User : invite'[u].status = "ACCEPTED" =>
              \/ invite[u].status = "ACCEPTED"
              \/ req[r].pc = "accept_close" /\ ws # "gone" /\ u = req[r].who
    <2>1. CASE InviteWrite(r)
      <3>1. PICK u \in req[r].todo, token \in 0..MaxToken + 1 :
              /\ req' = [req EXCEPT ![r] =
                           [Goto(r, "invite_mail") EXCEPT !.who = u,
                                                          !.token = token]]
              /\ invite' = [invite EXCEPT ![u] =
                              [status |-> "PENDING", role |-> req[r].role,
                               token |-> token,
                               expired |-> FALSE, mailed |-> FALSE]]
              /\ UNCHANGED <<ws, member, general>>
        <4>1. \A u \in req[r].todo : invite[u].token + 1 \in 0..MaxToken + 1
          BY <1>0, LimitAssumption DEF Request, InviteRow
        <4> QED
          BY <2>1, <4>1 DEF InviteWrite
      <3>2. req'[r].pc = "invite_mail"
        BY <3>1, <1>0 DEF Goto, Request
      <3> QED
        BY <3>1, <3>2, <1>0
    <2>2. CASE InviteMail(r)
      BY <2>2, <1>0 DEF InviteMail, Mailed, Request, InviteRow
    <2>3. CASE ResendWrite(r)
      BY <2>3, <1>0 DEF ResendWrite, Goto, Request, InviteRow
    <2>4. CASE ResendMail(r)
      BY <2>4, <1>0 DEF ResendMail, Mailed, InviteRow
    <2>5. CASE RevokeWrite(r)
      BY <2>5, <1>0 DEF RevokeWrite, CloseInvite, InviteRow
    <2>6. CASE DeclineWrite(r)
      BY <2>6, <1>0 DEF DeclineWrite, CloseInvite, InviteRow
    <2>7. CASE AcceptCloseInvite(r)
      BY <2>7, <1>0 DEF AcceptCloseInvite, CloseInvite, InviteRow
    <2> QED
      BY <2>1, <2>2, <2>3, <2>4, <2>5, <2>6, <2>7
  <1>2. AdmittedHaveRow'
    BY <1>1, AdmittedStays DEF MembershipInv
  <1>3. AcceptedInviteHasMembership'
    BY <1>1 DEF MembershipInv, AcceptedInviteHasMembership, AdmittedHaveRow
  <1>4. GeneralMembersHaveMembership'
    BY <1>1 DEF MembershipInv, GeneralMembersHaveMembership
  <1> QED
    BY <1>2, <1>3, <1>4 DEF MembershipInv

LEMMA MembershipNext == TypeOK /\ MembershipInv /\ [Next]_vars => MembershipInv'
  <1> SUFFICES ASSUME TypeOK, MembershipInv, [Next]_vars PROVE MembershipInv'
    OBVIOUS
  <1> USE DEF MembershipInv, AcceptedInviteHasMembership,
              GeneralMembersHaveMembership
  <1>0. /\ Blank.pc = "idle" /\ req \in [Req -> Request]
        /\ member \in [User -> MemberRow] /\ invite \in [User -> InviteRow]
        /\ \A r \in Req : req[r].who \in User
    BY DEF Blank, TypeOK, Request
  <1>1. ASSUME NEW r \in Req, UNCHANGED db,
               req' = [req EXCEPT ![r] = req'[r]],
               req'[r].pc \in {"accept_general", "accept_join", "accept_close"}
                 => /\ req'[r].who = req[r].who
                    /\ req[r].pc = "accept_general"
        PROVE  MembershipInv'
    <2>1. AdmittedHaveRow'
      BY <1>1, AdmittedStays DEF db, AdmittedHaveRow
    <2> QED
      BY <1>1, <2>1 DEF db
  <1>2. ASSUME NEW r \in Req, Call(r) PROVE MembershipInv'
    <2>1. PICK q \in Request : Starts(r, q)
      BY <1>2, CallShape
    <2>2. req'[r] = q
      BY <1>0, <2>1 DEF Starts
    <2> QED
      BY <2>1, <2>2, <1>1 DEF Starts
  <1>3. ASSUME NEW r \in Req, Quietly(r) PROVE MembershipInv'
    BY <1>0, <1>1, <1>3, QuietShape DEF Proceeds
  <1>4. ASSUME NEW r \in Req,
               AcceptUpdateMember(r) \/ AcceptCreateMember(r)
        PROVE  MembershipInv'
    <2>1. /\ UNCHANGED <<ws, invite, general>>
          /\ req' = [req EXCEPT ![r] = Goto(r, "accept_general")]
          /\ member' = [member EXCEPT ![req[r].who] =
                          [row |-> "active", role |-> req[r].role]]
      BY <1>4 DEF AcceptUpdateMember, AcceptCreateMember, Activate
    <2>2. \A u \in User : member'[u].row = "active" \/ member'[u] = member[u]
      BY <1>0, <2>1
    <2>3. /\ req' = [req EXCEPT ![r] = req'[r]] /\ req'[r].who = req[r].who
          /\ member'[req[r].who].row = "active"
      BY <1>0, <2>1 DEF Goto, Request
    <2>4. AdmittedHaveRow'
      BY <1>0, <2>1, <2>2, <2>3, AdmittedStays
    <2> QED
      BY <1>0, <2>1, <2>2, <2>4 DEF TypeOK
  <1>5. ASSUME NEW r \in Req, AcceptJoinGeneral(r) PROVE MembershipInv'
    <2>1. /\ UNCHANGED <<ws, invite, member>>
          /\ req[r].pc = "accept_join" /\ ws # "gone"
          /\ general' = general \cup {req[r].who}
          /\ req' = [req EXCEPT ![r] = Goto(r, "accept_close")]
      BY <1>5 DEF AcceptJoinGeneral
    <2>2. /\ req' = [req EXCEPT ![r] = req'[r]] /\ req'[r].who = req[r].who
      BY <1>0, <2>1 DEF Goto, Request
    <2>3. member[req[r].who].row # "none"
      BY <2>1 DEF AdmittedHaveRow
    <2>4. AdmittedHaveRow'
      BY <2>1, <2>2, <2>3, AdmittedStays
    <2> QED
      BY <2>1, <2>3, <2>4
  <1>6. ASSUME NEW r \in Req,
               UpdateWrite(r) \/ Deactivate(r) \/ RemoveFromChannels(r)
                 \/ SoftDelete(r) \/ PlanWrite(r)
        PROVE  MembershipInv'
    <2>1. /\ UNCHANGED invite /\ general' \subseteq general
          /\ ws' = ws \/ (ws # "gone" /\ ws' = "deleted")
          /\ \A u \in User : member[u].row # "none" => member'[u].row # "none"
      BY <1>0, <1>6 DEF UpdateWrite, Deactivate, RemoveFromChannels, SoftDelete,
                   PlanWrite, MemberRow
    <2>2. /\ req' = [req EXCEPT ![r] = req'[r]]
          /\ req'[r].pc \in {"idle", "channels"}
      BY <1>0, <1>6 DEF UpdateWrite, Deactivate, RemoveFromChannels, SoftDelete,
                   PlanWrite, Goto, Request
    <2>3. AdmittedHaveRow'
      BY <2>1, <2>2, AdmittedStays
    <2> QED
      BY <2>1, <2>3 DEF TypeOK
  <1>7. ASSUME NEW r \in Req, HardDelete(r) PROVE MembershipInv'
    BY <1>7, <1>0 DEF HardDelete, AdmittedHaveRow, NoInvite
  <1>8. ASSUME NEW u \in User, Expire(u) PROVE MembershipInv'
    BY <1>8, <1>0 DEF Expire, AdmittedHaveRow, InviteRow
  <1>9. CASE UNCHANGED vars
    BY <1>9 DEF vars, AdmittedHaveRow
  <1> QED
    BY <1>2, <1>3, <1>4, <1>5, <1>6, <1>7, <1>8, <1>9, StepKinds,
       MembershipWrite DEF Next

LEMMA MembershipCorrect == Spec => []MembershipInv
  BY MembershipInit, MembershipNext, TypeCorrect, PTL DEF Spec

\* Whoever holds an ACCEPTED invite or is in #general has a member row, however
\* acceptInvite overlaps with other requests and wherever it is cut off.
THEOREM AdmittedAreMembers == Spec => []Inv
  <1>1. TypeOK /\ MembershipInv => Inv
    BY DEF MembershipInv, Inv
  <1> QED
    BY <1>1, TypeCorrect, MembershipCorrect, PTL

-----------------------------------------------------------------------------
(* Who can own the workspace                                               *)

\* Where no invite offers ownership, the role OWNER lives in one member row
\* and, for the time it takes to refuse it, in updateMember.
NoOwnerElsewhere ==
    /\ \A u \in User : u # Creator => member[u].role # "OWNER"
    /\ \A u \in User : invite[u].role # "OWNER"
    /\ \A r \in Req : req[r].role = "OWNER" =>
                         req[r].pc \in {"update_self", "update_target"}

OwnerInv == "OWNER" \notin InviteRoles => NoOwnerElsewhere

LEMMA OwnerInit == Init => OwnerInv
  <1> SUFFICES ASSUME Init, "OWNER" \notin InviteRoles PROVE NoOwnerElsewhere
    BY DEF OwnerInv
  <1> QED
    BY DEF Init, NoInvite, NoMember, Blank, NoOwnerElsewhere

LEMMA OwnerNext == TypeOK /\ OwnerInv /\ [Next]_vars => OwnerInv'
  <1> SUFFICES ASSUME TypeOK, NoOwnerElsewhere, "OWNER" \notin InviteRoles,
                      [Next]_vars
               PROVE  NoOwnerElsewhere'
    BY DEF OwnerInv
  <1>0. /\ Blank.pc = "idle" /\ Blank.role = "MEMBER" /\ req \in [Req -> Request]
        /\ member \in [User -> MemberRow] /\ invite \in [User -> InviteRow]
        /\ \A r \in Req : req[r].who \in User
    BY DEF Blank, TypeOK, Request
  <1>1. ASSUME NEW r \in Req, req' = [req EXCEPT ![r] = req'[r]],
               \A u \in User : u # Creator => member'[u].role # "OWNER",
               \A u \in User : invite'[u].role # "OWNER",
               req'[r].role = "OWNER" =>
                  req'[r].pc \in {"update_self", "update_target"}
        PROVE  NoOwnerElsewhere'
    BY <1>0, <1>1 DEF NoOwnerElsewhere
  <1>2. ASSUME NEW r \in Req, Call(r) PROVE NoOwnerElsewhere'
    <2>1. PICK q \in Request : Starts(r, q)
      BY <1>2, CallShape
    <2>2. req'[r] = q /\ q.who \in User
      BY <1>0, <2>1 DEF Starts, Request
    <2>3. q.role = "OWNER" => q.pc = "update_self"
      BY <2>1, <2>2 DEF Starts, NoOwnerElsewhere
    <2> QED
      BY <2>1, <2>2, <2>3, <1>1 DEF Starts, db, NoOwnerElsewhere
  <1>3. ASSUME NEW r \in Req, Quietly(r) PROVE NoOwnerElsewhere'
    <2>1. /\ UNCHANGED db /\ req' = [req EXCEPT ![r] = req'[r]]
          /\ req'[r] = Blank \/ Proceeds(r, req'[r])
      BY <1>3, QuietShape
    <2>2. req'[r].role = "OWNER" => req'[r].pc \in {"update_self", "update_target"}
      BY <1>0, <2>1 DEF Proceeds, NoOwnerElsewhere
    <2> QED
      BY <2>1, <2>2, <1>1 DEF db, NoOwnerElsewhere
  <1>4. ASSUME NEW r \in Req, NEW q \in Request, q.role \in {req[r].role, "MEMBER"},
               req[r].pc \notin {"update_self", "update_target"},
               req' = [req EXCEPT ![r] = q],
               \A u \in User : u # Creator =>
                  member'[u].role \in {member[u].role, req[r].role, "MEMBER"},
               \A u \in User :
                  invite'[u].role \in {invite[u].role, req[r].role, "MEMBER"}
        PROVE  NoOwnerElsewhere'
    BY <1>0, <1>1, <1>4 DEF NoOwnerElsewhere
  <1> USE BlankType
  <1>5. ASSUME NEW r \in Req, InviteWrite(r) PROVE NoOwnerElsewhere'
    <2>1. PICK u \in req[r].todo :
            /\ invite[u].token < MaxToken /\ req[r].pc = "invite_write"
            /\ req' = [req EXCEPT ![r] =
                         [Goto(r, "invite_mail") EXCEPT
                            !.who = u, !.token = invite[u].token + 1]]
            /\ invite' = [invite EXCEPT ![u] =
                            [status |-> "PENDING", role |-> req[r].role,
                             token |-> invite[u].token + 1,
                             expired |-> FALSE, mailed |-> FALSE]]
            /\ UNCHANGED member
      BY <1>5 DEF InviteWrite
    <2>2. /\ \A v \in User : invite'[v].role \in {invite[v].role, req[r].role}
          /\ u \in User /\ invite[u].token + 1 \in 0..MaxToken
      BY <1>0, <2>1, LimitAssumption DEF Request, InviteRow
    <2>3. Goto(r, "invite_mail") \in Request
      BY GotoType DEF Label
    <2>4. /\ [Goto(r, "invite_mail") EXCEPT
                !.who = u, !.token = invite[u].token + 1] \in Request
          /\ [Goto(r, "invite_mail") EXCEPT
                !.who = u, !.token = invite[u].token + 1].role
               = Goto(r, "invite_mail").role
      BY <2>2, <2>3 DEF Request
    <2>5. Goto(r, "invite_mail").role = req[r].role
      BY <1>0 DEF Goto, Request
    <2> QED
      BY <2>1, <2>2, <2>4, <2>5, <1>4
  <1>6. ASSUME NEW r \in Req, InviteMail(r) PROVE NoOwnerElsewhere'
    <2>1. \A u \in User : invite'[u].role = invite[u].role
      BY <1>0, <1>6 DEF InviteMail, Mailed, InviteRow
    <2>2. /\ req' = [req EXCEPT ![r] = req'[r]]
          /\ req'[r].role \in {req[r].role, "MEMBER"}
          /\ req'[r].pc \in {"idle", "invite_write"}
      BY <1>0, <1>6 DEF InviteMail, Request
    <2> QED
      BY <1>0, <1>1, <1>6, <2>1, <2>2 DEF InviteMail, NoOwnerElsewhere
  <1>7. ASSUME NEW r \in Req,
               \/ ResendMail(r) \/ RevokeWrite(r) \/ DeclineWrite(r)
               \/ AcceptCloseInvite(r)
        PROVE  NoOwnerElsewhere'
    <2>1. \A u \in User : invite'[u].role = invite[u].role
      BY <1>0, <1>7 DEF ResendMail, RevokeWrite, DeclineWrite,
                   AcceptCloseInvite, CloseInvite, Mailed, InviteRow
    <2>2. req' = [req EXCEPT ![r] = Blank] /\ UNCHANGED member
      BY <1>7 DEF ResendMail, RevokeWrite, DeclineWrite, AcceptCloseInvite,
                  CloseInvite
    <2> QED
      BY <1>0, <1>1, <2>1, <2>2 DEF NoOwnerElsewhere
  <1>8. ASSUME NEW r \in Req, NEW label \in Label, req' = [req EXCEPT ![r] = Goto(r, label)],
               req[r].pc \notin {"update_self", "update_target"},
               \A u \in User : u # Creator =>
                  member'[u].role \in {member[u].role, req[r].role},
               \A u \in User : invite'[u].role = invite[u].role
        PROVE  NoOwnerElsewhere'
    <2>1. Goto(r, label).role = req[r].role
      BY <1>0 DEF Goto, Request
    <2> QED
      BY <1>4, <1>8, <2>1, GotoType
  <1>9. ASSUME NEW r \in Req,
               \/ ResendWrite(r) \/ AcceptUpdateMember(r)
               \/ AcceptCreateMember(r) \/ AcceptJoinGeneral(r) \/ Deactivate(r)
        PROVE  NoOwnerElsewhere'
    <2>1. CASE ResendWrite(r)
      BY <1>0, <1>8, <2>1 DEF ResendWrite, InviteRow, Label
    <2>2. CASE AcceptUpdateMember(r) \/ AcceptCreateMember(r)
      BY <1>0, <1>8, <2>2 DEF AcceptUpdateMember, AcceptCreateMember, Activate,
                              Label
    <2>3. CASE AcceptJoinGeneral(r)
      BY <1>0, <1>8, <2>3 DEF AcceptJoinGeneral, Label
    <2>4. CASE Deactivate(r)
      BY <1>0, <1>8, <2>4 DEF Deactivate, MemberRow, Label
    <2> QED
      BY <1>9, <2>1, <2>2, <2>3, <2>4
  <1>10. ASSUME NEW r \in Req,
                \/ UpdateWrite(r) \/ RemoveFromChannels(r) \/ SoftDelete(r)
                \/ PlanWrite(r) \/ HardDelete(r)
         PROVE  NoOwnerElsewhere'
    <2>1. /\ req' = [req EXCEPT ![r] = Blank]
          /\ req[r].pc \notin {"update_self", "update_target"}
      BY <1>10 DEF UpdateWrite, RemoveFromChannels, SoftDelete, PlanWrite,
                   HardDelete
    <2>2. /\ \A u \in User :
                member'[u].role \in {member[u].role, req[r].role, "MEMBER"}
          /\ \A u \in User : invite'[u].role \in {invite[u].role, "MEMBER"}
      BY <1>0, <1>10 DEF UpdateWrite, RemoveFromChannels, SoftDelete, PlanWrite,
                   HardDelete, NoMember, NoInvite, MemberRow
    <2> QED
      BY <1>0, <1>4, <2>1, <2>2
  <1>11. ASSUME NEW u \in User, Expire(u) PROVE NoOwnerElsewhere'
    BY <1>0, <1>11 DEF Expire, NoOwnerElsewhere, InviteRow
  <1>12. CASE UNCHANGED vars
    BY <1>12 DEF vars, NoOwnerElsewhere
  <1> QED
    BY <1>2, <1>3, <1>5, <1>6, <1>7, <1>9, <1>10, <1>11, <1>12, StepKinds
    DEF Next

LEMMA OwnerCorrect == Spec => []OwnerInv
  BY OwnerInit, OwnerNext, TypeCorrect, PTL DEF Spec

\* Without invites that offer ownership nobody but the founder is ever an
\* owner: updateMember refuses the role before it writes.
THEOREM OnlyInvitesMakeOwners == Spec => []OwnersAreFounderOrInvited
  <1>1. OwnerInv => OwnersAreFounderOrInvited
    BY DEF OwnerInv, NoOwnerElsewhere, OwnersAreFounderOrInvited, Owners
  <1> QED
    BY <1>1, OwnerCorrect, PTL

-----------------------------------------------------------------------------
(* The founder stays                                                       *)

\* What every step relies on: the founder's row, and that no handler that is
\* about to write a member row has the founder for its target.
FounderSafe ==
    /\ member[Creator] = [row |-> "active", role |-> "OWNER"]
    /\ \A r \in Req :
         req[r].pc \in {"update_write", "deactivate", "accept_create",
                        "accept_update"} => req[r].who # Creator

\* The second conjunct keeps the founder who never asks to leave away from the
\* two reads of leaveWorkspace.
FounderInv ==
    /\ FounderProtected => ws = "gone" \/ FounderSafe
    /\ \A r \in Req :
         req[r].pc \in {"leave_member", "leave_count"} => req[r].who \in Leavers

LEMMA FounderInit == Init => FounderInv
  BY UserAssumption DEF Init, Blank, FounderInv, FounderSafe

\* The founder, as long as owner, is the only owner where nobody is offered
\* the role.
LEMMA FounderAlone ==
  ASSUME OwnerInv, "OWNER" \notin InviteRoles, FounderSafe
  PROVE  Cardinality(Owners) = 1
  <1>1. Owners = {Creator}
    BY UserAssumption DEF Owners, Active, OwnerInv, NoOwnerElsewhere, FounderSafe
  <1> QED
    BY <1>1, FS_Singleton

LEMMA FounderNext ==
  TypeOK /\ OwnerInv /\ FounderInv /\ [Next]_vars => FounderInv'
  <1> SUFFICES ASSUME TypeOK, OwnerInv, FounderInv, [Next]_vars PROVE FounderInv'
    OBVIOUS
  <1>0. /\ Blank.pc = "idle" /\ req \in [Req -> Request]
        /\ member \in [User -> MemberRow]
        /\ \A r \in Req : req[r].who \in User
    BY DEF Blank, TypeOK, Request
  <1>1. ASSUME NEW r \in Req, req' = [req EXCEPT ![r] = req'[r]],
               ws = "gone" => ws' = "gone",
               req'[r].pc \in {"leave_member", "leave_count"} =>
                  req'[r].who \in Leavers,
               FounderProtected /\ FounderSafe =>
                  \/ ws' = "gone"
                  \/ /\ member'[Creator] = member[Creator]
                     /\ req'[r].pc \in {"update_write", "deactivate",
                                        "accept_create", "accept_update"}
                          => req'[r].who # Creator
        PROVE  FounderInv'
    BY <1>0, <1>1 DEF FounderInv, FounderSafe, FounderProtected
  <1>2. ASSUME NEW r \in Req, Call(r) PROVE FounderInv'
    <2>1. PICK q \in Request : Starts(r, q)
      BY <1>2, CallShape
    <2>2. req'[r] = q
      BY <1>0, <2>1 DEF Starts
    <2> QED
      BY <2>1, <2>2, <1>1 DEF Starts, db
  <1>3. ASSUME NEW r \in Req, Quietly(r) PROVE FounderInv'
    <2>1. /\ UNCHANGED db /\ req' = [req EXCEPT ![r] = req'[r]]
          /\ req'[r] = Blank \/ Proceeds(r, req'[r])
      BY <1>3, QuietShape
    <2>2. req'[r].pc \in {"leave_member", "leave_count"} => req'[r].who \in Leavers
      BY <1>0, <2>1 DEF Proceeds, FounderInv
    <2>3. ASSUME FounderProtected, FounderSafe,
                 req'[r].pc \in {"update_write", "deactivate",
                                 "accept_create", "accept_update"}
          PROVE  req'[r].who # Creator
      <3>1. Proceeds(r, req'[r])
        BY <1>0, <2>1, <2>3
      <3>2. CASE req'[r].pc \in {"update_write", "accept_create", "accept_update"}
        BY <2>3, <3>1, <3>2 DEF Proceeds, Active, FounderSafe
      <3>3. CASE req'[r].pc = "deactivate"
        <4>1. CASE member[req'[r].who].role # "OWNER"
          BY <4>1, <2>3 DEF FounderSafe
        <4>2. CASE req[r].pc = "leave_count" /\ Cardinality(Owners) # 1
          <5>1. "OWNER" \in InviteRoles
            BY <4>2, <2>3, FounderAlone
          <5>2. Creator \notin Leavers /\ req[r].who \in Leavers
            BY <5>1, <4>2, <2>3 DEF FounderProtected, FounderInv
          <5> QED
            BY <5>2, <3>1 DEF Proceeds
        <4> QED
          BY <3>1, <3>3, <4>1, <4>2 DEF Proceeds
      <3> QED
        BY <2>3, <3>2, <3>3
    <2> QED
      BY <2>1, <2>2, <2>3, <1>1 DEF db
  <1>4. ASSUME NEW r \in Req, UNCHANGED member, ws = "gone" => ws' = "gone",
               req' = [req EXCEPT ![r] = req'[r]],
               req'[r].pc \in {"idle", "invite_mail", "invite_write",
                               "resend_mail", "accept_close"}
        PROVE  FounderInv'
    BY <1>1, <1>4
  <1>5. ASSUME NEW r \in Req, InviteWrite(r) PROVE FounderInv'
    <2>1. PICK u \in req[r].todo :
            /\ req' = [req EXCEPT ![r] =
                         [Goto(r, "invite_mail") EXCEPT
                            !.who = u, !.token = invite[u].token + 1]]
            /\ UNCHANGED <<ws, member>>
      BY <1>5 DEF InviteWrite
    <2>2. req'[r].pc = "invite_mail" /\ req' = [req EXCEPT ![r] = req'[r]]
      BY <1>0, <2>1 DEF Goto, Request
    <2> QED
      BY <2>1, <2>2, <1>4
  <1>6. ASSUME NEW r \in Req,
               \/ InviteMail(r) \/ ResendWrite(r) \/ ResendMail(r)
               \/ RevokeWrite(r) \/ DeclineWrite(r) \/ AcceptCloseInvite(r)
               \/ AcceptJoinGeneral(r) \/ RemoveFromChannels(r)
               \/ SoftDelete(r) \/ PlanWrite(r)
        PROVE  FounderInv'
    <2>1. UNCHANGED member /\ (ws = "gone" => ws' = "gone")
      BY <1>6 DEF InviteMail, ResendWrite, ResendMail, RevokeWrite, DeclineWrite,
                  AcceptCloseInvite, CloseInvite, AcceptJoinGeneral,
                  RemoveFromChannels, SoftDelete, PlanWrite
    <2>2. CASE InviteMail(r)
      <3>1. /\ req' = [req EXCEPT ![r] = req'[r]]
            /\ req'[r].pc \in {"idle", "invite_write"}
        BY <1>0, <2>2 DEF InviteMail, Request
      <3> QED
        BY <2>1, <3>1, <1>4
    <2>3. CASE ResendWrite(r)
      BY <1>0, <1>4, <2>1, <2>3 DEF ResendWrite, Goto, Request
    <2>4. CASE AcceptJoinGeneral(r)
      BY <1>0, <1>4, <2>1, <2>4 DEF AcceptJoinGeneral, Goto, Request
    <2>5. CASE \/ ResendMail(r) \/ RevokeWrite(r) \/ DeclineWrite(r)
               \/ AcceptCloseInvite(r) \/ RemoveFromChannels(r)
               \/ SoftDelete(r) \/ PlanWrite(r)
      BY <1>0, <1>4, <2>1, <2>5 DEF ResendMail, RevokeWrite, DeclineWrite,
         AcceptCloseInvite, CloseInvite, RemoveFromChannels, SoftDelete, PlanWrite
    <2> QED
      BY <1>6, <2>2, <2>3, <2>4, <2>5
  <1>7. ASSUME NEW r \in Req,
               \/ AcceptUpdateMember(r) \/ AcceptCreateMember(r)
               \/ UpdateWrite(r) \/ Deactivate(r)
        PROVE  FounderInv'
    <2>1. /\ UNCHANGED ws
          /\ req' = [req EXCEPT ![r] = req'[r]]
          /\ req'[r].pc \in {"idle", "accept_general", "channels"}
      BY <1>0, <1>7 DEF AcceptUpdateMember, AcceptCreateMember, Activate,
                        UpdateWrite, Deactivate, Goto, Request
    <2>2. FounderSafe => req[r].who # Creator
      BY <1>7 DEF AcceptUpdateMember, AcceptCreateMember, Activate, UpdateWrite,
                  Deactivate, FounderSafe
    <2>3. \A u \in User : u # req[r].who => member'[u] = member[u]
      BY <1>0, <1>7 DEF AcceptUpdateMember, AcceptCreateMember, Activate,
                        UpdateWrite, Deactivate
    <2> QED
      BY <2>1, <2>2, <2>3, <1>1, UserAssumption
  <1>8. ASSUME NEW r \in Req, HardDelete(r) PROVE FounderInv'
    <2>1. ws' = "gone" /\ req' = [req EXCEPT ![r] = Blank]
      BY <1>8 DEF HardDelete
    <2> QED
      BY <1>0, <1>1, <2>1
  <1>9. ASSUME NEW u \in User, Expire(u) PROVE FounderInv'
    BY <1>9 DEF Expire, FounderInv, FounderSafe
  <1>10. CASE UNCHANGED vars
    BY <1>10 DEF vars, FounderInv, FounderSafe
  <1> QED
    BY <1>2, <1>3, <1>5, <1>6, <1>7, <1>8, <1>9, <1>10, StepKinds DEF Next

LEMMA FounderCorrect == Spec => []FounderInv
  BY FounderInit, FounderNext, OwnerCorrect, TypeCorrect, PTL DEF Spec

\* No interleaving of any number of requests, failing anywhere, takes the
\* ownership from a protected founder while the workspace exists.
THEOREM FounderIsKept == Spec => []FounderKeepsOwnership
  <1>1. FounderInv => FounderKeepsOwnership
    BY DEF FounderInv, FounderSafe, FounderKeepsOwnership
  <1> QED
    BY <1>1, FounderCorrect, PTL

-----------------------------------------------------------------------------
(* Requests that do not overlap                                            *)

ToClose == {"resend_workspace", "resend_self", "resend_write", "revoke_write",
            "decline_write"}
Joining == {"accept_workspace", "accept_member", "accept_update", "accept_create"}
Joined == {"accept_general", "accept_join", "accept_close"}
Updating == {"update_self", "update_target", "update_write"}

\* The invite that a request has found open is open until the request closes it.
FoundOpen(q) ==
    q.pc \in ToClose \cup Joining \cup Joined => invite[q.who].status = "PENDING"

MayJoin(q) ==
    /\ q.pc \in Joining => invite[q.who].mailed /\ q.role = invite[q.who].role
    /\ q.pc \in {"accept_update", "accept_create"} => ~Active(q.who)

\* Whoever is about to be deactivated leaves another owner behind.
OwnerRemains(q) ==
    /\ q.pc = "leave_count" => q.who \in Owners
    /\ q.pc = "deactivate" /\ ws # "gone" => \E o \in Owners : o # q.who

\* updateMember compares the roles that the two members have when it writes.
Outranks(q) ==
    /\ q.pc \in Updating => Level[member[q.by].role] >= Level["ADMIN"]
    /\ q.pc = "update_target" => q.seen = member[q.by].role
    /\ q.pc = "update_write" =>
         /\ Level[member[q.by].role] > Level[member[q.who].role]
         /\ member[q.who].role # "OWNER"

SerialAt(q) == FoundOpen(q) /\ MayJoin(q) /\ OwnerRemains(q) /\ Outranks(q)

SerialInv == SomeOwner /\ \A r \in Req : SerialAt(req[r])

\* Labels of which SerialAt says nothing.
Open == Label \ (ToClose \cup Joining \cup Joined \cup Updating
                   \cup {"leave_count", "deactivate"})

LEMMA OpenSerial ==
  ASSUME NEW q, q.pc \in Open
  PROVE  SerialAt(q) /\ SerialAt(q)'
  <1>1. /\ q.pc \notin ToClose /\ q.pc \notin Joining /\ q.pc \notin Joined
        /\ q.pc \notin Updating /\ q.pc # "leave_count" /\ q.pc # "deactivate"
    BY DEF Open
  <1>2. FoundOpen(q) /\ FoundOpen(q)'
    BY <1>1 DEF FoundOpen
  <1>3. MayJoin(q) /\ MayJoin(q)'
    BY <1>1 DEF MayJoin, Joining
  <1>4. OwnerRemains(q) /\ OwnerRemains(q)'
    BY <1>1 DEF OwnerRemains
  <1>5. Outranks(q) /\ Outranks(q)'
    BY <1>1 DEF Outranks, Updating
  <1> QED
    BY <1>2, <1>3, <1>4, <1>5 DEF SerialAt

LEMMA BlankOpen == Blank.pc \in Open
  BY DEF Blank, Open, Label, ToClose, Joining, Joined, Updating

LEMMA SerialInit == Init => SerialInv
  <1> SUFFICES ASSUME Init PROVE SerialInv
    OBVIOUS
  <1>1. Creator \in Owners
    BY UserAssumption DEF Init, Owners, Active
  <1>2. \A r \in Req : SerialAt(req[r])
    BY BlankOpen, OpenSerial DEF Init
  <1> QED
    BY <1>1, <1>2 DEF SerialInv, SomeOwner

\* A step of the only request, to the record q, that writes nothing.
LEMMA SerialRead ==
  ASSUME TypeOK, SerialInv, NEW r, Req = {r}, NEW q, UNCHANGED db,
         req' = [req EXCEPT ![r] = q], SerialAt(q)
  PROVE  SerialInv'
  <1>1. req'[r] = q
    BY DEF TypeOK
  <1>2. SerialAt(q)'
    BY DEF SerialAt, FoundOpen, MayJoin, OwnerRemains, Outranks, db, Active, Owners
  <1>3. SomeOwner'
    BY DEF SerialInv, SomeOwner, db, Active, Owners
  <1> QED
    BY <1>1, <1>2, <1>3 DEF SerialInv

LEMMA SerialCall ==
  ASSUME TypeOK, SerialInv, NEW r, Req = {r}, Call(r)
  PROVE  SerialInv'
  <1>0. r \in Req
    OBVIOUS
  <1>1. CASE AcceptArrive(r)
    <2>1. PICK u, q :
            /\ u \in User /\ Acceptable(u) /\ UNCHANGED db /\ req' = [req EXCEPT ![r] = q]
            /\ q = [Blank EXCEPT !.pc = "accept_workspace", !.by = u, !.who = u,
                                 !.role = invite[u].role, !.token = invite[u].token]
      BY <1>1 DEF AcceptArrive
    <2>2. q.pc = "accept_workspace" /\ q.who = u /\ q.role = invite[u].role
      BY <2>1 DEF Blank
    <2>3. SerialAt(q)
      BY <2>1, <2>2 DEF Acceptable, SerialAt, FoundOpen, MayJoin, OwnerRemains,
                        Outranks, Joining, Updating
    <2> QED
      BY <2>1, <2>3, SerialRead
  <1>2. CASE DeclineArrive(r)
    <2>1. PICK u, q :
            /\ u \in User /\ Acceptable(u) /\ UNCHANGED db /\ req' = [req EXCEPT ![r] = q]
            /\ q = [Blank EXCEPT !.pc = "decline_write", !.by = u, !.who = u]
      BY <1>2 DEF DeclineArrive
    <2>2. q.pc = "decline_write" /\ q.who = u
      BY <2>1 DEF Blank
    <2>3. SerialAt(q)
      BY <2>1, <2>2 DEF Acceptable, SerialAt, FoundOpen, MayJoin, OwnerRemains,
                        Outranks, Joining, Updating
    <2> QED
      BY <2>1, <2>3, SerialRead
  <1>3. CASE UpdateArrive(r)
    <2>1. PICK u, v, new, q :
            /\ u \in User /\ v \in User /\ new \in UpdateRoles
            /\ WorkspaceRoleGuard(u, "ADMIN") /\ UNCHANGED db
            /\ req' = [req EXCEPT ![r] = q]
            /\ q = [Blank EXCEPT !.pc = "update_self", !.by = u, !.who = v, !.role = new]
      BY <1>3 DEF UpdateArrive
    <2>2. q.pc = "update_self" /\ q.by = u
      BY <2>1 DEF Blank
    <2>3. SerialAt(q)
      BY <2>1, <2>2 DEF WorkspaceRoleGuard, SerialAt, FoundOpen, MayJoin, OwnerRemains,
                        Outranks, ToClose, Joining, Joined
    <2> QED
      BY <2>1, <2>3, SerialRead
  <1>4. ASSUME NEW q, UNCHANGED db, req' = [req EXCEPT ![r] = q], q.pc \in Open
        PROVE  SerialInv'
    BY <1>4, OpenSerial, SerialRead
  <1>l. {"invite_workspace", "resend_find", "revoke_find", "remove_target",
         "leave_member", "delete_find", "plan_write", "purge_write"} \subseteq Open
    BY DEF Open, Label, ToClose, Joining, Joined, Updating
  <1>5. ASSUME InviteArrive(r) \/ ResendArrive(r) \/ RevokeArrive(r) \/ RemoveArrive(r)
                 \/ LeaveArrive(r) \/ DeleteArrive(r) \/ PlanArrive(r) \/ PurgeArrive(r)
        PROVE  SerialInv'
    <2> DEFINE Begins(pc) == /\ UNCHANGED db /\ req' = [req EXCEPT ![r] = req'[r]]
                             /\ req'[r].pc = pc
    <2>0. req \in [Req -> Request]
      BY DEF TypeOK
    <2>1. CASE InviteArrive(r)
      <3>1. Begins("invite_workspace")
        BY <2>0, <2>1 DEF InviteArrive, Blank
      <3> QED
        BY <1>4, <3>1, <1>l
    <2>2. CASE ResendArrive(r)
      <3>1. Begins("resend_find")
        BY <2>0, <2>2 DEF ResendArrive, OnInvite, Blank
      <3> QED
        BY <1>4, <3>1, <1>l
    <2>3. CASE RevokeArrive(r)
      <3>1. Begins("revoke_find")
        BY <2>0, <2>3 DEF RevokeArrive, OnInvite, Blank
      <3> QED
        BY <1>4, <3>1, <1>l
    <2>4. CASE RemoveArrive(r)
      <3>1. Begins("remove_target")
        BY <2>0, <2>4 DEF RemoveArrive, Blank
      <3> QED
        BY <1>4, <3>1, <1>l
    <2>5. CASE LeaveArrive(r)
      <3>1. Begins("leave_member")
        BY <2>0, <2>5 DEF LeaveArrive, Blank
      <3> QED
        BY <1>4, <3>1, <1>l
    <2>6. CASE DeleteArrive(r)
      <3>1. Begins("delete_find")
        BY <2>0, <2>6 DEF DeleteArrive, Blank
      <3> QED
        BY <1>4, <3>1, <1>l
    <2>7. CASE PlanArrive(r)
      <3>1. Begins("plan_write")
        BY <2>0, <2>7 DEF PlanArrive, Blank
      <3> QED
        BY <1>4, <3>1, <1>l
    <2>8. CASE PurgeArrive(r)
      <3>1. Begins("purge_write")
        BY <2>0, <2>8 DEF PurgeArrive, Blank
      <3> QED
        BY <1>4, <3>1, <1>l
    <2> QED
      BY <1>5, <2>1, <2>2, <2>3, <2>4, <2>5, <2>6, <2>7, <2>8
  <1> QED
    BY <1>1, <1>2, <1>3, <1>5 DEF Call

\* A look-up goes on with "next", or ends the request.
LEMMA SerialLookup ==
  ASSUME TypeOK, SerialInv, NEW r, Req = {r}, NEW label, NEW ok, NEW next,
         Read(r, label, ok, next), ok => SerialAt(next)
  PROVE  SerialInv'
  <1>1. SerialAt(Blank)
    BY BlankOpen, OpenSerial
  <1> QED
    BY <1>1, SerialRead

\* The reads that come after a request has found something.
LEMMA SerialFinds ==
  ASSUME TypeOK, SerialInv, NEW r, Req = {r},
         \/ ResendFindInvite(r) \/ ResendFindWorkspace(r) \/ ResendFindSelf(r)
         \/ RevokeFindInvite(r) \/ AcceptFindWorkspace(r) \/ AcceptFindMember(r)
         \/ AcceptFindGeneral(r) \/ UpdateFindSelf(r) \/ UpdateFindTarget(r)
         \/ RemoveFindTarget(r) \/ LeaveFindMember(r) \/ LeaveCountOwners(r)
  PROVE  SerialInv'
  <1> DEFINE q == req[r]
  <1>0. /\ q \in Request /\ SerialAt(q)
        /\ \A label : /\ Goto(r, label).pc = label /\ Goto(r, label).who = q.who
                      /\ Goto(r, label).by = q.by /\ Goto(r, label).role = q.role
                      /\ Goto(r, label).seen = q.seen
    BY DEF TypeOK, SerialInv, Request, Goto
  <1>arg. ASSUME NEW label \in ToClose, invite[q.who].status = "PENDING"
        PROVE  SerialAt(Goto(r, label))
    BY <1>0, <1>arg DEF SerialAt, FoundOpen, MayJoin, OwnerRemains, Outranks, ToClose,
                      Joining, Updating
  <1>1. CASE ResendFindInvite(r)
    <2> DEFINE next == [Goto(r, "resend_workspace") EXCEPT !.token = invite[q.who].token]
    <2>1. next.pc = "resend_workspace" /\ next.who = q.who
      BY <1>0 DEF Goto, Request
    <2>2. invite[q.who].status = "PENDING" => SerialAt(next)
      BY <2>1 DEF SerialAt, FoundOpen, MayJoin, OwnerRemains, Outranks, Joining, Updating
    <2>3. Read(r, "resend_find", invite[q.who].status = "PENDING", next)
      BY <1>1 DEF ResendFindInvite, Pending
    <2> HIDE DEF next
    <2> QED
      BY <2>2, <2>3, SerialLookup
  <1>2. CASE ResendFindWorkspace(r) \/ ResendFindSelf(r) \/ RevokeFindInvite(r)
    <2>1. PICK label \in ToClose, old \in ToClose \cup {"revoke_find"}, ok \in BOOLEAN :
            /\ Read(r, old, ok, Goto(r, label))
            /\ old = "revoke_find" => (ok <=> invite[q.who].status = "PENDING")
      BY <1>2 DEF ResendFindWorkspace, ResendFindSelf, RevokeFindInvite, Pending, ToClose
    <2>2. ok => invite[q.who].status = "PENDING"
      BY <1>0, <2>1 DEF SerialAt, FoundOpen
    <2> QED
      BY <1>arg, <2>1, <2>2, SerialLookup
  <1>3. CASE AcceptFindWorkspace(r) \/ AcceptFindMember(r)
    <2>1. PICK label \in {"accept_member", "accept_update", "accept_create"}, ok \in BOOLEAN :
            /\ \E old \in Joining : Read(r, old, ok, Goto(r, label))
            /\ label # "accept_member" => (ok => ~Active(q.who))
      BY <1>3 DEF AcceptFindWorkspace, AcceptFindMember, Joining
    <2>2. ok => SerialAt(Goto(r, label))
      BY <1>0, <2>1 DEF SerialAt, FoundOpen, MayJoin, OwnerRemains, Outranks, ToClose,
                        Joining, Updating
    <2> QED
      BY <2>1, <2>2, SerialLookup
  <1>4. CASE AcceptFindGeneral(r)
    <2>1. PICK label \in {"accept_close", "accept_join"} :
            Read(r, "accept_general", TRUE, Goto(r, label))
      BY <1>4 DEF AcceptFindGeneral
    <2>2. SerialAt(Goto(r, label))
      BY <1>0, <2>1 DEF SerialAt, FoundOpen, MayJoin, OwnerRemains, Outranks, Joined,
                        Joining, Updating
    <2> QED
      BY <2>1, <2>2, SerialLookup
  <1>5. CASE UpdateFindSelf(r)
    <2> DEFINE next == [Goto(r, "update_target") EXCEPT !.seen = member[q.by].role]
    <2>1. /\ next.pc = "update_target" /\ next.by = q.by
          /\ next.seen = member[q.by].role
      BY <1>0 DEF Goto, Request
    <2>2. Read(r, "update_self", Active(q.by), next)
      BY <1>5 DEF UpdateFindSelf
    <2>3. SerialAt(next)
      BY <1>0, <2>1, <2>2 DEF SerialAt, FoundOpen, MayJoin, OwnerRemains, Outranks,
                              ToClose, Joined, Joining, Updating
    <2> HIDE DEF next
    <2> QED
      BY <2>2, <2>3, SerialLookup
  <1>6. CASE UpdateFindTarget(r)
    <2> DEFINE ok == /\ Active(q.who)
                     /\ member[q.who].role # "OWNER"
                     /\ q.role # "OWNER"
                     /\ q.seen = "ADMIN" => Level[member[q.who].role] < Level["ADMIN"]
    <2>1. Read(r, "update_target", ok, Goto(r, "update_write"))
      BY <1>6 DEF UpdateFindTarget
    <2>2. member[q.by].role \in Role /\ member[q.who].role \in Role
      BY <1>0 DEF TypeOK, Request, MemberRow
    <2>3. q.seen = member[q.by].role /\ Level[member[q.by].role] >= Level["ADMIN"]
      BY <1>0, <2>1 DEF SerialAt, Outranks, Updating
    <2>4. ok => Level[member[q.by].role] > Level[member[q.who].role]
      BY <2>2, <2>3 DEF Level, Role
    <2>5. ok => SerialAt(Goto(r, "update_write"))
      BY <1>0, <2>3, <2>4 DEF SerialAt, FoundOpen, MayJoin, OwnerRemains, Outranks,
                              ToClose, Joined, Joining
    <2> HIDE DEF ok
    <2> QED
      BY <2>1, <2>5, SerialLookup
  <1>7. CASE RemoveFindTarget(r) \/ LeaveFindMember(r) \/ LeaveCountOwners(r)
    <2>0. /\ q.who \in User /\ SomeOwner
          /\ q.pc = "leave_count" => q.who \in Owners
      BY <1>0 DEF Request, SerialInv, SerialAt, OwnerRemains
    <2>1. ASSUME NEW o \in Owners, o # q.who PROVE SerialAt(Goto(r, "deactivate"))
      BY <1>0, <2>1 DEF SerialAt, FoundOpen, MayJoin, OwnerRemains, Outranks, ToClose,
                        Joined, Joining, Updating
    <2>2. ASSUME member[q.who].role # "OWNER" PROVE SerialAt(Goto(r, "deactivate"))
      <3>1. ws # "gone" => \E o \in Owners : o # q.who
        BY <2>0, <2>2 DEF SomeOwner, Owners
      <3> QED
        BY <1>0, <3>1 DEF SerialAt, FoundOpen, MayJoin, OwnerRemains, Outranks, ToClose,
                          Joined, Joining, Updating
    <2>3. ASSUME q.who \in Owners PROVE SerialAt(Goto(r, "leave_count"))
      BY <1>0, <2>3 DEF SerialAt, FoundOpen, MayJoin, OwnerRemains, Outranks, ToClose,
                        Joined, Joining, Updating
    <2>4. CASE RemoveFindTarget(r)
      BY <2>2, <2>4, SerialLookup DEF RemoveFindTarget
    <2>5. CASE LeaveFindMember(r)
      <3>1. CASE member[q.who].role = "OWNER"
        <4>1. Active(q.who) => q.who \in Owners
          BY <2>0, <3>1 DEF Owners
        <4> QED
          BY <2>3, <2>5, <3>1, <4>1, SerialLookup DEF LeaveFindMember
      <3>2. CASE member[q.who].role # "OWNER"
        BY <2>2, <2>5, <3>2, SerialLookup DEF LeaveFindMember
      <3> QED
        BY <3>1, <3>2
    <2>6. CASE LeaveCountOwners(r)
      <3>1. Read(r, "leave_count", Cardinality(Owners) # 1, Goto(r, "deactivate"))
        BY <2>6 DEF LeaveCountOwners
      <3>2. q.who \in Owners
        BY <2>0, <3>1
      <3>3. Cardinality(Owners) # 1 => \E o \in Owners : o # q.who
        <4>1. Owners # {q.who} => \E o \in Owners : o # q.who
          BY <3>2
        <4> QED
          BY <4>1, FS_Singleton
      <3> QED
        BY <2>1, <3>1, <3>3, SerialLookup
    <2> QED
      BY <1>7, <2>4, <2>5, <2>6
  <1> QED
    BY <1>1, <1>2, <1>3, <1>4, <1>5, <1>6, <1>7

\* A step of the only request, to the record q, that writes.
LEMMA SerialWrite ==
  ASSUME TypeOK, SerialInv, NEW r, Req = {r}, NEW q, req' = [req EXCEPT ![r] = q],
         \/ q.pc \in Open
         \/ q.pc \in Joined /\ invite'[q.who].status = "PENDING",
         SomeOwner'
  PROVE  SerialInv'
  <1>1. req'[r] = q
    BY DEF TypeOK
  <1>2. CASE q.pc \in Open
    BY <1>1, <1>2, OpenSerial DEF SerialInv
  <1>3. CASE q.pc \in Joined /\ invite'[q.who].status = "PENDING"
    <2>1. SerialAt(q)'
      BY <1>3 DEF SerialAt, FoundOpen, MayJoin, OwnerRemains, Outranks, Joining, Joined,
                  Updating
    <2> QED
      BY <1>1, <2>1 DEF SerialInv
  <1> QED
    BY <1>2, <1>3

\* Where a write leads to.
EndsRequest(r) ==
    \/ ResendMail(r) \/ RevokeWrite(r) \/ DeclineWrite(r) \/ AcceptCloseInvite(r)
    \/ UpdateWrite(r) \/ RemoveFromChannels(r) \/ SoftDelete(r) \/ PlanWrite(r)
    \/ HardDelete(r)

Admits(r) == AcceptUpdateMember(r) \/ AcceptCreateMember(r)

LeadsTo(r, labels) == req' = [req EXCEPT ![r] = req'[r]] /\ req'[r].pc \in labels

LEMMA WriteLabels ==
  ASSUME TypeOK, NEW r \in Req
  PROVE  /\ EndsRequest(r) => LeadsTo(r, {"idle"})
         /\ InviteWrite(r) => LeadsTo(r, {"invite_mail"})
         /\ InviteMail(r) => LeadsTo(r, {"idle", "invite_write"})
         /\ ResendWrite(r) => LeadsTo(r, {"resend_mail"})
         /\ Deactivate(r) => LeadsTo(r, {"channels"})
         /\ Admits(r) => LeadsTo(r, {"accept_general"}) /\ req'[r].who = req[r].who
         /\ AcceptJoinGeneral(r) =>
              LeadsTo(r, {"accept_close"}) /\ req'[r].who = req[r].who
  <1>0. req \in [Req -> Request] /\ req[r] \in Request /\ Blank.pc = "idle"
    BY DEF TypeOK, Blank
  <1> USE <1>0 DEF Goto, Request, LeadsTo
  <1>1. InviteWrite(r) => LeadsTo(r, {"invite_mail"})
    BY DEF InviteWrite
  <1>2. InviteMail(r) => LeadsTo(r, {"idle", "invite_write"})
    BY DEF InviteMail
  <1>3. ResendWrite(r) => LeadsTo(r, {"resend_mail"})
    BY DEF ResendWrite
  <1>4. Deactivate(r) => LeadsTo(r, {"channels"})
    BY DEF Deactivate
  <1>5. EndsRequest(r) => LeadsTo(r, {"idle"})
    BY DEF EndsRequest, ResendMail, RevokeWrite, DeclineWrite, AcceptCloseInvite,
           CloseInvite, UpdateWrite, RemoveFromChannels, SoftDelete, PlanWrite,
           HardDelete
  <1>6. Admits(r) => LeadsTo(r, {"accept_general"}) /\ req'[r].who = req[r].who
    BY DEF Admits, AcceptUpdateMember, AcceptCreateMember, Activate
  <1>7. AcceptJoinGeneral(r) =>
          LeadsTo(r, {"accept_close"}) /\ req'[r].who = req[r].who
    BY DEF AcceptJoinGeneral
  <1> QED
    BY <1>1, <1>2, <1>3, <1>4, <1>5, <1>6, <1>7

Writes(r) ==
    \/ EndsRequest(r) \/ InviteWrite(r) \/ InviteMail(r) \/ ResendWrite(r)
    \/ Deactivate(r) \/ Admits(r) \/ AcceptJoinGeneral(r)

LEMMA StepWrites ==
  ASSUME NEW r \in Req, Continue(r) \/ Fail(r)
  PROVE  Quietly(r) \/ Writes(r)
  BY StepKinds, Zenon DEF Writes, EndsRequest, Admits

LEMMA SerialWrites ==
  ASSUME TypeOK, SerialInv, NEW r, Req = {r}, Writes(r)
  PROVE  SerialInv'
  <1> DEFINE q == req[r]
  <1>0. /\ r \in Req /\ q \in Request /\ q.who \in User /\ SerialAt(q) /\ SomeOwner
        /\ member \in [User -> MemberRow]
    BY DEF TypeOK, SerialInv, Request
  <1>1. req' = [req EXCEPT ![r] = req'[r]]
    BY <1>0, WriteLabels DEF Writes, LeadsTo
  <1>2. {"idle", "invite_mail", "invite_write", "resend_mail", "channels"} \subseteq Open
    BY DEF Open, Label, ToClose, Joining, Joined, Updating
  <1>3. ASSUME UNCHANGED member, ws' = ws \/ (ws # "gone" /\ ws' # "gone")
        PROVE  SomeOwner'
    BY <1>0, <1>3 DEF SomeOwner, Owners, Active
  <1>4. CASE \/ InviteWrite(r) \/ InviteMail(r) \/ ResendWrite(r) \/ ResendMail(r)
             \/ RevokeWrite(r) \/ DeclineWrite(r) \/ AcceptCloseInvite(r)
             \/ RemoveFromChannels(r) \/ SoftDelete(r) \/ PlanWrite(r)
    <2>1. UNCHANGED member /\ (ws' = ws \/ (ws # "gone" /\ ws' # "gone"))
      BY <1>4 DEF InviteWrite, InviteMail, ResendWrite, ResendMail, RevokeWrite,
                  DeclineWrite, AcceptCloseInvite, CloseInvite, RemoveFromChannels,
                  SoftDelete, PlanWrite
    <2>2. req'[r].pc \in Open
      BY <1>0, <1>2, <1>4, WriteLabels DEF EndsRequest, LeadsTo
    <2> QED
      BY <1>1, <1>3, <2>1, <2>2, SerialWrite
  <1>5. CASE AcceptJoinGeneral(r)
    <2>1. /\ q.pc = "accept_join" /\ UNCHANGED <<ws, invite, member>>
          /\ req'[r].pc = "accept_close" /\ req'[r].who = q.who
      BY <1>0, <1>5, WriteLabels DEF AcceptJoinGeneral, LeadsTo
    <2>2. invite'[q.who].status = "PENDING" /\ req'[r].pc \in Joined
      BY <1>0, <2>1 DEF SerialAt, FoundOpen, Joined
    <2> QED
      BY <1>1, <1>3, <2>1, <2>2, SerialWrite
  <1>6. CASE Admits(r)
    <2>1. /\ q.pc \in {"accept_update", "accept_create"} /\ UNCHANGED <<ws, invite>>
          /\ member' = [member EXCEPT ![q.who] = [row |-> "active", role |-> q.role]]
          /\ req'[r].pc = "accept_general" /\ req'[r].who = q.who
      BY <1>0, <1>6, WriteLabels
         DEF Admits, AcceptUpdateMember, AcceptCreateMember, Activate, LeadsTo
    <2>2. /\ invite'[q.who].status = "PENDING" /\ req'[r].pc \in Joined
          /\ ~Active(q.who)
      BY <1>0, <2>1 DEF SerialAt, FoundOpen, MayJoin, Joining, Joined
    <2>3. SomeOwner'
      BY <1>0, <2>1, <2>2 DEF SomeOwner, Owners, Active
    <2> QED
      BY <1>1, <2>1, <2>2, <2>3, SerialWrite
  <1>7. CASE UpdateWrite(r)
    <2>1. /\ q.pc = "update_write" /\ UNCHANGED ws
          /\ member' = [member EXCEPT ![q.who].role = q.role]
      BY <1>7 DEF UpdateWrite
    <2>2. member[q.who].role # "OWNER"
      BY <1>0, <2>1 DEF SerialAt, Outranks
    <2>3. SomeOwner'
      BY <1>0, <2>1, <2>2 DEF SomeOwner, Owners, Active
    <2>4. req'[r].pc \in Open
      BY <1>0, <1>2, <1>7, WriteLabels DEF EndsRequest, LeadsTo
    <2> QED
      BY <1>1, <2>3, <2>4, SerialWrite
  <1>8. CASE Deactivate(r)
    <2>1. /\ q.pc = "deactivate" /\ UNCHANGED ws /\ ws # "gone"
          /\ member' = [member EXCEPT ![q.who].row = "inactive"]
      BY <1>8 DEF Deactivate
    <2>2. PICK o \in Owners : o # q.who
      BY <1>0, <2>1 DEF SerialAt, OwnerRemains
    <2>3. SomeOwner'
      BY <1>0, <2>1, <2>2 DEF SomeOwner, Owners, Active
    <2>4. req'[r].pc \in Open
      BY <1>0, <1>2, <1>8, WriteLabels DEF LeadsTo
    <2> QED
      BY <1>1, <2>3, <2>4, SerialWrite
  <1>9. CASE HardDelete(r)
    <2>1. SomeOwner'
      BY <1>9 DEF HardDelete, SomeOwner
    <2>2. req'[r].pc \in Open
      BY <1>0, <1>2, <1>9, WriteLabels DEF EndsRequest, LeadsTo
    <2> QED
      BY <1>1, <2>1, <2>2, SerialWrite
  <1> QED
    BY <1>4, <1>5, <1>6, <1>7, <1>8, <1>9 DEF Writes, EndsRequest, Admits

LEMMA SerialNext ==
  ASSUME NEW r, Req = {r}, TypeOK, SerialInv, [Next]_vars
  PROVE  SerialInv'
  <1>0. r \in Req
    OBVIOUS
  \* The look-ups that find nothing to remember.
  <1>1. CASE Quietly(r)
    <2> DEFINE Finds == \/ ResendFindInvite(r) \/ ResendFindWorkspace(r)
                        \/ ResendFindSelf(r) \/ RevokeFindInvite(r)
                        \/ AcceptFindWorkspace(r) \/ AcceptFindMember(r)
                        \/ AcceptFindGeneral(r) \/ UpdateFindSelf(r)
                        \/ UpdateFindTarget(r) \/ RemoveFindTarget(r)
                        \/ LeaveFindMember(r) \/ LeaveCountOwners(r)
    <2>1. CASE Finds
      BY <2>1, SerialFinds
    <2>2. CASE ~Finds
      <3>1. /\ UNCHANGED db /\ req' = [req EXCEPT ![r] = req'[r]]
        BY <1>0, <1>1, QuietShape
      <3>2. req'[r].pc \in {"idle", "invite_self", "invite_lookup", "invite_count",
                            "invite_count_members", "invite_count_invites",
                            "invite_write", "delete_count", "delete_write"}
        <4>1. req \in [Req -> Request] /\ req[r] \in Request /\ Blank.pc = "idle"
          BY <1>0 DEF TypeOK, Blank
        <4> USE <1>0, <4>1 DEF Goto, Request
        <4>2. CASE InviteFindWorkspace(r) \/ InviteFindSelf(r)
          BY <4>2 DEF InviteFindWorkspace, InviteFindSelf
        <4>3. CASE InviteLookup(r)
          BY <4>3 DEF InviteLookup
        <4>4. CASE InviteCountMembers(r) \/ InviteCountInvites(r)
          BY <4>4 DEF InviteCountMembers, InviteCountInvites, Count
        <4>5. CASE InviteWriteFails(r) \/ AcceptCreateMemberFails(r)
                   \/ AcceptJoinGeneralFails(r) \/ RowIsGone(r) \/ Fail(r)
          BY <4>5 DEF InviteWriteFails, AcceptCreateMemberFails,
                      AcceptJoinGeneralFails, RowIsGone, Fail
        <4>6. CASE DeleteFindWorkspace(r) \/ DeleteCountMembers(r)
          BY <4>6 DEF DeleteFindWorkspace, DeleteCountMembers
        <4> QED
          BY <1>1, <2>2, <4>2, <4>3, <4>4, <4>5, <4>6 DEF Quietly
      <3>3. req'[r].pc \in Open
        BY <3>2 DEF Open, Label, ToClose, Joining, Joined, Updating
      <3> QED
        BY <3>1, <3>3, OpenSerial, SerialRead
    <2> QED
      BY <2>1, <2>2
  <1>2. ASSUME NEW u \in User, Expire(u) PROVE SerialInv'
    <2>1. /\ invite' = [invite EXCEPT ![u].expired = TRUE]
          /\ UNCHANGED <<ws, member, req>>
      BY <1>2 DEF Expire
    <2>2. ASSUME NEW v \in User
          PROVE  /\ invite'[v].status = invite[v].status
                 /\ invite'[v].mailed = invite[v].mailed
                 /\ invite'[v].role = invite[v].role
      BY <2>1 DEF TypeOK, InviteRow
    <2>3. req[r].who \in User
      BY <1>0 DEF TypeOK, Request
    <2>4. SerialAt(req[r])'
      BY <2>1, <2>2, <2>3 DEF SerialInv, SerialAt, FoundOpen, MayJoin, OwnerRemains,
                              Outranks, Owners, Active
    <2> QED
      BY <2>1, <2>4 DEF SerialInv, SomeOwner, Owners, Active
  <1>3. CASE UNCHANGED vars
    BY <1>3 DEF vars, SerialInv, SomeOwner, SerialAt, FoundOpen, MayJoin, OwnerRemains,
                Outranks, Owners, Active
  <1> QED
    BY <1>0, <1>1, <1>2, <1>3, StepWrites, SerialCall, SerialWrites DEF Next

\* A workspace that serves one request at a time, any of which may be cut off at
\* any statement, never loses its last active owner.
THEOREM AnOwnerRemains ==
  ASSUME \E one : Req = {one}
  PROVE  Spec => []SomeOwner
  <1>1. SerialInv => SomeOwner
    BY DEF SerialInv
  <1>2. TypeOK /\ SerialInv /\ [Next]_vars => SerialInv'
    BY SerialNext
  <1> QED
    BY <1>1, <1>2, SerialInit, TypeCorrect, PTL DEF Spec

LEMMA StepCases ==
  ASSUME NEW r, Req = {r}, TypeOK, [Next]_vars
  PROVE  \/ UNCHANGED db
         \/ Writes(r)
         \/ \E u \in User : Expire(u)
  <1>1. Call(r) \/ Quietly(r) => UNCHANGED db
    BY CallShape, QuietShape DEF Starts
  <1> QED
    BY <1>1, StepWrites DEF Next, vars, db

\* Which writes concern the member rows.
LEMMA MemberWrites ==
  ASSUME NEW r, Req = {r}, TypeOK, [Next]_vars
  PROVE  \/ UNCHANGED member
         \/ Admits(r) \/ UpdateWrite(r) \/ Deactivate(r) \/ HardDelete(r)
  <1>1. ASSUME NEW u \in User, Expire(u) PROVE UNCHANGED member
    BY <1>1 DEF Expire
  <1>2. CASE Writes(r)
    BY <1>2 DEF Writes, EndsRequest, InviteWrite, InviteMail, ResendWrite, ResendMail,
                RevokeWrite, DeclineWrite, AcceptCloseInvite, CloseInvite,
                AcceptJoinGeneral, RemoveFromChannels, SoftDelete, PlanWrite
  <1> QED
    BY <1>1, <1>2, StepCases DEF db

LEMMA JoinStep ==
  ASSUME NEW r, Req = {r}, TypeOK, SerialInv, [Next]_vars, NEW u \in User,
         ~Active(u), Active(u)'
  PROVE  /\ invite[u].status = "PENDING" /\ invite[u].mailed
         /\ member'[u].role = invite[u].role
  <1> DEFINE q == req[r]
  <1>0. r \in Req /\ q \in Request /\ q.who \in User /\ SerialAt(q)
        /\ member \in [User -> MemberRow]
    BY DEF TypeOK, SerialInv, Request
  <1>1. CASE Admits(r)
    <2>1. /\ q.pc \in {"accept_update", "accept_create"}
          /\ member' = [member EXCEPT ![q.who] = [row |-> "active", role |-> q.role]]
      BY <1>1 DEF Admits, AcceptUpdateMember, AcceptCreateMember, Activate
    <2>2. u = q.who
      BY <1>0, <2>1 DEF Active
    <2> QED
      BY <1>0, <2>1, <2>2 DEF SerialAt, FoundOpen, MayJoin, Joining
  <1>2. CASE UpdateWrite(r) \/ Deactivate(r) \/ HardDelete(r)
    <2>1. ~Active(u)'
      BY <1>0, <1>2 DEF UpdateWrite, Deactivate, HardDelete, Active, NoMember, MemberRow
    <2> QED
      BY <2>1
  <1>3. CASE UNCHANGED member
    BY <1>3 DEF Active
  <1> QED
    BY <1>1, <1>2, <1>3, MemberWrites

LEMMA RoleStep ==
  ASSUME NEW r, Req = {r}, TypeOK, SerialInv, [Next]_vars, NEW u \in User,
         Active(u), Active(u)', member'[u].role # member[u].role
  PROVE  /\ req[r].pc = "update_write" /\ req[r].who = u
         /\ Level[member[req[r].by].role] > Level[member[u].role]
  <1> DEFINE q == req[r]
  <1>0. r \in Req /\ q \in Request /\ q.who \in User /\ SerialAt(q)
        /\ member \in [User -> MemberRow]
    BY DEF TypeOK, SerialInv, Request
  <1>1. CASE Admits(r)
    <2>1. /\ q.pc \in {"accept_update", "accept_create"}
          /\ member' = [member EXCEPT ![q.who] = [row |-> "active", role |-> q.role]]
      BY <1>1 DEF Admits, AcceptUpdateMember, AcceptCreateMember, Activate
    <2>2. ~Active(q.who)
      BY <1>0, <2>1 DEF SerialAt, MayJoin
    <2> QED
      BY <1>0, <2>1, <2>2
  <1>2. CASE UpdateWrite(r)
    <2>1. /\ q.pc = "update_write"
          /\ member' = [member EXCEPT ![q.who].role = q.role]
      BY <1>2 DEF UpdateWrite
    <2>2. u = q.who
      BY <1>0, <2>1
    <2> QED
      BY <1>0, <2>1, <2>2 DEF SerialAt, Outranks
  <1>3. CASE Deactivate(r) \/ HardDelete(r)
    BY <1>0, <1>3 DEF Deactivate, HardDelete, Active, NoMember, MemberRow
  <1> QED
    BY <1>1, <1>2, <1>3, MemberWrites

LEMMA CloseStep ==
  ASSUME NEW r, Req = {r}, TypeOK, SerialInv, [Next]_vars, NEW u \in User,
         invite[u].status \in {"ACCEPTED", "DECLINED", "REVOKED"}
  PROVE  \/ invite'[u].status = invite[u].status
         \/ invite'[u].status = "PENDING" /\ invite'[u].token > invite[u].token
         \/ ws' = "gone"
  <1> DEFINE q == req[r]
  <1>0. /\ r \in Req /\ q \in Request /\ q.who \in User /\ SerialAt(q)
        /\ invite \in [User -> InviteRow]
    BY DEF TypeOK, SerialInv, Request
  <1>1. CASE InviteWrite(r)
    <2>1. PICK v \in q.todo :
            invite' = [invite EXCEPT ![v] =
                         [status |-> "PENDING", role |-> q.role,
                          token |-> invite[v].token + 1,
                          expired |-> FALSE, mailed |-> FALSE]]
      BY <1>1 DEF InviteWrite
    <2>2. invite[u].token \in Nat
      BY <1>0, LimitAssumption DEF InviteRow
    <2> QED
      BY <1>0, <2>1, <2>2
  <1>2. CASE InviteMail(r) \/ ResendMail(r) \/ ResendWrite(r)
    BY <1>0, <1>2 DEF InviteMail, ResendMail, ResendWrite, Mailed, InviteRow
  <1>3. CASE RevokeWrite(r) \/ DeclineWrite(r) \/ AcceptCloseInvite(r)
    <2>1. PICK status : /\ invite' = [invite EXCEPT ![q.who].status = status]
                        /\ q.pc \in ToClose \cup Joined
      BY <1>3 DEF RevokeWrite, DeclineWrite, AcceptCloseInvite, CloseInvite, ToClose,
                  Joined
    <2>2. u # q.who
      BY <1>0, <2>1 DEF SerialAt, FoundOpen
    <2> QED
      BY <1>0, <2>1, <2>2
  <1>4. CASE HardDelete(r)
    BY <1>4 DEF HardDelete
  <1>5. ASSUME NEW v \in User, Expire(v) PROVE invite'[u].status = invite[u].status
    BY <1>0, <1>5 DEF Expire, InviteRow
  <1>6. CASE \/ AcceptJoinGeneral(r) \/ UpdateWrite(r) \/ Deactivate(r)
             \/ RemoveFromChannels(r) \/ SoftDelete(r) \/ PlanWrite(r) \/ Admits(r)
    BY <1>6 DEF AcceptJoinGeneral, UpdateWrite, Deactivate, RemoveFromChannels,
                SoftDelete, PlanWrite, Admits, AcceptUpdateMember, AcceptCreateMember,
                Activate
  <1>7. CASE UNCHANGED db
    BY <1>7 DEF db
  <1> QED
    BY <1>1, <1>2, <1>3, <1>4, <1>5, <1>6, <1>7, StepCases DEF Writes, EndsRequest

\* Without overlap, nobody becomes a member but by an invite that is open at that
\* moment and in the role it offers.
THEOREM OpenInvitesAdmit ==
  ASSUME \E one : Req = {one}
  PROVE  Spec => JoinsByOpenInvite
  <1>1. TypeOK /\ SerialInv /\ [Next]_vars =>
          [\A u \in User :
             ~Active(u) /\ Active(u)' =>
                /\ invite[u].status = "PENDING"
                /\ invite[u].mailed
                /\ member'[u].role = invite[u].role]_vars
    BY JoinStep
  <1>2. TypeOK /\ SerialInv /\ [Next]_vars => SerialInv'
    BY SerialNext
  <1> QED
    BY <1>1, <1>2, SerialInit, TypeCorrect, PTL DEF Spec, JoinsByOpenInvite

\* Without overlap, an invite that was accepted, declined or revoked is used again
\* only under a new token.
THEOREM ClosedInvitesStayClosed ==
  ASSUME \E one : Req = {one}
  PROVE  Spec => ClosedInviteStaysClosed
  <1>1. TypeOK /\ SerialInv /\ [Next]_vars =>
          [\A u \in User :
             invite[u].status \in {"ACCEPTED", "DECLINED", "REVOKED"}
               => \/ invite'[u].status = invite[u].status
                  \/ invite'[u].status = "PENDING"
                     /\ invite'[u].token > invite[u].token
                  \/ ws' = "gone"]_vars
    BY CloseStep
  <1>2. TypeOK /\ SerialInv /\ [Next]_vars => SerialInv'
    BY SerialNext
  <1> QED
    BY <1>1, <1>2, SerialInit, TypeCorrect, PTL DEF Spec, ClosedInviteStaysClosed

\* Without overlap, whoever changes a role outranks the member at that moment,
\* although the two roles are read by two earlier statements.
THEOREM HigherRanksChangeRoles ==
  ASSUME \E one : Req = {one}
  PROVE  Spec => RoleChangedByHigherRank
  <1>1. TypeOK /\ SerialInv /\ [Next]_vars =>
          [\A u \in User :
             Active(u) /\ Active(u)' /\ member'[u].role # member[u].role =>
                \E r \in Req :
                    /\ req[r].pc = "update_write" /\ req[r].who = u
                    /\ Level[member[req[r].by].role] > Level[member[u].role]]_vars
    BY RoleStep
  <1>2. TypeOK /\ SerialInv /\ [Next]_vars => SerialInv'
    BY SerialNext
  <1> QED
    BY <1>1, <1>2, SerialInit, TypeCorrect, PTL DEF Spec, RoleChangedByHigherRank

-----------------------------------------------------------------------------
(* Seats                                                                   *)

Inviting == {"invite_workspace", "invite_self", "invite_lookup", "invite_count",
             "invite_count_members", "invite_count_invites", "invite_write",
             "invite_mail"}

\* What inviteMembers knows: before it decides, the limit and which of its
\* addresses hold an invite; afterwards, that those it has still to invite fit.
SeatsAt(q) ==
    /\ q.pc \in Inviting \ {"invite_write", "invite_mail"} =>
         /\ q.pend \subseteq PendingInvites
         /\ q.pc # "invite_workspace" => q.max = maxMembers
    /\ q.pc = "invite_count_invites" => q.n = Cardinality(Members)
    /\ q.pc = "invite_count_members" => q.n = Cardinality(PendingInvites)
    /\ q.pc \in {"invite_write", "invite_mail"} =>
         Cardinality(Members) + Cardinality(PendingInvites)
           + Cardinality(q.todo \ PendingInvites) <= maxMembers
    /\ q.pc = "invite_mail" => q.who \in PendingInvites

SeatsInv == \A r \in Req : SeatsAt(req[r])

LEMMA OtherSeats ==
  ASSUME NEW q, q.pc \notin Inviting
  PROVE  SeatsAt(q) /\ SeatsAt(q)'
  BY DEF SeatsAt, Inviting

LEMMA BlankSeats == Blank.pc \notin Inviting
  BY DEF Blank, Inviting

LEMMA SeatsInit == Init => SeatsInv
  BY BlankSeats, OtherSeats DEF Init, SeatsInv

LEMMA FiniteSeats ==
  ASSUME NEW T \in SUBSET User
  PROVE  IsFiniteSet(T) /\ Cardinality(T) \in Nat
  BY UserAssumption, FS_Subset, FS_CardinalityType

\* A step of the only request, to the record q, that writes nothing.
LEMMA SeatsRead ==
  ASSUME TypeOK, NEW r, Req = {r}, NEW q, UNCHANGED db,
         req' = [req EXCEPT ![r] = q], SeatsAt(q)
  PROVE  SeatsInv'
  <1>1. req'[r] = q
    BY DEF TypeOK
  <1>2. SeatsAt(q)'
    BY DEF SeatsAt, db, PendingInvites, Members, Active
  <1> QED
    BY <1>1, <1>2 DEF SeatsInv

LEMMA SeatsCall ==
  ASSUME TypeOK, NEW r, Req = {r}, Call(r)
  PROVE  SeatsInv'
  <1>0. req \in [Req -> Request] /\ r \in Req
    BY DEF TypeOK
  <1>1. UNCHANGED db /\ req' = [req EXCEPT ![r] = req'[r]]
    BY <1>0, CallShape DEF Starts
  <1>2. CASE InviteArrive(r)
    <2>1. req'[r].pc = "invite_workspace" /\ req'[r].pend = {}
      BY <1>0, <1>2 DEF InviteArrive, Blank
    <2>2. SeatsAt(req'[r])
      BY <2>1 DEF SeatsAt
    <2> QED
      BY <1>1, <2>2, SeatsRead
  <1>3. ASSUME req'[r].pc \notin Inviting PROVE SeatsInv'
    BY <1>1, <1>3, OtherSeats, SeatsRead
  <1>4. CASE ResendArrive(r) \/ RevokeArrive(r)
    BY <1>0, <1>3, <1>4 DEF ResendArrive, RevokeArrive, OnInvite, Blank, Inviting
  <1>5. CASE AcceptArrive(r) \/ DeclineArrive(r)
    BY <1>0, <1>3, <1>5 DEF AcceptArrive, DeclineArrive, Blank, Inviting
  <1>6. CASE UpdateArrive(r) \/ RemoveArrive(r)
    BY <1>0, <1>3, <1>6 DEF UpdateArrive, RemoveArrive, Blank, Inviting
  <1>7. CASE LeaveArrive(r) \/ DeleteArrive(r)
    BY <1>0, <1>3, <1>7 DEF LeaveArrive, DeleteArrive, Blank, Inviting
  <1>8. CASE PlanArrive(r) \/ PurgeArrive(r)
    BY <1>0, <1>3, <1>8 DEF PlanArrive, PurgeArrive, Blank, Inviting
  <1> QED
    BY <1>2, <1>4, <1>5, <1>6, <1>7, <1>8 DEF Call

\* The count that comes second decides: the addresses without an invite fit.
LEMMA CountSeats ==
  ASSUME TypeOK, SeatsInv, NEW r, Req = {r}, NEW mine, NEW other, NEW count,
         Count(r, mine, other, count),
         \/ /\ mine = "invite_count_members" /\ other = "invite_count_invites"
            /\ count = Cardinality(Members)
         \/ /\ mine = "invite_count_invites" /\ other = "invite_count_members"
            /\ count = Cardinality(PendingInvites)
  PROVE  SeatsInv'
  <1> DEFINE q == req[r]
  <1>0. q \in Request /\ SeatsAt(q)
    BY DEF TypeOK, SeatsInv
  <1>1. CASE Read(r, "invite_count", TRUE, [Goto(r, other) EXCEPT !.n = count])
    <2> DEFINE next == [Goto(r, other) EXCEPT !.n = count]
    <2>1. /\ next.pc = other /\ next.n = count /\ next.pend = q.pend /\ next.max = q.max
          /\ q.pc = "invite_count"
      BY <1>0, <1>1 DEF Goto, Request
    <2>2. UNCHANGED db /\ req' = [req EXCEPT ![r] = next]
      BY <1>1
    <2> HIDE DEF next
    <2>3. SeatsAt(next)
      BY <1>0, <2>1 DEF SeatsAt, Inviting
    <2> QED
      BY <2>2, <2>3, SeatsRead
  <1>2. CASE Read(r, mine, WithinLimit(r, count),
                  [Goto(r, "invite_write") EXCEPT !.n = 0, !.max = 0, !.pend = {}])
    <2> DEFINE next == [Goto(r, "invite_write") EXCEPT !.n = 0, !.max = 0, !.pend = {}]
    <2>1. next.pc = "invite_write" /\ next.todo = q.todo /\ q.pc = mine
      BY <1>0, <1>2 DEF Goto, Request
    <2> HIDE DEF next
    <2>2. /\ q.pend \subseteq PendingInvites /\ q.max = maxMembers
          /\ q.pc = "invite_count_invites" => q.n = Cardinality(Members)
          /\ q.pc = "invite_count_members" => q.n = Cardinality(PendingInvites)
      BY <1>0, <2>1 DEF SeatsAt, Inviting
    <2>3. q.todo \in SUBSET User
      BY <1>0 DEF Request
    <2>4. Cardinality(q.todo \ PendingInvites) <= Cardinality(q.todo \ q.pend)
      <3>1. /\ q.todo \ PendingInvites \in SUBSET (q.todo \ q.pend)
            /\ q.todo \ q.pend \in SUBSET User
        BY <2>2, <2>3
      <3> QED
        BY <3>1, FiniteSeats, FS_Subset
    <2>5. /\ Cardinality(Members) \in Nat /\ Cardinality(PendingInvites) \in Nat
          /\ Cardinality(q.todo \ PendingInvites) \in Nat
          /\ Cardinality(q.todo \ q.pend) \in Nat /\ maxMembers \in Nat
      BY <2>3, FiniteSeats DEF Members, PendingInvites, TypeOK
    <2>6. WithinLimit(r, count) =>
            Cardinality(Members) + Cardinality(PendingInvites)
              + Cardinality(q.todo \ PendingInvites) <= maxMembers
      BY <2>1, <2>2, <2>4, <2>5 DEF WithinLimit
    <2>7. WithinLimit(r, count) => SeatsAt(next)
      BY <2>1, <2>6 DEF SeatsAt, Inviting
    <2>8. SeatsAt(Blank)
      BY BlankSeats, OtherSeats
    <2>9. /\ UNCHANGED db
          /\ req' = [req EXCEPT ![r] = IF WithinLimit(r, count) THEN next ELSE Blank]
      BY <1>2 DEF next
    <2> QED
      BY <2>7, <2>8, <2>9, SeatsRead
  <1> QED
    BY <1>1, <1>2 DEF Count

LEMMA SeatsQuiet ==
  ASSUME TypeOK, SeatsInv, NEW r, Req = {r}, Quietly(r)
  PROVE  SeatsInv'
  <1> DEFINE q == req[r]
  <1>0. /\ req \in [Req -> Request] /\ r \in Req /\ q \in Request /\ SeatsAt(q)
        /\ Blank.pc = "idle"
    BY DEF TypeOK, SeatsInv, Blank
  <1>1. UNCHANGED db /\ req' = [req EXCEPT ![r] = req'[r]]
    BY <1>0, QuietShape
  <1>2. ASSUME req'[r].pc \notin Inviting \/ SeatsAt(req'[r]) PROVE SeatsInv'
    BY <1>1, <1>2, OtherSeats, SeatsRead
  <1>b. SeatsAt(Blank)
    BY BlankSeats, OtherSeats
  <1>3. CASE InviteFindWorkspace(r)
    <2>1. \/ req'[r] = Blank
          \/ /\ q.pc = "invite_workspace" /\ req'[r].pc = "invite_self"
             /\ req'[r].max = maxMembers /\ req'[r].pend = q.pend
      BY <1>0, <1>3 DEF InviteFindWorkspace, Goto, Request
    <2> QED
      BY <1>0, <1>2, <1>b, <2>1 DEF SeatsAt, Inviting
  <1>4. CASE InviteFindSelf(r)
    <2>1. \/ req'[r] = Blank
          \/ /\ q.pc = "invite_self" /\ req'[r].pc = "invite_lookup"
             /\ req'[r].max = q.max /\ req'[r].pend = q.pend
      BY <1>0, <1>4 DEF InviteFindSelf, Goto, Request
    <2> QED
      BY <1>0, <1>2, <1>b, <2>1 DEF SeatsAt, Inviting
  <1>5. CASE InviteLookup(r)
    <2>1. PICK u \in q.unread :
            /\ q.pc = "invite_lookup" /\ req'[r].pc \in {"invite_lookup", "invite_count"}
            /\ req'[r].max = q.max
            /\ req'[r].pend = q.pend \cup ({u} \cap PendingInvites)
      BY <1>0, <1>5 DEF InviteLookup, Request
    <2> QED
      BY <1>0, <1>2, <2>1 DEF SeatsAt, Inviting
  <1>6. CASE InviteCountMembers(r) \/ InviteCountInvites(r)
    BY <1>6, CountSeats DEF InviteCountMembers, InviteCountInvites
  <1>7. CASE InviteWriteFails(r) \/ AcceptCreateMemberFails(r)
             \/ AcceptJoinGeneralFails(r) \/ RowIsGone(r) \/ Fail(r)
    BY <1>0, <1>2, <1>7 DEF InviteWriteFails, AcceptCreateMemberFails,
                            AcceptJoinGeneralFails, RowIsGone, Fail, Inviting
  <1>8. CASE DeleteFindWorkspace(r) \/ DeleteCountMembers(r)
    BY <1>0, <1>2, <1>8 DEF DeleteFindWorkspace, DeleteCountMembers, Goto, Request,
                            Inviting
  <1>9. CASE ResendFindInvite(r) \/ ResendFindWorkspace(r)
             \/ ResendFindSelf(r) \/ RevokeFindInvite(r)
    <2>1. ResendFindInvite(r) => req'[r].pc \notin Inviting
      BY <1>0 DEF ResendFindInvite, Goto, Request, Inviting
    <2>2. ResendFindWorkspace(r) => req'[r].pc \notin Inviting
      BY <1>0 DEF ResendFindWorkspace, Goto, Request, Inviting
    <2>3. ResendFindSelf(r) => req'[r].pc \notin Inviting
      BY <1>0 DEF ResendFindSelf, Goto, Request, Inviting
    <2>4. RevokeFindInvite(r) => req'[r].pc \notin Inviting
      BY <1>0 DEF RevokeFindInvite, Goto, Request, Inviting
    <2> QED
      BY <1>2, <1>9, <2>1, <2>2, <2>3, <2>4
  <1>10. CASE AcceptFindWorkspace(r) \/ AcceptFindMember(r)
             \/ AcceptFindGeneral(r)
    <2>1. AcceptFindWorkspace(r) => req'[r].pc \notin Inviting
      BY <1>0 DEF AcceptFindWorkspace, Goto, Request, Inviting
    <2>2. AcceptFindMember(r) => req'[r].pc \notin Inviting
      BY <1>0 DEF AcceptFindMember, Goto, Request, Inviting
    <2>3. AcceptFindGeneral(r) => req'[r].pc \notin Inviting
      BY <1>0 DEF AcceptFindGeneral, Goto, Request, Inviting
    <2> QED
      BY <1>2, <1>10, <2>1, <2>2, <2>3
  <1>11. CASE UpdateFindSelf(r)
    <2>1. req'[r].pc \notin Inviting
      BY <1>0, <1>11 DEF UpdateFindSelf, Goto, Request, Inviting
    <2> QED
      BY <1>2, <2>1
  <1>12. CASE UpdateFindTarget(r)
    <2>1. req'[r].pc \notin Inviting
      BY <1>0, <1>12 DEF UpdateFindTarget, Goto, Request, Inviting
    <2> QED
      BY <1>2, <2>1
  <1>13. CASE RemoveFindTarget(r)
    <2>1. req'[r].pc \notin Inviting
      BY <1>0, <1>13 DEF RemoveFindTarget, Goto, Request, Inviting
    <2> QED
      BY <1>2, <2>1
  <1>14. CASE LeaveFindMember(r)
    <2>1. req'[r].pc \notin Inviting
      BY <1>0, <1>14 DEF LeaveFindMember, Goto, Request, Inviting
    <2> QED
      BY <1>2, <2>1
  <1>15. CASE LeaveCountOwners(r)
    <2>1. req'[r].pc \notin Inviting
      BY <1>0, <1>15 DEF LeaveCountOwners, Goto, Request, Inviting
    <2> QED
      BY <1>2, <2>1
  <1> QED
    BY <1>3, <1>4, <1>5, <1>6, <1>7, <1>8, <1>9, <1>10, <1>11,
       <1>12, <1>13, <1>14, <1>15 DEF Quietly

\* The invite that is written takes the seat that was kept for its address.
LEMMA SeatsWrite ==
  ASSUME TypeOK, SeatsInv, NEW r, Req = {r}, InviteWrite(r)
  PROVE  SeatsInv'
  <1> DEFINE q == req[r]
  <1>0. /\ r \in Req /\ req \in [Req -> Request] /\ q \in Request /\ SeatsAt(q)
        /\ invite \in [User -> InviteRow] /\ q.todo \in SUBSET User
    BY DEF TypeOK, SeatsInv, Request
  <1>1. PICK u, token :
          /\ u \in q.todo /\ q.pc = "invite_write"
          /\ req' = [req EXCEPT ![r] =
                       [Goto(r, "invite_mail") EXCEPT !.who = u, !.token = token]]
          /\ invite' = [invite EXCEPT ![u] =
                          [status |-> "PENDING", role |-> req[r].role,
                           token |-> token, expired |-> FALSE, mailed |-> FALSE]]
          /\ UNCHANGED <<maxMembers, member>>
    BY DEF InviteWrite
  <1>2. PICK todo : todo = q.todo
    OBVIOUS
  <1>3. req'[r].pc = "invite_mail" /\ req'[r].who = u /\ req'[r].todo = todo
    BY <1>0, <1>1, <1>2 DEF Goto, Request
  <1>4. PendingInvites' = PendingInvites \cup {u} /\ Members' = Members
    BY <1>0, <1>1 DEF PendingInvites, Members, Active
  <1>5. PICK P, M : P = PendingInvites /\ M = Members
    OBVIOUS
  <1>6. /\ P \in SUBSET User /\ M \in SUBSET User /\ todo \in SUBSET User
        /\ u \in todo
    BY <1>0, <1>1, <1>2, <1>5 DEF PendingInvites, Members
  <1>7. /\ Cardinality(P \cup {u}) =
             IF u \in P THEN Cardinality(P) ELSE Cardinality(P) + 1
        /\ Cardinality((todo \ P) \ {u}) =
             IF u \in todo \ P THEN Cardinality(todo \ P) - 1
                               ELSE Cardinality(todo \ P)
        /\ Cardinality(P) \in Nat /\ Cardinality(M) \in Nat
        /\ Cardinality(todo \ P) \in Nat /\ maxMembers \in Nat
    <2>1. IsFiniteSet(P) /\ IsFiniteSet(todo \ P) /\ IsFiniteSet(M)
      BY <1>6, FiniteSeats
    <2> QED
      BY <2>1, FS_AddElement, FS_RemoveElement, FS_CardinalityType DEF TypeOK
  <1>8. todo \ (P \cup {u}) = (todo \ P) \ {u}
    OBVIOUS
  <1>9. Cardinality(M) + Cardinality(P) + Cardinality(todo \ P) <= maxMembers
    BY <1>0, <1>1, <1>2, <1>5 DEF SeatsAt
  <1>10. Cardinality(M) + Cardinality(P \cup {u})
           + Cardinality(todo \ (P \cup {u})) <= maxMembers
    <2>1. CASE u \in P
      <3>1. P \cup {u} = P
        BY <2>1
      <3> QED
        BY <1>9, <3>1
    <2>2. CASE u \notin P
      <3>1. u \in todo \ P
        BY <1>6, <2>2
      <3>2. /\ Cardinality(P \cup {u}) = Cardinality(P) + 1
            /\ Cardinality(todo \ (P \cup {u})) = Cardinality(todo \ P) - 1
        BY <1>7, <1>8, <2>2, <3>1
      <3> QED
        BY <1>7, <1>9, <3>2
    <2> QED
      BY <2>1, <2>2
  <1>11. SeatsAt(req[r])'
    <2>1. /\ Members' = M /\ PendingInvites' = P \cup {u} /\ maxMembers' = maxMembers
      BY <1>1, <1>4, <1>5
    <2> QED
      BY <1>3, <1>10, <2>1 DEF SeatsAt, Inviting
  <1> QED
    BY <1>11 DEF SeatsInv

\* Sending the e-mail changes no seat, and the address is done with.
LEMMA SeatsMail ==
  ASSUME TypeOK, SeatsInv, NEW r, Req = {r}, InviteMail(r)
  PROVE  SeatsInv'
  <1> DEFINE q == req[r]
  <1>0. /\ r \in Req /\ req \in [Req -> Request] /\ q \in Request /\ SeatsAt(q)
        /\ invite \in [User -> InviteRow]
    BY DEF TypeOK, SeatsInv, Request
  <1>1. /\ q.pc = "invite_mail" /\ UNCHANGED <<maxMembers, member>>
        /\ \/ req'[r] = Blank
           \/ /\ req'[r].pc = "invite_write"
              /\ req'[r].todo = q.todo \ {q.who}
    BY <1>0 DEF InviteMail, Request
  <1>2. PendingInvites' = PendingInvites /\ Members' = Members
    BY <1>0, <1>1 DEF InviteMail, Mailed, PendingInvites, Members, Active, InviteRow
  <1>3. CASE req'[r] = Blank
    BY <1>3, BlankSeats, OtherSeats DEF SeatsInv
  <1>4. CASE /\ req'[r].pc = "invite_write"
             /\ req'[r].todo = q.todo \ {q.who}
    <2>1. PICK todo, u : todo = q.todo /\ u = q.who
      OBVIOUS
    <2>2. /\ u \in PendingInvites
          /\ Cardinality(Members) + Cardinality(PendingInvites)
               + Cardinality(todo \ PendingInvites) <= maxMembers
      BY <1>0, <1>1, <2>1 DEF SeatsAt
    <2>3. (todo \ {u}) \ PendingInvites = todo \ PendingInvites
      BY <2>2
    <2>4. SeatsAt(req[r])'
      BY <1>1, <1>2, <1>4, <2>1, <2>2, <2>3 DEF SeatsAt, Inviting
    <2> QED
      BY <2>4 DEF SeatsInv
  <1> QED
    BY <1>1, <1>3, <1>4

LEMMA SeatsNext ==
  ASSUME NEW r, Req = {r}, TypeOK, SeatsInv, [Next]_vars
  PROVE  SeatsInv'
  <1>0. r \in Req
    OBVIOUS
  <1>1. CASE Writes(r) /\ ~InviteWrite(r) /\ ~InviteMail(r)
    <2>1. req'[r].pc \notin Inviting
      BY <1>0, <1>1, WriteLabels DEF Writes, LeadsTo, Inviting
    <2> QED
      BY <2>1, OtherSeats DEF SeatsInv
  <1>2. ASSUME NEW u \in User, Expire(u) PROVE SeatsInv'
    <2>1. /\ PendingInvites' = PendingInvites
          /\ UNCHANGED <<member, maxMembers, req>>
      BY <1>2 DEF Expire, PendingInvites, TypeOK, InviteRow
    <2> QED
      BY <2>1 DEF SeatsInv, SeatsAt, Members, Active
  <1>3. CASE UNCHANGED vars
    BY <1>3 DEF vars, SeatsInv, SeatsAt, Members, Active, PendingInvites
  <1> QED
    BY <1>0, <1>1, <1>2, <1>3, SeatsCall, SeatsQuiet, SeatsWrite, SeatsMail, StepWrites
    DEF Next

LEMMA SeatsStep ==
  ASSUME NEW r, Req = {r}, TypeOK, SerialInv, SeatsInv, [Next]_vars,
         Cardinality(Seats') > Cardinality(Seats)
  PROVE  Cardinality(Seats') <= maxMembers'
  <1> DEFINE q == req[r]
  <1>0. /\ r \in Req /\ q \in Request /\ q.who \in User /\ SerialAt(q)
        /\ member \in [User -> MemberRow] /\ invite \in [User -> InviteRow]
    BY DEF TypeOK, SerialInv, Request
  <1>1. ASSUME Members' \cup PendingInvites' \subseteq Members \cup PendingInvites
        PROVE  FALSE
    <2>1. Seats' \in SUBSET Seats /\ Seats \in SUBSET User
      BY <1>1 DEF Seats, Members, PendingInvites
    <2> QED
      BY <2>1, FiniteSeats, FS_Subset
  <1>2. CASE InviteWrite(r)
    <2>1. LeadsTo(r, {"invite_mail"}) /\ SeatsInv'
      BY <1>0, <1>2, WriteLabels, SeatsNext
    <2>2. Cardinality(Members') + Cardinality(PendingInvites')
            + Cardinality(req'[r].todo \ PendingInvites') <= maxMembers'
      BY <1>0, <2>1 DEF LeadsTo, SeatsInv, SeatsAt
    <2>3. TypeOK'
      BY NextType
    <2>4. /\ Members' \in SUBSET User /\ PendingInvites' \in SUBSET User
          /\ req'[r].todo \ PendingInvites' \in SUBSET User /\ maxMembers' \in Nat
      BY <1>0, <2>3 DEF Members, PendingInvites, TypeOK, Request
    <2>5. /\ Cardinality(Seats') =
               Cardinality(Members') + Cardinality(PendingInvites')
                 - Cardinality(Members' \cap PendingInvites')
          /\ Cardinality(Members' \cap PendingInvites') \in Nat
      <3>1. /\ IsFiniteSet(Members') /\ IsFiniteSet(PendingInvites')
            /\ Members' \cap PendingInvites' \in SUBSET User
        BY <2>4, FiniteSeats
      <3> QED
        BY <3>1, FiniteSeats, FS_Union DEF Seats
    <2>6. /\ Cardinality(Members') \in Nat /\ Cardinality(PendingInvites') \in Nat
          /\ Cardinality(req'[r].todo \ PendingInvites') \in Nat
      BY <2>4, FiniteSeats
    <2> QED
      BY <2>2, <2>4, <2>5, <2>6
  <1>3. CASE Admits(r)
    <2>1. /\ q.pc \in {"accept_update", "accept_create"} /\ UNCHANGED invite
          /\ member' = [member EXCEPT ![q.who] = [row |-> "active", role |-> q.role]]
      BY <1>3 DEF Admits, AcceptUpdateMember, AcceptCreateMember, Activate
    <2>2. q.who \in PendingInvites
      BY <1>0, <2>1 DEF SerialAt, FoundOpen, Joining, PendingInvites
    <2>3. PendingInvites' = PendingInvites /\ Members' \subseteq Members \cup {q.who}
      BY <1>0, <2>1 DEF PendingInvites, Members, Active
    <2> QED
      BY <1>1, <2>2, <2>3
  <1>4. CASE UpdateWrite(r) \/ Deactivate(r) \/ HardDelete(r)
    <2>1. Members' \subseteq Members
      BY <1>0, <1>4 DEF UpdateWrite, Deactivate, HardDelete, Members, Active, NoMember,
                        MemberRow
    <2>2. PendingInvites' \subseteq PendingInvites
      BY <1>4 DEF UpdateWrite, Deactivate, HardDelete, PendingInvites, NoInvite
    <2> QED
      BY <1>1, <2>1, <2>2
  <1>5. CASE InviteMail(r) \/ ResendMail(r) \/ ResendWrite(r)
    <2>1. PendingInvites' = PendingInvites /\ UNCHANGED member
      BY <1>0, <1>5 DEF InviteMail, ResendMail, ResendWrite, Mailed, PendingInvites,
                        InviteRow
    <2> QED
      BY <1>1, <2>1 DEF Members, Active
  <1>6. CASE RevokeWrite(r) \/ DeclineWrite(r) \/ AcceptCloseInvite(r)
    <2>1. PICK status \in {"ACCEPTED", "DECLINED", "REVOKED"} :
            invite' = [invite EXCEPT ![q.who].status = status] /\ UNCHANGED member
      BY <1>6 DEF RevokeWrite, DeclineWrite, AcceptCloseInvite, CloseInvite
    <2>2. PendingInvites' \subseteq PendingInvites
      BY <1>0, <2>1 DEF PendingInvites, InviteRow
    <2> QED
      BY <1>1, <2>1, <2>2 DEF Members, Active
  <1>7. CASE AcceptJoinGeneral(r) \/ RemoveFromChannels(r) \/ SoftDelete(r)
             \/ PlanWrite(r)
    <2>1. UNCHANGED <<member, invite>>
      BY <1>7 DEF AcceptJoinGeneral, RemoveFromChannels, SoftDelete, PlanWrite
    <2> QED
      BY <1>1, <2>1 DEF Members, Active, PendingInvites
  <1>8. ASSUME NEW u \in User, Expire(u) PROVE FALSE
    <2>1. PendingInvites' = PendingInvites /\ UNCHANGED member
      BY <1>0, <1>8 DEF Expire, PendingInvites, InviteRow
    <2> QED
      BY <1>1, <2>1 DEF Members, Active
  <1>9. CASE UNCHANGED db
    BY <1>1, <1>9 DEF db, Members, Active, PendingInvites
  <1> QED
    BY <1>2, <1>3, <1>4, <1>5, <1>6, <1>7, <1>8, <1>9, StepCases
    DEF Writes, EndsRequest

\* Without overlap, inviteMembers never brings the seats that members and pending
\* invites take above the limit that the plan has then.
THEOREM SeatsFit ==
  ASSUME \E one : Req = {one}
  PROVE  Spec => SeatsWithinLimit
  <1>1. TypeOK /\ SerialInv /\ SeatsInv /\ [Next]_vars =>
          [Cardinality(Seats') > Cardinality(Seats)
             => Cardinality(Seats') <= maxMembers']_vars
    BY SeatsStep
  <1>2. TypeOK /\ SerialInv /\ [Next]_vars => SerialInv'
    BY SerialNext
  <1>3. TypeOK /\ SeatsInv /\ [Next]_vars => SeatsInv'
    BY SeatsNext
  <1> QED
    BY <1>1, <1>2, <1>3, SerialInit, SeatsInit, TypeCorrect, PTL
    DEF Spec, SeatsWithinLimit

-----------------------------------------------------------------------------
(* The contract                                                            *)

\* Statements that are reached only in a workspace that is live.
NeedsLive == {"invite_self", "invite_lookup", "invite_count", "invite_count_members",
              "invite_count_invites", "invite_write", "invite_mail", "accept_member",
              "accept_update", "accept_create", "delete_count", "delete_write",
              "plan_write"}

LiveStill(q) == q.pc \in NeedsLive => ws = "live"

\* The arguments are those the routes accept, and no route purges.
Arguments(q) ==
    /\ q.pc \in Inviting => q.role \in InviteRoles
    /\ q.pc \in Updating => q.by # q.who /\ q.role \in UpdateRoles
    /\ q.pc = "plan_write" => q.max \in PlanLimits
    /\ q.pc # "purge_write"

\* What has been looked up is so until it is written.
LookedUp(q) ==
    /\ q.pc \in Updating => Active(q.by)
    /\ q.pc = "update_write" => Active(q.who) /\ q.role # "OWNER"
    /\ q.pc = "deactivate" => Active(q.who)
    /\ q.pc = "delete_write" => Cardinality(Members) <= 1
    /\ q.pc = "accept_join" => q.who \notin general
    /\ q.pc = "accept_close" => q.who \in general

ContractAt(q) == LiveStill(q) /\ Arguments(q) /\ LookedUp(q)

ContractInv == ws # "gone" /\ \A r \in Req : ContractAt(req[r])

\* Labels of which ContractAt says nothing.
Free == Label \ (NeedsLive \cup Inviting \cup Updating
                   \cup {"purge_write", "deactivate", "accept_join", "accept_close"})

LEMMA FreeLabels ==
  {"idle", "resend_find", "resend_workspace", "resend_self", "resend_write",
   "resend_mail", "revoke_find", "revoke_write", "decline_write", "accept_workspace",
   "accept_general", "remove_target", "leave_member", "leave_count", "channels",
   "delete_find"} \subseteq Free
  BY DEF Free, Label, NeedsLive, Inviting, Updating

LEMMA FreeHolds ==
  ASSUME NEW q, q.pc \in Free
  PROVE  ContractAt(q) /\ ContractAt(q)'
  <1>1. /\ q.pc \notin NeedsLive /\ q.pc \notin Inviting /\ q.pc \notin Updating
        /\ q.pc \notin {"plan_write", "purge_write", "deactivate", "accept_join",
                        "accept_close", "delete_write", "update_write"}
    BY DEF Free, NeedsLive, Updating
  <1>2. LiveStill(q) /\ LiveStill(q)'
    BY <1>1 DEF LiveStill
  <1>3. Arguments(q) /\ Arguments(q)'
    BY <1>1 DEF Arguments
  <1>4. LookedUp(q) /\ LookedUp(q)'
    BY <1>1 DEF LookedUp
  <1> QED
    BY <1>2, <1>3, <1>4 DEF ContractAt

LEMMA BlankFree == Blank.pc \in Free
  BY FreeLabels DEF Blank

\* A step of the only request that writes nothing.
LEMMA ContractRead ==
  ASSUME ContractInv, NEW r, Req = {r}, UNCHANGED db, ContractAt(req'[r])
  PROVE  ContractInv'
  <1>1. ContractAt(req[r])'
    BY DEF ContractAt, LiveStill, Arguments, LookedUp, db, Active, Members
  <1> QED
    BY <1>1 DEF ContractInv, db

LEMMA ContractCall ==
  ASSUME TypeOK, ContractInv, "purge" \notin Enabled, NEW r, Req = {r}, Call(r)
  PROVE  ContractInv'
  <1>0. req \in [Req -> Request] /\ r \in Req
    BY DEF TypeOK
  <1>1. UNCHANGED db
    BY <1>0, CallShape DEF Starts
  <1>2. CASE InviteArrive(r)
    <2>1. req'[r].pc = "invite_workspace" /\ req'[r].role \in InviteRoles
      BY <1>0, <1>2 DEF InviteArrive, Blank
    <2>2. ContractAt(req'[r])
      BY <2>1 DEF ContractAt, LiveStill, Arguments, LookedUp, NeedsLive, Updating
    <2> QED
      BY <1>1, <2>2, ContractRead
  <1>3. CASE UpdateArrive(r)
    <2>1. /\ req'[r].pc = "update_self" /\ req'[r].by # req'[r].who
          /\ req'[r].role \in UpdateRoles /\ Active(req'[r].by)
      BY <1>0, <1>3 DEF UpdateArrive, Blank, WorkspaceRoleGuard
    <2>2. ContractAt(req'[r])
      BY <2>1 DEF ContractAt, LiveStill, Arguments, LookedUp, NeedsLive, Inviting
    <2> QED
      BY <1>1, <2>2, ContractRead
  <1>4. CASE PlanArrive(r)
    <2>1. req'[r].pc = "plan_write" /\ req'[r].max \in PlanLimits /\ ws = "live"
      BY <1>0, <1>4 DEF PlanArrive, Blank
    <2>2. ContractAt(req'[r])
      BY <2>1 DEF ContractAt, LiveStill, Arguments, LookedUp, Inviting, Updating
    <2> QED
      BY <1>1, <2>2, ContractRead
  <1>5. ASSUME req'[r].pc \in Free PROVE ContractInv'
    BY <1>1, <1>5, FreeHolds, ContractRead
  <1>6. CASE ResendArrive(r) \/ RevokeArrive(r)
    <2>1. req'[r].pc \in {"resend_find", "revoke_find"}
      BY <1>0, <1>6 DEF ResendArrive, RevokeArrive, OnInvite, Blank
    <2> QED
      BY <1>5, <2>1, FreeLabels
  <1>7. CASE AcceptArrive(r) \/ DeclineArrive(r)
    <2>1. req'[r].pc \in {"accept_workspace", "decline_write"}
      BY <1>0, <1>7 DEF AcceptArrive, DeclineArrive, Blank
    <2> QED
      BY <1>5, <2>1, FreeLabels
  <1>8. CASE RemoveArrive(r) \/ LeaveArrive(r) \/ DeleteArrive(r)
    <2>1. req'[r].pc \in {"remove_target", "leave_member", "delete_find"}
      BY <1>0, <1>8 DEF RemoveArrive, LeaveArrive, DeleteArrive, Blank
    <2> QED
      BY <1>5, <2>1, FreeLabels
  <1>9. ~PurgeArrive(r)
    BY DEF PurgeArrive, Arrive
  <1> QED
    BY <1>2, <1>3, <1>4, <1>6, <1>7, <1>8, <1>9 DEF Call

LEMMA ContractQuiet ==
  ASSUME TypeOK, SerialInv, ContractInv, NEW r, Req = {r}, Quietly(r)
  PROVE  ContractInv'
  <1> DEFINE q == req[r]
             p == req'[r]
  <1>0. /\ req \in [Req -> Request] /\ r \in Req /\ q \in Request
        /\ SerialAt(q) /\ ContractAt(q) /\ ws # "gone"
    BY DEF TypeOK, SerialInv, ContractInv
  <1>1. UNCHANGED db
    BY <1>0, QuietShape
  <1>2. ASSUME ContractAt(p) PROVE ContractInv'
    BY <1>1, <1>2, ContractRead
  <1>3. ASSUME p = Blank \/ p.pc \in Free PROVE ContractInv'
    BY <1>2, <1>3, BlankFree, FreeHolds
  \* inviteMembers goes on with the same role.
  <1>4. ASSUME p.pc \in Inviting, p.role \in InviteRoles, ws = "live" PROVE ContractInv'
    <2>1. p.pc \notin Updating /\ p.pc \notin {"plan_write", "purge_write", "update_write",
            "deactivate", "delete_write", "accept_join", "accept_close"}
      BY <1>4 DEF Inviting, Updating
    <2> QED
      BY <1>2, <1>4, <2>1 DEF ContractAt, LiveStill, Arguments, LookedUp
  <1>5. CASE InviteFindWorkspace(r) \/ InviteFindSelf(r) \/ InviteLookup(r)
    <2>1. \/ p = Blank
          \/ /\ q.pc \in Inviting /\ p.pc \in Inviting /\ p.role = q.role
             /\ q.pc \in NeedsLive \/ ws = "live"
      <3>1. CASE InviteFindWorkspace(r)
        BY <1>0, <3>1 DEF InviteFindWorkspace, Goto, Request, Inviting
      <3>2. CASE InviteFindSelf(r)
        BY <1>0, <3>2 DEF InviteFindSelf, Goto, Request, Inviting, NeedsLive
      <3>3. CASE InviteLookup(r)
        <4>1. /\ q.pc = "invite_lookup" /\ p.role = q.role
              /\ p.pc \in {"invite_lookup", "invite_count"}
          BY <1>0, <3>3 DEF InviteLookup, Request
        <4> QED
          BY <4>1 DEF Inviting, NeedsLive
      <3> QED
        BY <1>5, <3>1, <3>2, <3>3
    <2> QED
      BY <1>0, <1>3, <1>4, <2>1 DEF ContractAt, LiveStill, Arguments
  <1>6. CASE InviteCountMembers(r) \/ InviteCountInvites(r)
    <2>1. PICK mine, other, count :
            /\ mine \in {"invite_count_members", "invite_count_invites"}
            /\ other \in {"invite_count_members", "invite_count_invites"}
            /\ Count(r, mine, other, count)
      BY <1>6 DEF InviteCountMembers, InviteCountInvites
    <2>2. \/ p = Blank
          \/ /\ p.pc \in {other, "invite_write"} /\ p.role = q.role
             /\ q.pc \in {"invite_count", mine}
      <3>1. CASE Read(r, "invite_count", TRUE, [Goto(r, other) EXCEPT !.n = count])
        BY <1>0, <3>1 DEF Goto, Request
      <3>2. CASE Read(r, mine, WithinLimit(r, count),
                      [Goto(r, "invite_write") EXCEPT !.n = 0, !.max = 0, !.pend = {}])
        BY <1>0, <3>2 DEF Goto, Request
      <3> QED
        BY <2>1, <3>1, <3>2 DEF Count
    <2>3. p = Blank \/ (p.pc \in Inviting /\ p.role \in InviteRoles /\ ws = "live")
      BY <1>0, <2>1, <2>2 DEF ContractAt, LiveStill, Arguments, Inviting, NeedsLive
    <2> QED
      BY <1>3, <1>4, <2>3
  <1>7. CASE InviteWriteFails(r) \/ AcceptCreateMemberFails(r)
             \/ AcceptJoinGeneralFails(r) \/ RowIsGone(r) \/ Fail(r)
    BY <1>0, <1>3, <1>7 DEF InviteWriteFails, AcceptCreateMemberFails,
                            AcceptJoinGeneralFails, RowIsGone, Fail
  <1>8. CASE ResendFindInvite(r) \/ ResendFindWorkspace(r) \/ ResendFindSelf(r)
             \/ RevokeFindInvite(r)
    <2>1. p = Blank \/ p.pc \in {"resend_workspace", "resend_self", "resend_write",
                                 "revoke_write"}
      BY <1>0, <1>8 DEF ResendFindInvite, ResendFindWorkspace, ResendFindSelf,
                        RevokeFindInvite, Goto, Request
    <2> QED
      BY <1>3, <2>1, FreeLabels
  <1>9. CASE AcceptFindWorkspace(r) \/ AcceptFindMember(r)
    <2>1. \/ p = Blank
          \/ /\ p.pc \in {"accept_member", "accept_update", "accept_create"}
             /\ q.pc = "accept_member" \/ ws = "live"
      BY <1>0, <1>9 DEF AcceptFindWorkspace, AcceptFindMember, Goto, Request
    <2>2. q.pc = "accept_member" => ws = "live"
      BY <1>0 DEF ContractAt, LiveStill, NeedsLive
    <2>3. p = Blank \/ ContractAt(p)
      BY <2>1, <2>2 DEF ContractAt, LiveStill, Arguments, LookedUp, Inviting, Updating
    <2> QED
      BY <1>2, <1>3, <2>3
  <1>10. CASE AcceptFindGeneral(r)
    <2>1. \/ p.pc = "accept_close" /\ p.who \in general
          \/ p.pc = "accept_join" /\ p.who \notin general
      BY <1>0, <1>10 DEF AcceptFindGeneral, Goto, Request
    <2>2. ContractAt(p)
      BY <2>1 DEF ContractAt, LiveStill, Arguments, LookedUp, Inviting, Updating, NeedsLive
    <2> QED
      BY <1>2, <2>2
  <1>11. CASE UpdateFindSelf(r) \/ UpdateFindTarget(r)
    <2>1. \/ p = Blank
          \/ /\ p.pc \in {"update_target", "update_write"} /\ q.pc \in Updating
             /\ p.by = q.by /\ p.who = q.who /\ p.role = q.role
             /\ p.pc = "update_write" => Active(q.who) /\ q.role # "OWNER"
      <3>1. CASE UpdateFindSelf(r)
        BY <1>0, <3>1 DEF UpdateFindSelf, Goto, Request, Updating
      <3>2. CASE UpdateFindTarget(r)
        BY <1>0, <3>2 DEF UpdateFindTarget, Goto, Request, Updating
      <3> QED
        BY <1>11, <3>1, <3>2
    <2>2. q.pc \in Updating => q.by # q.who /\ q.role \in UpdateRoles /\ Active(q.by)
      BY <1>0 DEF ContractAt, Arguments, LookedUp
    <2>3. p = Blank \/ ContractAt(p)
      BY <2>1, <2>2 DEF ContractAt, LiveStill, Arguments, LookedUp, Inviting, NeedsLive
    <2> QED
      BY <1>2, <1>3, <2>3
  <1>12. CASE RemoveFindTarget(r) \/ LeaveFindMember(r) \/ LeaveCountOwners(r)
    <2>1. q.pc = "leave_count" => Active(q.who)
      BY <1>0 DEF SerialAt, OwnerRemains, Owners
    <2>2. \/ p = Blank
          \/ p.pc = "leave_count"
          \/ p.pc = "deactivate" /\ Active(p.who)
      <3>1. CASE RemoveFindTarget(r)
        BY <1>0, <3>1 DEF RemoveFindTarget, Goto, Request
      <3>2. CASE LeaveFindMember(r)
        BY <1>0, <3>2 DEF LeaveFindMember, Goto, Request
      <3>3. CASE LeaveCountOwners(r)
        BY <1>0, <2>1, <3>3 DEF LeaveCountOwners, Goto, Request
      <3> QED
        BY <1>12, <3>1, <3>2, <3>3
    <2>3. p.pc = "deactivate" /\ Active(p.who) => ContractAt(p)
      BY DEF ContractAt, LiveStill, Arguments, LookedUp, Inviting, Updating, NeedsLive
    <2> QED
      BY <1>2, <1>3, <2>2, <2>3, FreeLabels
  <1>13. CASE DeleteFindWorkspace(r) \/ DeleteCountMembers(r)
    <2>1. \/ p = Blank
          \/ p.pc = "delete_count" /\ ws = "live"
          \/ /\ p.pc = "delete_write" /\ q.pc = "delete_count"
             /\ Cardinality(Members) <= 1
      BY <1>0, <1>13 DEF DeleteFindWorkspace, DeleteCountMembers, Goto, Request
    <2>2. q.pc = "delete_count" => ws = "live"
      BY <1>0 DEF ContractAt, LiveStill, NeedsLive
    <2>3. p = Blank \/ ContractAt(p)
      BY <2>1, <2>2 DEF ContractAt, LiveStill, Arguments, LookedUp, Inviting, Updating
    <2> QED
      BY <1>2, <1>3, <2>3
  <1> QED
    BY <1>5, <1>6, <1>7, <1>8, <1>9, <1>10, <1>11, <1>12, <1>13 DEF Quietly

LEMMA ContractWrites ==
  ASSUME TypeOK, ContractInv, NEW r, Req = {r}, Writes(r)
  PROVE  ContractInv'
  <1> DEFINE q == req[r]
  <1>p. PICK p : p = req'[r]
    OBVIOUS
  <1>0. /\ req \in [Req -> Request] /\ r \in Req /\ q \in Request
        /\ ContractAt(q) /\ ws # "gone"
    BY DEF TypeOK, ContractInv
  <1>1. ws' # "gone"
    <2>1. ~HardDelete(r)
      BY <1>0 DEF HardDelete, Row, ContractAt, Arguments
    <2> QED
      BY <1>0, <2>1 DEF Writes, EndsRequest, Admits, InviteWrite, InviteMail, ResendWrite,
           ResendMail, RevokeWrite, DeclineWrite, AcceptCloseInvite, CloseInvite,
           UpdateWrite, RemoveFromChannels, SoftDelete, PlanWrite, Deactivate,
           AcceptUpdateMember, AcceptCreateMember, Activate, AcceptJoinGeneral
  <1>2. ASSUME ContractAt(p)' PROVE ContractInv'
    BY <1>p, <1>1, <1>2 DEF ContractInv
  <1>3. ASSUME p.pc \in Free PROVE ContractInv'
    BY <1>2, <1>3, FreeHolds
  <1>4. CASE EndsRequest(r) \/ ResendWrite(r) \/ Deactivate(r) \/ Admits(r)
    <2>1. p.pc \in {"idle", "resend_mail", "channels", "accept_general"}
      BY <1>p, <1>0, <1>4, WriteLabels DEF LeadsTo
    <2> QED
      BY <1>3, <2>1, FreeLabels
  <1>5. CASE InviteWrite(r) \/ InviteMail(r)
    <2>1. /\ p = Blank \/ (p.pc \in {"invite_mail", "invite_write"} /\ p.role = q.role)
          /\ q.pc \in {"invite_mail", "invite_write"} /\ ws' = ws
      <3>1. CASE InviteWrite(r)
        BY <1>p, <1>0, <3>1 DEF InviteWrite, Goto, Request
      <3>2. CASE InviteMail(r)
        BY <1>p, <1>0, <3>2 DEF InviteMail, Request
      <3> QED
        BY <1>5, <3>1, <3>2
    <2>2. q.role \in InviteRoles /\ ws' = "live"
      BY <1>0, <2>1 DEF ContractAt, LiveStill, Arguments, NeedsLive, Inviting
    <2>3. p = Blank \/ ContractAt(p)'
      BY <2>1, <2>2 DEF ContractAt, LiveStill, Arguments, LookedUp, Updating
    <2> QED
      BY <1>2, <1>3, <2>3, BlankFree
  <1>6. CASE AcceptJoinGeneral(r)
    <2>1. p.pc = "accept_close" /\ p.who \in general'
      BY <1>p, <1>0, <1>6, WriteLabels DEF LeadsTo, AcceptJoinGeneral
    <2>2. ContractAt(p)'
      BY <2>1 DEF ContractAt, LiveStill, Arguments, LookedUp, Inviting, Updating, NeedsLive
    <2> QED
      BY <1>2, <2>2
  <1> QED
    BY <1>4, <1>5, <1>6 DEF Writes

LEMMA ContractNext ==
  ASSUME NEW r, Req = {r}, "purge" \notin Enabled,
         TypeOK, SerialInv, ContractInv, [Next]_vars
  PROVE  ContractInv'
  <1>0. r \in Req
    OBVIOUS
  <1>1. ASSUME UNCHANGED <<ws, member, general, req>> PROVE ContractInv'
    <2>1. ContractAt(req[r]) => ContractAt(req[r])'
      BY <1>1 DEF ContractAt, LiveStill, Arguments, LookedUp, Active, Members
    <2> QED
      BY <1>1, <2>1 DEF ContractInv
  <1>2. ASSUME NEW u \in User, Expire(u) PROVE ContractInv'
    BY <1>1, <1>2 DEF Expire
  <1>3. CASE UNCHANGED vars
    BY <1>1, <1>3 DEF vars
  <1> QED
    BY <1>0, <1>2, <1>3, StepWrites, ContractCall, ContractQuiet, ContractWrites DEF Next

LEMMA ContractStart == Init => ContractInv
  BY BlankFree, FreeHolds DEF Init, ContractInv

\* How the state of a workspace that serves one request maps to the contract's.
LEMMA Views ==
  ASSUME TypeOK, NEW r, Req = {r}
  PROVE  /\ Admitting = IF req[r].pc \in Joined THEN {req[r].who} ELSE {}
         /\ Departing = IF req[r].pc = "channels" THEN {req[r].who} ELSE {}
         /\ Contract!In = Members
         /\ Contract!Owning = Owners
         /\ Contract!Offered = PendingInvites \ Admitting
  <1>0. /\ req[r].who \in User /\ member \in [User -> MemberRow]
        /\ invite \in [User -> InviteRow]
    BY DEF TypeOK, Request
  <1>1. /\ Admitting = IF req[r].pc \in Joined THEN {req[r].who} ELSE {}
        /\ Departing = IF req[r].pc = "channels" THEN {req[r].who} ELSE {}
    BY <1>0 DEF Admitting, Departing, Joined
  <1>2. Contract!In = Members
    BY <1>0 DEF Contract!In, Members, Active, MemberRow, Role
  <1>3. Contract!Owning = Owners
    BY <1>0 DEF Contract!Owning, Owners, Active, MemberRow, Role
  <1>4. Contract!Offered = PendingInvites \ Admitting
    BY <1>0 DEF Contract!Offered, PendingInvites, InviteRow, Role
  <1> QED
    BY <1>1, <1>2, <1>3, <1>4

LEMMA NextViews ==
  ASSUME TypeOK', NEW r, Req = {r}
  PROVE  /\ Admitting' = IF req'[r].pc \in Joined THEN {req'[r].who} ELSE {}
         /\ Departing' = IF req'[r].pc = "channels" THEN {req'[r].who} ELSE {}
  <1>0. req'[r].who \in User
    BY DEF TypeOK, Request
  <1> QED
    BY <1>0 DEF Admitting, Departing, Joined

\* The contract's roles, offers and room.
Roles == [u \in User |-> IF Active(u) THEN member[u].role ELSE "NONE"]
Offers == [u \in User |-> IF invite[u].status = "PENDING" /\ u \notin Admitting
                          THEN invite[u].role ELSE "NONE"]
Room == (general \cup Admitting) \ Departing

LEMMA OneRole ==
  ASSUME NEW u \in User, NEW x,
         \A v \in User : Roles'[v] = IF v = u THEN x ELSE Roles[v]
  PROVE  Roles' = [Roles EXCEPT ![u] = x]
  BY DEF Roles

LEMMA OneOffer ==
  ASSUME NEW u \in User, NEW x,
         \A v \in User : Offers'[v] = IF v = u THEN x ELSE Offers[v]
  PROVE  Offers' = [Offers EXCEPT ![u] = x]
  BY DEF Offers

LEMMA SameRoles ==
  ASSUME member' = member
  PROVE  Roles' = Roles
  BY DEF Roles, Active

LEMMA SameOffers ==
  ASSUME invite' = invite, Admitting' = Admitting
  PROVE  Offers' = Offers
  BY DEF Offers

\* A step that changes nothing the contract sees.
LEMMA Unseen ==
  ASSUME (ws' = "live") = (ws = "live"), maxMembers' = maxMembers, member' = member,
         \A u \in User : /\ invite'[u].status = invite[u].status
                         /\ invite'[u].role = invite[u].role,
         Admitting' = Admitting,
         (general \cup Admitting)' \ Departing' = (general \cup Admitting) \ Departing
  PROVE  UNCHANGED Contract!cvars
  BY DEF Contract!cvars, Active

LEMMA ContractInit == Init => Contract!CInit
  <1> SUFFICES ASSUME Init PROVE Contract!CInit
    OBVIOUS
  <1>1. \A r \in Req : req[r].pc = "idle"
    BY DEF Init, Blank
  <1>2. Admitting = {} /\ Departing = {}
    BY <1>1 DEF Admitting, Departing
  <1>3. PICK offered \in InviteRoles, sent \in SUBSET Onboarded :
          invite = [u \in User |->
                      IF u \in Onboarded
                      THEN [status |-> "PENDING", role |-> offered, token |-> 1,
                            expired |-> FALSE, mailed |-> u \in sent]
                      ELSE NoInvite]
    BY DEF Init
  <1>4. \A u \in User : (IF invite[u].status = "PENDING" /\ u \notin Admitting
                         THEN invite[u].role ELSE "NONE")
                        = IF u \in Onboarded THEN offered ELSE "NONE"
    BY <1>2, <1>3 DEF NoInvite
  <1>5. \A u \in User : (IF Active(u) THEN member[u].role ELSE "NONE")
                        = IF u = Creator THEN "OWNER" ELSE "NONE"
    BY DEF Init, Active, NoMember
  <1>6. /\ ws = "live" /\ maxMembers = FreeLimit
        /\ (general \cup Admitting) \ Departing = {Creator}
    BY <1>2 DEF Init
  <1> QED
    BY <1>4, <1>5, <1>6 DEF Contract!CInit

\* The reads: acceptInvite has been admitted before it looks for #general.
LEMMA QuietUnseen ==
  ASSUME TypeOK, TypeOK', SerialInv, ContractInv, ~CanFail, NEW r, Req = {r},
         Quietly(r)
  PROVE  UNCHANGED Contract!cvars
  <1> DEFINE q == req[r]
  <1>0. r \in Req /\ req \in [Req -> Request] /\ q \in Request /\ ContractAt(q)
        /\ ws # "gone"
    BY DEF TypeOK, ContractInv
  <1>1. UNCHANGED db
    BY <1>0, QuietShape
  <1>2. CASE AcceptFindGeneral(r)
    <2>1. /\ q.pc = "accept_general" /\ req'[r].pc \in {"accept_join", "accept_close"}
          /\ req'[r].who = q.who
      BY <1>0, <1>2 DEF AcceptFindGeneral, Goto, Request
    <2>2. /\ Admitting = {q.who} /\ Departing = {}
          /\ Admitting' = {q.who} /\ Departing' = {}
      <3>1. /\ Admitting = IF q.pc \in Joined THEN {q.who} ELSE {}
            /\ Departing = IF q.pc = "channels" THEN {q.who} ELSE {}
        BY Views
      <3>2. /\ Admitting' = IF req'[r].pc \in Joined THEN {req'[r].who} ELSE {}
            /\ Departing' = IF req'[r].pc = "channels" THEN {req'[r].who} ELSE {}
        BY NextViews
      <3> QED
        BY <2>1, <3>1, <3>2 DEF Joined
    <2> QED
      BY <1>1, <2>2, Unseen DEF db
  <1>3. CASE ~AcceptFindGeneral(r)
    <2>1. ~AcceptJoinGeneralFails(r) /\ ~Fail(r) /\ ~RowIsGone(r)
      BY <1>0 DEF AcceptJoinGeneralFails, Fail, RowIsGone, Throws, ContractAt, LookedUp
    <2>2. q.pc \notin Joined /\ q.pc # "channels"
      BY <1>3, <2>1
      DEF Quietly, Joined, InviteFindWorkspace, InviteFindSelf, InviteLookup,
          InviteCountMembers, InviteCountInvites, Count, InviteWriteFails,
          ResendFindInvite, ResendFindWorkspace, ResendFindSelf, RevokeFindInvite,
          AcceptFindWorkspace, AcceptFindMember, AcceptCreateMemberFails,
          UpdateFindSelf, UpdateFindTarget, RemoveFindTarget, LeaveFindMember,
          LeaveCountOwners, DeleteFindWorkspace, DeleteCountMembers
    <2>3. req'[r].pc \notin Joined /\ req'[r].pc # "channels"
      BY <1>0, <2>2, QuietShape DEF Proceeds, Joined, Blank
    <2>4. Admitting' = {} /\ Admitting = {} /\ Departing' = {} /\ Departing = {}
      BY <2>2, <2>3, Views, NextViews
    <2> QED
      BY <1>1, <2>4, Unseen DEF db
  <1> QED
    BY <1>2, <1>3

LEMMA CallUnseen ==
  ASSUME TypeOK, TypeOK', NEW r, Req = {r}, Call(r)
  PROVE  UNCHANGED Contract!cvars
  <1>0. r \in Req
    OBVIOUS
  <1>1. /\ UNCHANGED db /\ req[r].pc = "idle"
        /\ req'[r].pc \notin Joined /\ req'[r].pc # "channels"
    <2>1. req[r].pc = "idle"
      BY DEF Call, InviteArrive, ResendArrive, RevokeArrive, OnInvite, AcceptArrive,
             DeclineArrive, UpdateArrive, RemoveArrive, LeaveArrive, DeleteArrive,
             PlanArrive, PurgeArrive, Arrive
    <2>2. PICK q \in Request : Starts(r, q)
      BY <1>0, CallShape
    <2>3. req'[r] = q
      BY <1>0, <2>2 DEF Starts, TypeOK
    <2> QED
      BY <2>1, <2>2, <2>3 DEF Starts, Joined
  <1>2. Admitting' = {} /\ Admitting = {} /\ Departing' = {} /\ Departing = {}
    BY <1>1, Views, NextViews DEF Joined
  <1> QED
    BY <1>1, <1>2, Unseen DEF db

\* The seat of an address that inviteMembers writes.
LEMMA SeatKept ==
  ASSUME TypeOK, SeatsInv, NEW r, Req = {r}, req[r].pc = "invite_write",
         NEW u \in req[r].todo
  PROVE  Cardinality(Members \cup PendingInvites \cup {u}) <= maxMembers
         \/ u \in PendingInvites
  <1> SUFFICES ASSUME u \notin PendingInvites
               PROVE  Cardinality(Members \cup PendingInvites \cup {u}) <= maxMembers
    OBVIOUS
  <1>0. /\ req[r].todo \in SUBSET User /\ u \in User /\ SeatsAt(req[r])
        /\ maxMembers \in Nat
    BY DEF TypeOK, SeatsInv, Request
  <1>1. PICK M, P, W : M = Members /\ P = PendingInvites /\ W = req[r].todo \ P
    OBVIOUS
  <1>2. /\ M \in SUBSET User /\ P \in SUBSET User /\ W \in SUBSET User
        /\ u \in W /\ u \notin P
    BY <1>0, <1>1 DEF Members, PendingInvites
  <1>3. Cardinality(M) + Cardinality(P) + Cardinality(W) <= maxMembers
    BY <1>0, <1>1 DEF SeatsAt
  <1>4. /\ IsFiniteSet(M) /\ IsFiniteSet(P) /\ IsFiniteSet(W) /\ IsFiniteSet(M \cup P)
        /\ Cardinality(M) \in Nat /\ Cardinality(P) \in Nat /\ Cardinality(W) \in Nat
        /\ Cardinality(M \cup P) \in Nat
    <2>1. M \cup P \in SUBSET User
      BY <1>2
    <2> QED
      BY <1>2, <2>1, FiniteSeats
  <1>5. Cardinality(M \cup P) <= Cardinality(M) + Cardinality(P)
    <2>1. /\ Cardinality(M \cup P) =
               Cardinality(M) + Cardinality(P) - Cardinality(M \cap P)
          /\ Cardinality(M \cap P) \in Nat
      <3>1. M \cap P \in SUBSET User
        BY <1>2
      <3> QED
        BY <1>4, <3>1, FS_Union, FiniteSeats
    <2> QED
      BY <1>4, <2>1
  <1>6. Cardinality((M \cup P) \cup {u}) <= Cardinality(M \cup P) + 1
    <2>1. Cardinality((M \cup P) \cup {u}) =
            IF u \in M \cup P THEN Cardinality(M \cup P) ELSE Cardinality(M \cup P) + 1
      BY <1>4, FS_AddElement
    <2> QED
      BY <1>4, <2>1
  <1>7. Cardinality(W) >= 1
    BY <1>2, <1>4, FS_EmptySet
  <1>8. Cardinality((M \cup P) \cup {u}) \in Nat
    <2>1. (M \cup P) \cup {u} \in SUBSET User
      BY <1>0, <1>2
    <2> QED
      BY <2>1, FiniteSeats
  <1> QED
    BY <1>0, <1>1, <1>3, <1>4, <1>5, <1>6, <1>7, <1>8

\* The steps of the contract, said of its variables.
LEMMA SameCardinality ==
  ASSUME NEW S
  PROVE  Contract!Cardinality(S) = Cardinality(S)
  BY DEF Contract!Cardinality, Cardinality, Contract!IsFiniteSet, IsFiniteSet

LEMMA IsOffer ==
  ASSUME NEW u, NEW role, ws = "live", UNCHANGED <<ws, maxMembers>>,
         \/ Cardinality(Contract!In \cup Contract!Offered \cup {u}) <= maxMembers
         \/ u \in Contract!Offered,
         Offers' = [Offers EXCEPT ![u] = role], Roles' = Roles, Room' = Room
  PROVE  Contract!Offer(u, role)
  <1>1. \/ Contract!Cardinality(Contract!In \cup Contract!Offered \cup {u}) <= maxMembers
        \/ u \in Contract!Offered
    BY SameCardinality
  <1> QED
    BY <1>1 DEF Contract!Offer, Offers, Roles, Room

LEMMA IsWithdraw ==
  ASSUME NEW u, u \in Contract!Offered, UNCHANGED <<ws, maxMembers>>,
         Offers' = [Offers EXCEPT ![u] = "NONE"], Roles' = Roles, Room' = Room
  PROVE  Contract!Withdraw(u)
  BY DEF Contract!Withdraw, Offers, Roles, Room

LEMMA IsAdmission ==
  ASSUME NEW u, ws = "live", u \in Contract!Offered, u \notin Contract!In,
         UNCHANGED <<ws, maxMembers>>,
         Roles' = [Roles EXCEPT ![u] = Offers[u]],
         Offers' = [Offers EXCEPT ![u] = "NONE"], Room' = Room \cup {u}
  PROVE  Contract!Admission(u)
  BY DEF Contract!Admission, Offers, Roles, Room

LEMMA IsPromote ==
  ASSUME NEW u, NEW v, NEW role, u \in Contract!In, v \in Contract!In, u # v,
         Roles[u] = "OWNER" \/ (Roles[u] = "ADMIN" /\ Roles[v] \in {"MEMBER", "GUEST"}),
         Roles[v] # "OWNER", role # "OWNER", UNCHANGED <<ws, maxMembers>>,
         Roles' = [Roles EXCEPT ![v] = role], Offers' = Offers, Room' = Room
  PROVE  Contract!Promote(u, v, role)
  BY DEF Contract!Promote, Offers, Roles, Room

LEMMA IsDeparture ==
  ASSUME NEW u, u \in Contract!In, Contract!Owning # {u}, UNCHANGED <<ws, maxMembers>>,
         Roles' = [Roles EXCEPT ![u] = "NONE"], Offers' = Offers, Room' = Room \ {u}
  PROVE  Contract!Departure(u)
  BY DEF Contract!Departure, Offers, Roles, Room

LEMMA IsClose ==
  ASSUME ws = "live", ws' = "deleted", maxMembers' = maxMembers,
         Cardinality(Contract!In) <= 1, Offers' = Offers, Roles' = Roles, Room' = Room
  PROVE  Contract!Close
  <1>1. Contract!Cardinality(Contract!In) <= 1
    BY SameCardinality
  <1> QED
    BY <1>1 DEF Contract!Close, Offers, Roles, Room

LEMMA WriteSeen ==
  ASSUME TypeOK, TypeOK', SerialInv, SeatsInv, ContractInv, NEW r, Req = {r}, Writes(r)
  PROVE  Contract!CNext \/ UNCHANGED Contract!cvars
  <1> DEFINE q == req[r]
  <1>0. /\ r \in Req /\ req \in [Req -> Request] /\ q \in Request /\ q.who \in User
        /\ q.by \in User /\ member \in [User -> MemberRow]
        /\ invite \in [User -> InviteRow]
        /\ SerialAt(q) /\ ContractAt(q) /\ SeatsAt(q) /\ ws # "gone"
    BY DEF TypeOK, Request, SerialInv, SeatsInv, ContractInv
  \* The arguments of the request, as constants of the step.
  <1>arg. PICK who, by, role :
           who \in User /\ by \in User /\ who = q.who /\ by = q.by /\ role = q.role
    BY <1>0
  <1>1. /\ Admitting = IF q.pc \in Joined THEN {q.who} ELSE {}
        /\ Departing = IF q.pc = "channels" THEN {q.who} ELSE {}
        /\ Admitting' = IF req'[r].pc \in Joined THEN {req'[r].who} ELSE {}
        /\ Departing' = IF req'[r].pc = "channels" THEN {req'[r].who} ELSE {}
        /\ Contract!In = Members /\ Contract!Owning = Owners
        /\ Contract!Offered = PendingInvites \ Admitting
    BY Views, NextViews
  \* What a write begun outside acceptInvite and the departures leaves empty.
  <1>2. ASSUME q.pc \notin Joined \cup {"channels"},
               req'[r].pc \in {"idle", "invite_mail", "invite_write", "resend_mail"}
        PROVE  Admitting = {} /\ Departing = {} /\ Admitting' = {} /\ Departing' = {}
    BY <1>1, <1>2 DEF Joined
  <1>3. CASE InviteWrite(r)
    <2>1. PICK u, token :
            /\ u \in q.todo /\ q.pc = "invite_write"
            /\ UNCHANGED <<ws, maxMembers, member, general>>
            /\ invite' = [invite EXCEPT ![u] =
                            [status |-> "PENDING", role |-> q.role, token |-> token,
                             expired |-> FALSE, mailed |-> FALSE]]
      BY <1>3 DEF InviteWrite
    <2>2. Admitting = {} /\ Departing = {} /\ Admitting' = {} /\ Departing' = {}
      BY <1>0, <1>2, <1>3, <2>1, WriteLabels DEF LeadsTo, Joined
    <2>3. u \in User /\ q.role \in InviteRoles /\ ws = "live"
      BY <1>0, <2>1 DEF Request, ContractAt, LiveStill, Arguments, NeedsLive, Inviting
    <2>4. \/ Cardinality(Contract!In \cup Contract!Offered \cup {u}) <= maxMembers
          \/ u \in Contract!Offered
      <3>1. Contract!In = Members /\ Contract!Offered = PendingInvites
        BY <1>1, <2>2
      <3> QED
        BY <2>1, <3>1, SeatKept
    <2>5. Contract!Offer(u, role)
      <3>1. \A v \in User : Offers'[v] = IF v = u THEN role ELSE Offers[v]
        BY <1>0, <1>arg, <2>1, <2>2, <2>3 DEF Offers
      <3>2. Offers' = [Offers EXCEPT ![u] = role] /\ Roles' = Roles /\ Room' = Room
        BY <1>arg, <2>1, <2>2, <2>3, <3>1, OneOffer, SameRoles DEF Room
      <3> QED
        BY <1>arg, <2>1, <2>3, <2>4, <3>2, IsOffer
    <2> QED
      BY <1>arg, <2>3, <2>5 DEF Contract!CNext
  <1>4. CASE InviteMail(r) \/ ResendWrite(r) \/ ResendMail(r)
    <2>1. /\ q.pc \in {"invite_mail", "resend_write", "resend_mail"}
          /\ UNCHANGED <<ws, maxMembers, member, general>>
          /\ \A u \in User : /\ invite'[u].status = invite[u].status
                             /\ invite'[u].role = invite[u].role
      BY <1>0, <1>4 DEF InviteMail, ResendWrite, ResendMail, Mailed, InviteRow
    <2>2. Admitting = {} /\ Departing = {} /\ Admitting' = {} /\ Departing' = {}
      BY <1>0, <1>2, <1>4, <2>1, WriteLabels DEF LeadsTo, Joined, EndsRequest
    <2> QED
      BY <2>1, <2>2, Unseen
  <1>5. CASE RevokeWrite(r) \/ DeclineWrite(r)
    <2>1. PICK status \in {"REVOKED", "DECLINED"} :
            /\ q.pc \in {"revoke_write", "decline_write"}
            /\ invite' = [invite EXCEPT ![q.who].status = status]
            /\ UNCHANGED <<ws, maxMembers, member, general>>
      BY <1>5 DEF RevokeWrite, DeclineWrite, CloseInvite
    <2>2. Admitting = {} /\ Departing = {} /\ Admitting' = {} /\ Departing' = {}
      BY <1>0, <1>2, <1>5, <2>1, WriteLabels DEF LeadsTo, Joined, EndsRequest
    <2>3. q.who \in Contract!Offered
      BY <1>0, <1>1, <2>1, <2>2 DEF SerialAt, FoundOpen, ToClose, PendingInvites
    <2>4. Contract!Withdraw(who)
      <3>1. \A v \in User : Offers'[v] = IF v = who THEN "NONE" ELSE Offers[v]
        BY <1>0, <1>arg, <2>1, <2>2 DEF Offers, InviteRow
      <3>2. Offers' = [Offers EXCEPT ![who] = "NONE"] /\ Roles' = Roles /\ Room' = Room
        BY <1>0, <1>arg, <2>1, <2>2, <3>1, OneOffer, SameRoles DEF Room
      <3> QED
        BY <1>arg, <2>1, <2>3, <3>2, IsWithdraw
    <2> QED
      BY <1>arg, <2>4 DEF Contract!CNext
  <1>6. CASE AcceptCloseInvite(r)
    <2>1. /\ q.pc = "accept_close" /\ invite' = [invite EXCEPT ![q.who].status = "ACCEPTED"]
          /\ UNCHANGED <<ws, maxMembers, member, general>>
      BY <1>6 DEF AcceptCloseInvite, CloseInvite
    <2>2. /\ Admitting = {q.who} /\ Departing = {} /\ Admitting' = {} /\ Departing' = {}
          /\ q.who \in general
      BY <1>0, <1>1, <1>6, <2>1, WriteLabels
      DEF LeadsTo, Joined, EndsRequest, ContractAt, LookedUp
    <2> QED
      BY <1>0, <2>1, <2>2 DEF Contract!cvars, Active, InviteRow
  <1>7. CASE Admits(r)
    <2>1. /\ q.pc \in {"accept_update", "accept_create"}
          /\ UNCHANGED <<ws, maxMembers, invite, general>>
          /\ member' = [member EXCEPT ![q.who] = [row |-> "active", role |-> q.role]]
      BY <1>7 DEF Admits, AcceptUpdateMember, AcceptCreateMember, Activate
    <2>2. Admitting = {} /\ Departing = {} /\ Admitting' = {q.who} /\ Departing' = {}
      BY <1>0, <1>1, <1>7, <2>1, WriteLabels DEF LeadsTo, Joined
    <2>3. /\ ws = "live" /\ q.who \in PendingInvites /\ q.who \notin Members
          /\ q.role = invite[q.who].role
      BY <1>0, <2>1 DEF ContractAt, LiveStill, NeedsLive, SerialAt, FoundOpen, MayJoin,
                        Joining, PendingInvites, Members
    <2>4. invite[q.who].status = "PENDING"
      BY <2>3 DEF PendingInvites
    <2>5. Contract!Admission(who)
      <3>1. \A v \in User : Roles'[v] = IF v = who THEN Offers[v] ELSE Roles[v]
        BY <1>0, <1>arg, <2>1, <2>2, <2>3, <2>4 DEF Roles, Offers, Active
      <3>2. \A v \in User : Offers'[v] = IF v = who THEN "NONE" ELSE Offers[v]
        BY <1>0, <1>arg, <2>1, <2>2 DEF Offers
      <3>3. /\ Roles' = [Roles EXCEPT ![who] = Offers[who]]
            /\ Offers' = [Offers EXCEPT ![who] = "NONE"]
            /\ Room' = Room \cup {who}
        BY <1>0, <1>arg, <2>1, <2>2, <3>1, <3>2, OneRole, OneOffer DEF Room
      <3>4. who \in Contract!Offered /\ who \notin Contract!In
        BY <1>1, <1>arg, <2>2, <2>3
      <3> QED
        BY <1>arg, <2>1, <2>3, <3>3, <3>4, IsAdmission
    <2> QED
      BY <1>arg, <2>5 DEF Contract!CNext
  <1>8. CASE AcceptJoinGeneral(r)
    <2>1. /\ q.pc = "accept_join" /\ general' = general \cup {q.who}
          /\ UNCHANGED <<ws, maxMembers, member, invite>>
      BY <1>8 DEF AcceptJoinGeneral
    <2>2. /\ Admitting = {q.who} /\ Departing = {} /\ Admitting' = {q.who}
          /\ Departing' = {}
      BY <1>0, <1>1, <1>8, <2>1, WriteLabels DEF LeadsTo, Joined
    <2> QED
      BY <2>1, <2>2, Unseen
  <1>9. CASE UpdateWrite(r)
    <2>1. /\ q.pc = "update_write" /\ UNCHANGED <<ws, maxMembers, invite, general>>
          /\ member' = [member EXCEPT ![q.who].role = q.role]
      BY <1>9 DEF UpdateWrite
    <2>2. Admitting = {} /\ Departing = {} /\ Admitting' = {} /\ Departing' = {}
      BY <1>0, <1>2, <1>9, <2>1, WriteLabels DEF LeadsTo, Joined, EndsRequest
    <2>3. /\ q.by # q.who /\ q.role \in UpdateRoles /\ q.role # "OWNER"
          /\ Active(q.by) /\ Active(q.who) /\ member[q.who].role # "OWNER"
      BY <1>0, <2>1 DEF ContractAt, Arguments, LookedUp, Updating, SerialAt, Outranks
    <2>4. \/ member[q.by].role = "OWNER"
          \/ member[q.by].role = "ADMIN" /\ member[q.who].role \in {"MEMBER", "GUEST"}
      <3>1. /\ Level[member[q.by].role] >= Level["ADMIN"]
            /\ Level[member[q.by].role] > Level[member[q.who].role]
        BY <1>0, <2>1 DEF SerialAt, Outranks, Updating
      <3>2. member[q.by].role \in Role /\ member[q.who].role \in Role
        BY <1>0 DEF MemberRow
      <3> QED
        BY <3>1, <3>2 DEF Level, Role
    <2>5. Contract!Promote(by, who, role)
      <3>1. \A v \in User : Roles'[v] = IF v = who THEN role ELSE Roles[v]
        BY <1>0, <1>arg, <2>1, <2>3 DEF Roles, Active, MemberRow
      <3>2. /\ Roles' = [Roles EXCEPT ![who] = role]
            /\ Offers' = Offers /\ Room' = Room
        BY <1>0, <1>arg, <2>1, <2>2, <3>1, OneRole, SameOffers DEF Room
      <3>3. /\ by \in Contract!In /\ who \in Contract!In
            /\ Roles[by] = member[by].role /\ Roles[who] = member[who].role
        BY <1>0, <1>1, <1>arg, <2>3 DEF Roles, Members
      <3> QED
        BY <1>arg, <2>1, <2>3, <2>4, <3>2, <3>3, IsPromote
    <2> QED
      BY <1>arg, <2>3, <2>5 DEF Contract!CNext
  <1>10. CASE Deactivate(r)
    <2>1. /\ q.pc = "deactivate" /\ UNCHANGED <<ws, maxMembers, invite, general>>
          /\ member' = [member EXCEPT ![q.who].row = "inactive"]
          /\ req'[r].who = q.who
      BY <1>0, <1>10 DEF Deactivate, Goto, Request
    <2>2. /\ Admitting = {} /\ Departing = {} /\ Admitting' = {}
          /\ Departing' = {q.who}
      BY <1>0, <1>1, <1>10, <2>1, WriteLabels DEF LeadsTo, Joined
    <2>3. Active(q.who) /\ \E o \in Owners : o # q.who
      BY <1>0, <2>1 DEF ContractAt, LookedUp, SerialAt, OwnerRemains
    <2>4. Contract!Departure(who)
      <3>1. \A v \in User : Roles'[v] = IF v = who THEN "NONE" ELSE Roles[v]
        BY <1>0, <1>arg, <2>1 DEF Roles, Active, MemberRow
      <3>2. /\ Roles' = [Roles EXCEPT ![who] = "NONE"]
            /\ Offers' = Offers /\ Room' = Room \ {who}
        BY <1>0, <1>arg, <2>1, <2>2, <3>1, OneRole, SameOffers DEF Room
      <3>3. who \in Contract!In /\ Contract!Owning # {who}
        BY <1>0, <1>1, <1>arg, <2>3 DEF Members
      <3> QED
        BY <1>arg, <2>1, <3>2, <3>3, IsDeparture
    <2> QED
      BY <1>arg, <2>4 DEF Contract!CNext
  <1>11. CASE RemoveFromChannels(r)
    <2>1. /\ q.pc = "channels" /\ general' = general \ {q.who}
          /\ UNCHANGED <<ws, maxMembers, member, invite>>
      BY <1>11 DEF RemoveFromChannels
    <2>2. /\ Admitting = {} /\ Departing = {q.who} /\ Admitting' = {}
          /\ Departing' = {}
      BY <1>0, <1>1, <1>11, <2>1, WriteLabels DEF LeadsTo, Joined, EndsRequest
    <2> QED
      BY <2>1, <2>2, Unseen
  <1>12. CASE SoftDelete(r) \/ PlanWrite(r)
    <2>1. /\ q.pc \in {"delete_write", "plan_write"}
          /\ UNCHANGED <<member, invite, general>>
      BY <1>12 DEF SoftDelete, PlanWrite
    <2>2. Admitting = {} /\ Departing = {} /\ Admitting' = {} /\ Departing' = {}
      BY <1>0, <1>2, <1>12, <2>1, WriteLabels DEF LeadsTo, Joined, EndsRequest
    <2>3. ws = "live"
      BY <1>0, <2>1 DEF ContractAt, LiveStill, NeedsLive
    <2>4. CASE SoftDelete(r)
      <3>1. ws' = "deleted" /\ maxMembers' = maxMembers /\ Cardinality(Members) <= 1
        BY <1>0, <2>4 DEF SoftDelete, Row, ContractAt, LookedUp
      <3>2. Contract!Close
        <4>1. Roles' = Roles /\ Offers' = Offers /\ Room' = Room
          BY <2>1, <2>2, SameRoles, SameOffers DEF Room
        <4>2. Cardinality(Contract!In) <= 1
          BY <1>1, <3>1
        <4> QED
          BY <2>3, <3>1, <4>1, <4>2, IsClose
      <3> QED
        BY <3>2 DEF Contract!CNext
    <2>5. CASE PlanWrite(r)
      <3>1. ws' = ws /\ maxMembers' = q.max /\ q.max \in PlanLimits
        BY <1>0, <2>5 DEF PlanWrite, Row, ContractAt, Arguments
      <3>2. Contract!ChangePlan(q.max)
        BY <2>1, <2>2, <2>3, <3>1 DEF Contract!ChangePlan, Active
      <3> QED
        BY <3>1, <3>2 DEF Contract!CNext
    <2> QED
      BY <1>12, <2>4, <2>5
  <1>13. ~HardDelete(r)
    BY <1>0 DEF HardDelete, Row, ContractAt, Arguments
  <1> QED
    BY <1>3, <1>4, <1>5, <1>6, <1>7, <1>8, <1>9, <1>10, <1>11, <1>12, <1>13
    DEF Writes, EndsRequest

\* Where requests come one at a time, are not cut off and do not purge the
\* workspace, their many statements amount to the indivisible operations of
\* MembershipContract: every step is one of these or changes nothing the contract
\* sees.
THEOREM HandlersKeepTheContract ==
  ASSUME \E one : Req = {one}, ~CanFail, "purge" \notin Enabled
  PROVE  Spec => KeepsContract
  <1>1. ASSUME TypeOK, TypeOK', SerialInv, SeatsInv, ContractInv, [Next]_vars
        PROVE  [Contract!CNext]_(Contract!cvars)
    <2>1. PICK r : Req = {r}
      OBVIOUS
    <2>2. ASSUME UNCHANGED <<ws, maxMembers, member, general, req>>,
                 \A u \in User : /\ invite'[u].status = invite[u].status
                                 /\ invite'[u].role = invite[u].role
          PROVE  UNCHANGED Contract!cvars
      BY <2>2, Unseen DEF Admitting, Departing
    <2>3. ASSUME NEW u \in User, Expire(u) PROVE UNCHANGED Contract!cvars
      BY <1>1, <2>2, <2>3 DEF Expire, TypeOK, InviteRow
    <2>4. CASE UNCHANGED vars
      BY <2>2, <2>4 DEF vars
    <2> QED
      BY <1>1, <2>1, <2>3, <2>4, CallUnseen, QuietUnseen, WriteSeen, StepWrites DEF Next
  <1>2. TypeOK /\ TypeOK' /\ SerialInv /\ SeatsInv /\ ContractInv /\ [Next]_vars
          => [Contract!CNext]_(Contract!cvars)
    BY <1>1
  <1>3. TypeOK /\ SerialInv /\ [Next]_vars => SerialInv'
    BY SerialNext
  <1>4. TypeOK /\ SeatsInv /\ [Next]_vars => SeatsInv'
    BY SeatsNext
  <1>5. TypeOK /\ SerialInv /\ ContractInv /\ [Next]_vars => ContractInv'
    BY ContractNext
  <1> QED
    BY <1>2, <1>3, <1>4, <1>5, SerialInit, SeatsInit, ContractStart, ContractInit,
       TypeCorrect, PTL DEF Spec, KeepsContract, Contract!CSpec

-----------------------------------------------------------------------------
(* Requests run out                                                        *)

\* How many statements are ahead of a request at most, its batch of addresses
\* aside: one look-up and two statements (the write and the e-mail) for each.
Ahead(label) ==
    CASE label = "idle" -> 0
      [] label \in {"invite_mail", "resend_mail", "revoke_write", "decline_write",
                    "accept_close", "update_write", "channels", "delete_write",
                    "plan_write", "purge_write"} -> 1
      [] label \in {"invite_write", "resend_write", "revoke_find", "accept_join",
                    "update_target", "deactivate", "delete_count"} -> 2
      [] label \in {"invite_count_members", "invite_count_invites", "resend_self",
                    "accept_general", "update_self", "remove_target", "leave_count",
                    "delete_find"} -> 3
      [] label \in {"invite_count", "resend_workspace", "accept_update",
                    "accept_create", "leave_member"} -> 4
      [] label \in {"invite_lookup", "resend_find", "accept_member"} -> 5
      [] label \in {"invite_self", "accept_workspace"} -> 6
      [] OTHER -> 7

Left(q) == Ahead(q.pc) + Cardinality(q.unread) + 2 * Cardinality(q.todo)

\* The e-mail that is about to be sent is of an address still to be done.
MailIsOfBatch == \A r \in Req : req[r].pc = "invite_mail" => req[r].who \in req[r].todo

LEMMA AheadNat == \A label \in Label : Ahead(label) \in 0..7
  BY DEF Ahead, Label

LEMMA Batch ==
  ASSUME NEW q \in Request
  PROVE  /\ IsFiniteSet(q.unread) /\ Cardinality(q.unread) \in Nat
         /\ IsFiniteSet(q.todo) /\ Cardinality(q.todo) \in Nat
         /\ Ahead(q.pc) \in Nat /\ Left(q) \in Nat
  <1>1. q.unread \subseteq User /\ q.todo \subseteq User /\ q.pc \in Label
    BY DEF Request
  <1>2. IsFiniteSet(q.unread) /\ IsFiniteSet(q.todo)
    BY <1>1, UserAssumption, FS_Subset
  <1>3. Cardinality(q.unread) \in Nat /\ Cardinality(q.todo) \in Nat
    BY <1>2, FS_CardinalityType
  <1>4. Ahead(q.pc) \in 0..7
    BY <1>1, AheadNat
  <1> QED
    BY <1>2, <1>3, <1>4 DEF Left

\* A later statement and no more addresses.
LEMMA Onward ==
  ASSUME NEW p \in Request, NEW q \in Request,
         q.unread \subseteq p.unread, q.todo \subseteq p.todo,
         Ahead(q.pc) < Ahead(p.pc)
  PROVE  Left(q) < Left(p)
  <1>1. /\ Cardinality(q.unread) <= Cardinality(p.unread)
        /\ Cardinality(q.todo) <= Cardinality(p.todo)
    BY Batch, FS_Subset
  <1> QED
    BY <1>1, Batch DEF Left

\* A request that ends has nothing left.
LEMMA Ends ==
  ASSUME NEW p \in Request, p.pc # "idle"
  PROVE  Left(Blank) < Left(p)
  <1>1. Ahead(p.pc) > 0 /\ Ahead("idle") = 0
    BY DEF Ahead, Request, Label
  <1>2. Blank.unread = {} /\ Blank.todo = {} /\ Blank.pc = "idle"
    BY DEF Blank
  <1> QED
    BY <1>1, <1>2, BlankType, Onward

\* One that goes on to a later statement, with the same batch, has less.
LEMMA Goes ==
  ASSUME TypeOK, NEW r \in Req, NEW label \in Label, Ahead(label) < Ahead(req[r].pc)
  PROVE  Left(Goto(r, label)) < Left(req[r])
  <1>1. /\ Goto(r, label) \in Request /\ req[r] \in Request
        /\ Goto(r, label).unread = req[r].unread /\ Goto(r, label).todo = req[r].todo
        /\ Goto(r, label).pc = label
    BY GotoType DEF TypeOK, Goto, Request
  <1> QED
    BY <1>1, Onward

\* A step of r leaves it less.
Falls(r) == Left(req'[r]) < Left(req[r])

LEMMA ReadFalls ==
  ASSUME TypeOK, NEW r \in Req, NEW label, NEW ok \in BOOLEAN, NEW next,
         Read(r, label, ok, next), label # "idle",
         ok => Left(next) < Left(req[r])
  PROVE  Falls(r)
  <1>1. req[r] \in Request /\ req[r].pc # "idle"
    BY DEF TypeOK
  <1>2. req'[r] = IF ok THEN next ELSE Blank
    BY DEF TypeOK
  <1> QED
    BY <1>1, <1>2, Ends DEF Falls

LEMMA WriteFalls ==
  ASSUME TypeOK, NEW r \in Req, NEW next, req[r].pc # "idle",
         req' = [req EXCEPT ![r] = next],
         next = Blank \/ Left(next) < Left(req[r])
  PROVE  Falls(r)
  <1>1. req[r] \in Request /\ req'[r] = next
    BY DEF TypeOK
  <1> QED
    BY <1>1, Ends DEF Falls

\* A read, and what it goes to with other fields than the batch.
LEMMA NextFalls ==
  ASSUME TypeOK, NEW r \in Req, NEW label, NEW ok \in BOOLEAN, NEW next \in Request,
         Read(r, label, ok, next), label # "idle",
         next.unread = req[r].unread, next.todo = req[r].todo,
         Ahead(next.pc) < Ahead(label)
  PROVE  Falls(r)
  <1>1. req[r] \in Request
    BY DEF TypeOK
  <1>2. Left(next) < Left(req[r])
    BY <1>1, Onward
  <1> QED
    BY <1>2, ReadFalls

LEMMA GoFalls ==
  ASSUME TypeOK, NEW r \in Req, NEW label, NEW ok \in BOOLEAN, NEW next \in Label,
         Read(r, label, ok, Goto(r, next)), label # "idle",
         Ahead(next) < Ahead(label)
  PROVE  Falls(r)
  <1> DEFINE after == IF ok THEN Goto(r, next) ELSE Blank
  <1>1. after = Blank \/ Left(after) < Left(req[r])
    BY Goes
  <1>2. req[r].pc # "idle" /\ req' = [req EXCEPT ![r] = after]
    OBVIOUS
  <1> HIDE DEF after
  <1> QED
    BY <1>1, <1>2, WriteFalls

\* A write, and where the handler goes from there.
LEMMA RowFalls ==
  ASSUME TypeOK, NEW r \in Req, NEW label, NEW next,
         Row(r, label, next), label # "idle",
         next = Blank \/ \E to \in Label : next = Goto(r, to) /\ Ahead(to) < Ahead(label)
  PROVE  Falls(r)
  <1>1. next = Blank \/ Left(next) < Left(req[r])
    BY Goes
  <1> QED
    BY <1>1, WriteFalls

LEMMA ThrowFalls ==
  ASSUME TypeOK, NEW r \in Req, NEW label, NEW refused,
         Throws(r, label, refused), label # "idle"
  PROVE  Falls(r)
  BY WriteFalls

LEMMA InviteFalls ==
  ASSUME TypeOK, MailIsOfBatch, NEW r \in Req, InviteStep(r)
  PROVE  Falls(r)
  <1> DEFINE q == req[r]
  <1>0. q \in Request /\ q.pc \in Label
    BY DEF TypeOK, Request
  <1>1. CASE InviteFindWorkspace(r)
    <2>1. [Goto(r, "invite_self") EXCEPT !.max = maxMembers] \in Request
      BY <1>0 DEF Goto, Request, TypeOK, Label
    <2>2. /\ [Goto(r, "invite_self") EXCEPT !.max = maxMembers].unread = q.unread
          /\ [Goto(r, "invite_self") EXCEPT !.max = maxMembers].todo = q.todo
          /\ [Goto(r, "invite_self") EXCEPT !.max = maxMembers].pc = "invite_self"
      BY <1>0 DEF Goto, Request
    <2>3. Ahead("invite_self") < Ahead("invite_workspace")
      BY DEF Ahead
    <2> QED
      BY <1>1, <2>1, <2>2, <2>3, NextFalls DEF InviteFindWorkspace
  <1>2. CASE InviteFindSelf(r)
    <2>1. Ahead("invite_lookup") < Ahead("invite_self") /\ "invite_lookup" \in Label
      BY DEF Ahead, Label
    <2>2. Active(q.by) \in BOOLEAN
      BY DEF Active
    <2> QED
      BY <1>2, <2>1, <2>2, GoFalls DEF InviteFindSelf
  <1>3. CASE InviteLookup(r)
    <2>1. PICK u \in q.unread :
            Read(r, "invite_lookup", TRUE,
                 [q EXCEPT !.pc = IF q.unread \ {u} = {} THEN "invite_count" ELSE @,
                           !.unread = q.unread \ {u},
                           !.known = @ \cup ({u} \cap InvitedAddresses),
                           !.pend = @ \cup ({u} \cap PendingInvites)])
      BY <1>3 DEF InviteLookup
    <2> DEFINE n == [q EXCEPT !.pc = IF q.unread \ {u} = {} THEN "invite_count" ELSE @,
                              !.unread = q.unread \ {u},
                              !.known = @ \cup ({u} \cap InvitedAddresses),
                              !.pend = @ \cup ({u} \cap PendingInvites)]
    <2>2. q.pc = "invite_lookup"
      BY <2>1
    <2>3. /\ n.unread = q.unread \ {u} /\ n.todo = q.todo
          /\ n.pc \in {"invite_count", "invite_lookup"}
      BY <1>0, <2>2 DEF Request
    <2>4. Cardinality(n.unread) = Cardinality(q.unread) - 1
      BY <1>0, <2>1, <2>3, Batch, FS_RemoveElement
    <2>5. Ahead(n.pc) <= Ahead(q.pc) /\ Ahead(n.pc) \in Nat
      BY <2>2, <2>3 DEF Ahead
    <2>6. Left(n) < Left(q)
      <3> HIDE DEF n
      <3> QED
        BY <1>0, <2>3, <2>4, <2>5, Batch DEF Left
    <2> QED
      BY <2>1, <2>6, ReadFalls
  <1>4. ASSUME NEW count \in Nat, NEW mine \in Label,
               NEW other \in {"invite_count_members", "invite_count_invites"},
               mine \in {"invite_count_members", "invite_count_invites"},
               Count(r, mine, other, count)
        PROVE  Falls(r)
    <2>1. /\ Ahead(other) < Ahead("invite_count")
          /\ Ahead("invite_write") < Ahead(mine)
          /\ other \in Label /\ "invite_write" \in Label
      BY <1>4 DEF Ahead, Label
    <2>2. CASE Read(r, "invite_count", TRUE, [Goto(r, other) EXCEPT !.n = count])
      <3> DEFINE n == [Goto(r, other) EXCEPT !.n = count]
      <3>1. n \in Request
        BY <1>0, <1>4, <2>1 DEF Goto, Request
      <3>2. n.unread = q.unread /\ n.todo = q.todo /\ n.pc = other
        BY <1>0 DEF Goto, Request
      <3> QED
        BY <2>1, <2>2, <3>1, <3>2, NextFalls
    <2>3. CASE Read(r, mine, WithinLimit(r, count),
                    [Goto(r, "invite_write") EXCEPT !.n = 0, !.max = 0, !.pend = {}])
      <3> DEFINE n == [Goto(r, "invite_write") EXCEPT !.n = 0, !.max = 0, !.pend = {}]
      <3>1. n \in Request
        BY <1>0, <2>1 DEF Goto, Request
      <3>2. n.unread = q.unread /\ n.todo = q.todo /\ n.pc = "invite_write"
        BY <1>0 DEF Goto, Request
      <3>3. WithinLimit(r, count) \in BOOLEAN
        BY DEF WithinLimit
      <3>4. mine # "idle"
        BY <1>4
      <3> QED
        BY <2>1, <2>3, <3>1, <3>2, <3>3, <3>4, NextFalls
    <2> QED
      BY <1>4, <2>2, <2>3 DEF Count
  <1>5. CASE InviteCountMembers(r) \/ InviteCountInvites(r)
    <2>1. Cardinality(Members) \in Nat /\ Cardinality(PendingInvites) \in Nat
      BY UserAssumption, FS_Subset, FS_CardinalityType DEF Members, PendingInvites
    <2>2. "invite_count_members" \in Label /\ "invite_count_invites" \in Label
      BY DEF Label
    <2> QED
      BY <1>4, <1>5, <2>1, <2>2 DEF InviteCountMembers, InviteCountInvites
  <1>6. CASE InviteWrite(r)
    <2>1. PICK u \in q.todo :
            Row(r, "invite_write",
                [Goto(r, "invite_mail") EXCEPT !.who = u, !.token = invite[u].token + 1])
      BY <1>6 DEF InviteWrite
    <2> DEFINE n == [Goto(r, "invite_mail") EXCEPT !.who = u,
                                                   !.token = invite[u].token + 1]
    <2>2. n.unread = q.unread /\ n.todo = q.todo /\ n.pc = "invite_mail"
      BY <1>0 DEF Goto, Request
    <2>3. Ahead("invite_mail") = 1 /\ Ahead("invite_write") = 2
      BY DEF Ahead
    <2>4. q.pc = "invite_write" /\ req' = [req EXCEPT ![r] = n]
      BY <2>1
    <2>5. Left(n) < Left(q)
      <3> HIDE DEF n
      <3> QED
        BY <1>0, <2>2, <2>3, <2>4, Batch DEF Left
    <2>6. q.pc # "idle"
      BY <2>4
    <2> HIDE DEF n
    <2> QED
      BY <2>4, <2>5, <2>6, WriteFalls
  <1>7. CASE InviteWriteFails(r)
    BY <1>7, ThrowFalls DEF InviteWriteFails
  <1>8. CASE InviteMail(r)
    <2> DEFINE rest == q.todo \ {q.who}
               n == [q EXCEPT !.pc = "invite_write", !.todo = rest,
                              !.who = Creator, !.token = 0]
    <2>1. q.pc = "invite_mail" /\ req' = [req EXCEPT ![r] = IF rest = {} THEN Blank ELSE n]
      BY <1>8 DEF InviteMail
    <2>2. q.who \in q.todo
      BY <2>1 DEF MailIsOfBatch
    <2>3. n.unread = q.unread /\ n.todo = rest /\ n.pc = "invite_write"
      BY <1>0 DEF Request
    <2>4. Cardinality(rest) = Cardinality(q.todo) - 1
      BY <1>0, <2>2, Batch, FS_RemoveElement
    <2>5. Ahead("invite_mail") = 1 /\ Ahead("invite_write") = 2
      BY DEF Ahead
    <2>6. Left(n) < Left(q)
      <3> HIDE DEF n, rest
      <3> QED
        BY <1>0, <2>1, <2>3, <2>4, <2>5, Batch DEF Left
    <2>7. q.pc # "idle"
      BY <2>1
    <2> HIDE DEF n, rest
    <2> QED
      BY <2>1, <2>6, <2>7, WriteFalls
  <1> QED
    BY <1>1, <1>2, <1>3, <1>5, <1>6, <1>7, <1>8 DEF InviteStep

\* Writes and e-mails that end the request.
Last(r) ==
    \/ ResendMail(r) \/ RevokeWrite(r) \/ DeclineWrite(r) \/ AcceptCloseInvite(r)
    \/ UpdateWrite(r) \/ RemoveFromChannels(r) \/ SoftDelete(r) \/ PlanWrite(r)
    \/ HardDelete(r)

LEMMA LastFalls ==
  ASSUME TypeOK, NEW r \in Req, Last(r)
  PROVE  Falls(r)
  <1>1. req[r].pc # "idle" /\ req' = [req EXCEPT ![r] = Blank]
    BY DEF Last, ResendMail, RevokeWrite, DeclineWrite, AcceptCloseInvite, CloseInvite,
           UpdateWrite, RemoveFromChannels, SoftDelete, PlanWrite, HardDelete
  <1> QED
    BY <1>1, WriteFalls

LEMMA RefusalFalls ==
  ASSUME TypeOK, NEW r \in Req,
         InviteWriteFails(r) \/ AcceptCreateMemberFails(r) \/ AcceptJoinGeneralFails(r)
           \/ RowIsGone(r)
  PROVE  Falls(r)
  <1>1. req[r].pc # "idle" /\ req' = [req EXCEPT ![r] = Blank]
    BY DEF InviteWriteFails, AcceptCreateMemberFails, AcceptJoinGeneralFails, RowIsGone
  <1> QED
    BY <1>1, WriteFalls

\* Writes after which the handler goes on.
LEMMA MiddleFalls ==
  ASSUME TypeOK, NEW r \in Req,
         ResendWrite(r) \/ AcceptUpdateMember(r) \/ AcceptCreateMember(r)
           \/ AcceptJoinGeneral(r) \/ Deactivate(r)
  PROVE  Falls(r)
  <1>1. /\ {"resend_mail", "accept_general", "accept_close", "channels"} \subseteq Label
        /\ Ahead("resend_mail") < Ahead("resend_write")
        /\ Ahead("accept_general") < Ahead("accept_update")
        /\ Ahead("accept_general") < Ahead("accept_create")
        /\ Ahead("accept_close") < Ahead("accept_join")
        /\ Ahead("channels") < Ahead("deactivate")
    BY DEF Label, Ahead
  <1>2. /\ req[r].pc # "idle"
        /\ \E to \in Label : /\ req' = [req EXCEPT ![r] = Goto(r, to)]
                             /\ Ahead(to) < Ahead(req[r].pc)
    BY <1>1 DEF ResendWrite, AcceptUpdateMember, AcceptCreateMember, Activate,
                AcceptJoinGeneral, Deactivate
  <1> QED
    BY <1>2, Goes, WriteFalls

LEMMA AcceptFalls ==
  ASSUME TypeOK, NEW r \in Req, AcceptStep(r)
  PROVE  Falls(r)
  <1>1. CASE AcceptFindWorkspace(r)
    <2>1. "accept_member" \in Label /\ Ahead("accept_member") < Ahead("accept_workspace")
      BY DEF Ahead, Label
    <2> QED
      BY <1>1, <2>1, GoFalls DEF AcceptFindWorkspace
  <1>2. CASE AcceptFindMember(r)
    <2>1. "accept_create" \in Label /\ Ahead("accept_create") < Ahead("accept_member")
      BY DEF Ahead, Label
    <2>2. "accept_update" \in Label /\ Ahead("accept_update") < Ahead("accept_member")
      BY DEF Ahead, Label
    <2> QED
      BY <1>2, <2>1, <2>2, GoFalls DEF AcceptFindMember, Active
  <1>3. CASE AcceptFindGeneral(r)
    <2>1. "accept_close" \in Label /\ Ahead("accept_close") < Ahead("accept_general")
      BY DEF Ahead, Label
    <2>2. "accept_join" \in Label /\ Ahead("accept_join") < Ahead("accept_general")
      BY DEF Ahead, Label
    <2> QED
      BY <1>3, <2>1, <2>2, GoFalls DEF AcceptFindGeneral
  <1>4. CASE AcceptUpdateMember(r) \/ AcceptCreateMember(r) \/ AcceptJoinGeneral(r)
    BY <1>4, MiddleFalls
  <1>5. CASE AcceptCreateMemberFails(r) \/ AcceptJoinGeneralFails(r)
    BY <1>5, RefusalFalls
  <1>6. CASE AcceptCloseInvite(r)
    BY <1>6, LastFalls DEF Last
  <1> QED
    BY <1>1, <1>2, <1>3, <1>4, <1>5, <1>6 DEF AcceptStep

LEMMA MemberFalls ==
  ASSUME TypeOK, NEW r \in Req, MemberStep(r) \/ WorkspaceStep(r)
  PROVE  Falls(r)
  <1>1. CASE UpdateFindTarget(r)
    <2>1. "update_write" \in Label /\ Ahead("update_write") < Ahead("update_target")
      BY DEF Ahead, Label
    <2> QED
      BY <1>1, <2>1, GoFalls DEF UpdateFindTarget, Active
  <1>2. CASE RemoveFindTarget(r)
    <2>1. "deactivate" \in Label /\ Ahead("deactivate") < Ahead("remove_target")
      BY DEF Ahead, Label
    <2> QED
      BY <1>2, <2>1, GoFalls DEF RemoveFindTarget, Active
  <1>3. CASE LeaveFindMember(r)
    <2>1. "leave_count" \in Label /\ Ahead("leave_count") < Ahead("leave_member")
      BY DEF Ahead, Label
    <2>2. "deactivate" \in Label /\ Ahead("deactivate") < Ahead("leave_member")
      BY DEF Ahead, Label
    <2> QED
      BY <1>3, <2>1, <2>2, GoFalls DEF LeaveFindMember, Active
  <1>4. CASE LeaveCountOwners(r)
    <2>1. "deactivate" \in Label /\ Ahead("deactivate") < Ahead("leave_count")
      BY DEF Ahead, Label
    <2> QED
      BY <1>4, <2>1, GoFalls DEF LeaveCountOwners
  <1>5. CASE DeleteFindWorkspace(r)
    <2>1. "delete_count" \in Label /\ Ahead("delete_count") < Ahead("delete_find")
      BY DEF Ahead, Label
    <2> QED
      BY <1>5, <2>1, GoFalls DEF DeleteFindWorkspace
  <1>6. CASE DeleteCountMembers(r)
    <2>1. "delete_write" \in Label /\ Ahead("delete_write") < Ahead("delete_count")
      BY DEF Ahead, Label
    <2> QED
      BY <1>6, <2>1, GoFalls DEF DeleteCountMembers
  <1>7. CASE Deactivate(r)
    BY <1>7, MiddleFalls
  <1>8. CASE UpdateWrite(r) \/ RemoveFromChannels(r) \/ SoftDelete(r) \/ PlanWrite(r)
             \/ HardDelete(r)
    BY <1>8, LastFalls DEF Last
  <1>9. CASE UpdateFindSelf(r)
    <2> DEFINE n == [Goto(r, "update_target") EXCEPT !.seen = member[req[r].by].role]
    <2>0. member[req[r].by].role \in Role
      BY DEF TypeOK, Request, MemberRow
    <2>1. n \in Request
      <3>1. Goto(r, "update_target") \in Request
        BY GotoType DEF Label
      <3> QED
        BY <2>0, <3>1 DEF Request
    <2>2. n.unread = req[r].unread /\ n.todo = req[r].todo /\ n.pc = "update_target"
      BY DEF TypeOK, Goto, Request
    <2>3. Ahead("update_target") < Ahead("update_self")
      BY DEF Ahead
    <2>4. Active(req[r].by) \in BOOLEAN
      BY DEF Active
    <2> QED
      BY <1>9, <2>1, <2>2, <2>3, <2>4, NextFalls DEF UpdateFindSelf
  <1> QED
    BY <1>1, <1>2, <1>3, <1>4, <1>5, <1>6, <1>7, <1>8, <1>9 DEF MemberStep, WorkspaceStep

LEMMA ResendFalls ==
  ASSUME TypeOK, NEW r \in Req, ResendStep(r) \/ RevokeFindInvite(r)
  PROVE  Falls(r)
  <1>1. CASE ResendFindWorkspace(r)
    <2>1. "resend_self" \in Label /\ Ahead("resend_self") < Ahead("resend_workspace")
      BY DEF Ahead, Label
    <2> QED
      BY <1>1, <2>1, GoFalls DEF ResendFindWorkspace
  <1>2. CASE ResendFindSelf(r)
    <2>1. "resend_write" \in Label /\ Ahead("resend_write") < Ahead("resend_self")
      BY DEF Ahead, Label
    <2> QED
      BY <1>2, <2>1, GoFalls DEF ResendFindSelf, Active
  <1>3. CASE RevokeFindInvite(r)
    <2>1. "revoke_write" \in Label /\ Ahead("revoke_write") < Ahead("revoke_find")
      BY DEF Ahead, Label
    <2> QED
      BY <1>3, <2>1, GoFalls DEF RevokeFindInvite, Pending
  <1>4. CASE ResendWrite(r)
    BY <1>4, MiddleFalls
  <1>5. CASE ResendMail(r)
    BY <1>5, LastFalls DEF Last
  <1>6. CASE ResendFindInvite(r)
    <2> DEFINE n == [Goto(r, "resend_workspace") EXCEPT !.token = invite[req[r].who].token]
    <2>0. invite[req[r].who].token \in 0..MaxToken
      BY DEF TypeOK, Request, InviteRow
    <2>1. n \in Request
      <3>1. Goto(r, "resend_workspace") \in Request
        BY GotoType DEF Label
      <3> QED
        BY <2>0, <3>1 DEF Request
    <2>2. n.unread = req[r].unread /\ n.todo = req[r].todo /\ n.pc = "resend_workspace"
      BY DEF TypeOK, Goto, Request
    <2>3. Ahead("resend_workspace") < Ahead("resend_find")
      BY DEF Ahead
    <2>4. Pending(r) \in BOOLEAN
      BY DEF Pending
    <2> QED
      BY <1>6, <2>1, <2>2, <2>3, <2>4, NextFalls DEF ResendFindInvite
  <1> QED
    BY <1>1, <1>2, <1>3, <1>4, <1>5, <1>6 DEF ResendStep

LEMMA MailsInit == Init => MailIsOfBatch
  BY DEF Init, MailIsOfBatch, Blank

LEMMA MailsNext == TypeOK /\ MailIsOfBatch /\ [Next]_vars => MailIsOfBatch'
  <1> SUFFICES ASSUME TypeOK, MailIsOfBatch, [Next]_vars PROVE MailIsOfBatch'
    OBVIOUS
  <1>0. req \in [Req -> Request] /\ Blank.pc # "invite_mail"
    BY DEF TypeOK, Blank
  <1>1. ASSUME NEW r \in Req, NEW q, req' = [req EXCEPT ![r] = q],
               q.pc = "invite_mail" => q.who \in q.todo
        PROVE  MailIsOfBatch'
    BY <1>0, <1>1 DEF MailIsOfBatch
  <1>2. ASSUME NEW r \in Req, Call(r) PROVE MailIsOfBatch'
    <2>1. PICK q \in Request : Starts(r, q)
      BY <1>2, CallShape
    <2> QED
      BY <2>1, <1>1 DEF Starts
  <1>3. ASSUME NEW r \in Req, Continue(r) \/ Fail(r) PROVE MailIsOfBatch'
    <2>1. CASE Quietly(r)
      <3>1. req' = [req EXCEPT ![r] = req'[r]] /\ req'[r].pc # "invite_mail"
        BY <2>1, <1>0, QuietShape DEF Proceeds
      <3> QED
        BY <3>1, <1>1
    <2>2. CASE InviteWrite(r)
      <3>1. PICK u \in req[r].todo :
              Row(r, "invite_write",
                  [Goto(r, "invite_mail") EXCEPT !.who = u, !.token = invite[u].token + 1])
        BY <2>2 DEF InviteWrite
      <3>2. /\ req'[r].who = u /\ req'[r].todo = req[r].todo
            /\ req' = [req EXCEPT ![r] = req'[r]]
        BY <3>1, <1>0 DEF Goto, Request
      <3> QED
        BY <3>1, <3>2, <1>1
    <2>3. CASE InviteMail(r)
      <3>1. /\ req'[r].pc # "invite_mail"
            /\ req' = [req EXCEPT ![r] = req'[r]]
        BY <2>3, <1>0 DEF InviteMail, Request
      <3> QED
        BY <3>1, <1>1
    <2>4. CASE Last(r)
      <3>1. req' = [req EXCEPT ![r] = Blank]
        BY <2>4 DEF Last, ResendMail, RevokeWrite, DeclineWrite, AcceptCloseInvite,
                    CloseInvite, UpdateWrite, RemoveFromChannels, SoftDelete, PlanWrite,
                    HardDelete
      <3> QED
        BY <3>1, <1>0, <1>1
    <2>5. CASE ResendWrite(r) \/ AcceptUpdateMember(r) \/ AcceptCreateMember(r)
                 \/ AcceptJoinGeneral(r) \/ Deactivate(r)
      <3>1. PICK label \in {"resend_mail", "accept_general", "accept_close", "channels"} :
              req' = [req EXCEPT ![r] = Goto(r, label)]
        BY <2>5 DEF ResendWrite, AcceptUpdateMember, AcceptCreateMember, Activate,
                    AcceptJoinGeneral, Deactivate
      <3>2. Goto(r, label).pc = label
        BY <1>0 DEF Goto, Request
      <3> QED
        BY <3>1, <3>2, <1>1
    <2> QED
      BY <1>3, <2>1, <2>2, <2>3, <2>4, <2>5, StepKinds DEF Last
  <1>4. CASE UNCHANGED req
    BY <1>4 DEF MailIsOfBatch
  <1> QED
    BY <1>2, <1>3, <1>4 DEF Next, Expire, vars

\* Every statement of a handler leaves it with less to do, and nothing else that
\* happens gives a request under way more: no handler runs for ever, also with
\* batches of any length and whatever the other requests do meanwhile.
EveryStepLeavesLess ==
    [][\A r \in Req :
         /\ Left(req[r]) \in Nat
         /\ Continue(r) => Left(req'[r]) < Left(req[r])
         /\ req[r].pc # "idle" => Left(req'[r]) <= Left(req[r])]_vars

LEMMA ContinueFalls ==
  ASSUME TypeOK, MailIsOfBatch, NEW r \in Req, Continue(r)
  PROVE  Falls(r)
  <1>1. CASE RevokeWrite(r) \/ DeclineWrite(r)
    BY <1>1, LastFalls DEF Last
  <1>2. CASE RowIsGone(r)
    BY <1>2, RefusalFalls
  <1> QED
    BY <1>1, <1>2, InviteFalls, ResendFalls, AcceptFalls, MemberFalls DEF Continue

LEMMA LeftNext ==
  ASSUME TypeOK, MailIsOfBatch, [Next]_vars, NEW r \in Req
  PROVE  /\ Left(req[r]) \in Nat
         /\ Continue(r) => Falls(r)
         /\ req[r].pc # "idle" => Left(req'[r]) <= Left(req[r])
  <1>0. req[r] \in Request /\ req'[r] \in Request
    BY NextType DEF TypeOK
  <1>1. Left(req[r]) \in Nat /\ Left(req'[r]) \in Nat
    BY <1>0, Batch
  <1>2. req'[r] = req[r] => Left(req'[r]) <= Left(req[r])
    BY <1>1
  <1>3. Falls(r) => Left(req'[r]) <= Left(req[r])
    BY <1>1 DEF Falls
  <1>4. ASSUME NEW s \in Req, Call(s), req[r].pc # "idle"
        PROVE  req'[r] = req[r]
    <2>1. PICK q \in Request : Starts(s, q)
      BY <1>4, CallShape
    <2>2. req[s].pc = "idle"
      BY <1>4 DEF Call, InviteArrive, ResendArrive, RevokeArrive, OnInvite, AcceptArrive,
                  DeclineArrive, UpdateArrive, RemoveArrive, LeaveArrive, DeleteArrive,
                  PlanArrive, PurgeArrive
    <2> QED
      BY <2>1, <2>2, <1>4 DEF Starts, TypeOK
  <1>5. ASSUME NEW s \in Req, s # r, Continue(s) \/ Fail(s)
        PROVE  req'[r] = req[r]
    <2>1. \E q : req' = [req EXCEPT ![s] = q]
      <3>1. CASE Quietly(s)
        BY <3>1, QuietShape
      <3>2. CASE ~Quietly(s)
        BY <3>2, <1>5, StepKinds
        DEF InviteWrite, InviteMail, ResendWrite, ResendMail, RevokeWrite, DeclineWrite,
            AcceptCloseInvite, CloseInvite, AcceptUpdateMember, AcceptCreateMember, Activate,
            AcceptJoinGeneral, UpdateWrite, Deactivate, RemoveFromChannels, SoftDelete,
            PlanWrite, HardDelete
      <3> QED
        BY <3>1, <3>2
    <2> QED
      BY <2>1, <1>5 DEF TypeOK
  <1>6. Fail(r) => Falls(r)
    BY WriteFalls DEF Fail
  <1>7. Continue(r) => Falls(r)
    BY ContinueFalls
  <1>8. CASE UNCHANGED req
    BY <1>8, <1>1, <1>2, <1>7
  <1>9. req[r].pc # "idle" => req'[r] = req[r] \/ Falls(r)
    BY <1>4, <1>5, <1>6, <1>7, <1>8 DEF Next, Expire, vars
  <1> QED
    BY <1>1, <1>2, <1>3, <1>7, <1>9

\* No handler runs for ever: each of its statements brings it nearer to its end, for
\* batches of any length, and the other requests cannot set it back.  (That a
\* statement is answered at all is the fairness of FairSpec.)
THEOREM HandlersRunOut == Spec => EveryStepLeavesLess
  <1>1. TypeOK /\ MailIsOfBatch /\ [Next]_vars =>
          [\A r \in Req :
             /\ Left(req[r]) \in Nat
             /\ Continue(r) => Left(req'[r]) < Left(req[r])
             /\ req[r].pc # "idle" => Left(req'[r]) <= Left(req[r])]_vars
    BY LeftNext DEF Falls
  <1>2. Spec => []MailIsOfBatch
    BY MailsInit, MailsNext, TypeCorrect, PTL DEF Spec
  <1> QED
    BY <1>1, <1>2, TypeCorrect, PTL DEF Spec, EveryStepLeavesLess

=============================================================================
