# Verification of teamflow-backend

TLA+ modules, TLC configurations and TLAPS proofs for the backend in `src/`: a
NestJS service over Postgres (Prisma), Redis and socket.io, in which people
register, form workspaces, invite each other, talk in channels and pin messages.
Paths below are relative to `src/src/modules/` unless they start with `src/`.

## 1. The system

Every HTTP handler and socket handler is an `async` function. Node runs them
interleaved, in several processes if deployed so, and every `await` is a point
where others run. Each repository method is one Prisma call, that is one
autocommitted statement; only `createWorkspaceSetup` and
`createWorkspaceOnboarding` run in a transaction. Between the statements of one
handler nothing is locked, and nothing is rolled back when a later statement
throws or the process stops. What protects the data is the order of the
statements, the checks made on rows read earlier, and the unique keys of
`src/prisma/schema.prisma` (WorkspaceMember by workspace and user, WorkspaceInvite
by workspace and e-mail, Channel by workspace and name, ChannelMember by channel
and user, ChannelMessagePin by message, User by e-mail, username and phone,
Session by token hash).

| Component | State | Operations | What makes it hard |
|---|---|---|---|
| Workspace membership (`workspaces/mobile`) | Workspace, WorkspaceMember, WorkspaceInvite rows; #general's ChannelMember rows | create, onboard, invite, resend, revoke, accept, decline, update member, remove, leave, delete | checks and writes are separate statements; acceptInvite is four writes that may be cut anywhere |
| Workspace administration (`workspaces/admin`) | plan, limit, flags, existence | plan, verify, suspend, activate, hard delete | the limit moves under running invites; the hard delete cascades under running handlers |
| Channels (`channels/mobile`) | Channel, ChannelMember | create, update, archive, archive for me, delete, join, leave, add, role, remove, mark read | races with leaving the workspace; names reserved by deleted channels; toggles that read and write |
| Messages and pins (`messages/mobile`) | Message, ChannelMessagePin, lastReadAt | create, update, delete, pin, unpin | pin against delete; events emitted after the write, in another order than the writes |
| Realtime gateway (`messages/messages.gateway.ts`) | rooms of sockets, typing timers | connect, disconnect, join, leave, typing start and stop, emits | access is checked when a room is entered and at typing; timers against stops and disconnects |
| Sessions and passwords (`auth`) | Session, PasswordReset, User | login, refresh, logout, forgot, reset, change, revoke | refresh against revocation; a reset token read before it is used |
| Two-factor authentication | User flags, backup codes, Redis challenges | enable, confirm, disable, verify, regenerate | codes read before they are marked used; delete and create of codes as two statements |
| Rate limiting | Redis counters with expiry | assertAllowed | INCR and EXPIRE are two commands |
| Accounts, OAuth, user administration | User, OAuthAccount, Redis states | register, verify, OAuth login, suspend, delete | look-ups before unique inserts; state read and deleted in two commands |
| Uploads, e-mail, configuration, filters, DTOs | none | | pure I/O, not modelled |

Channels read the membership rows of workspaces; messages read both; the gateway
is called by the message service after its writes; a removal from a workspace
deletes the person's channel rows but does not touch the rooms of their sockets.
E-mails are sent by handlers between their statements.

The correctness properties that matter, by component: memberships, invites and
#general agree and the limit and ownership rules hold (workspaces); channel rows
belong to active members, names are unique and private channels are entered by
invitation (channels); pins point to live messages and every client ends with the
stored state (messages); typing timers are neither lost nor doubled, and typing
ends (gateway); a sign-in has one live session and a new password leaves no
session of the old one (sessions); a backup code works once and the second factor
goes only with the password (two factor); no window admits more than its limit and
no key blocks for ever (rate limits); addresses, names and linked identities belong
to one account and verification is earned (accounts).

`PROJECT.json` lists the hazards, each at its line, with the properties that
would catch it.

## 2. How the project is laid out

| Component | Modules | Runs | Section |
|---|---|---|---|
| Workspaces | `Workspaces`, `MembershipContract`, `WorkspacesProofs`, `MCWorkspaces` | `ws_serial`, `ws_founder_only_owner`, `ws_contract`, `ws_last_owners_leave` | 3 |
| Channels | `Channels`, `RosterContract`, `ChannelNames`, `ChannelsProofs`, `MCChannels` | `ch_serial`, `ch_members` | 4 |
| Messages and pins | `Messages`, `FeedContract`, `MessagesProofs`, `MCMessages` | `messages` | 5 |
| Realtime gateway | `Gateway`, `GatewayProofs`, `MCGateway` | `gateway` | 6 |
| Sessions, second factor | `Sessions`, `SignInContract`, `TwoFactor`, `FactorContract`, their `...Proofs` and `MC...` | `sessions`, `two_factor` | 7 |
| Rate limits, accounts | `RateLimit`, `Accounts`, `DirectoryContract`, their `...Proofs` and `MC...` | `rate_limit`, `accounts` | 8 |

Conventions that all modules share:

- One action is one database statement (or one Redis command, e-mail, call of a
  provider, or event), together with everything the handler computes until its next
  `await`. `req[r]` is a request under way: `pc` names its next statement, the other
  fields are its arguments and what it has read, possibly long ago.
- A look-up that fails its check, or a write that throws (a unique key, Prisma's
  update or delete by an id that is gone), ends the request at once: nothing is
  rolled back.
- In `Messages`, `Gateway`, `Sessions`, `TwoFactor`, `RateLimit` and `Accounts` the
  variable `mix` is chosen at the start and never changes: it says which operations
  come in this behaviour, whether requests overlap and whether they may be cut off
  by a crash at any statement. One run then covers single requests, cut-off requests
  and several kinds of overlap, and a property says for which of them it holds.
  `Workspaces` and `Channels` have the constants `Req`, `Enabled` and `CanFail` for it.
- Properties that a request alone must guarantee are stated of requests that do not
  overlap (`~mix.overlap`) where the code does not guarantee
  them otherwise. Section 9 tells what overlapping requests do instead.
- A `...Contract` module is an abstract specification: it knows what people are
  promised, has every operation as one indivisible step, and no statements or rows.
  The module that implements it ends with the mapping (`Contract == INSTANCE ... WITH`)
  and `KeepsContract`: of requests that neither overlap nor are cut off, every step is an
  operation of the contract or changes nothing that it sees. Which statement is the
  operation is the choice of the mapping, and is told with each component.
- Each module ends its helpers with a section of mutants: operators with a bug that
  a change of the code could bring in. No action uses them; each run finds its
  property violated when one is put in the place of the definition it mutates.
- Ids are drawn fresh: a number is used once, or a row takes an id that nobody
  remembers, which is what a uuid promises.

The components share few rows. Channels read the membership of a workspace and
Messages that of a channel; each module has those rows as variables of its own and
lets them change at any time in which requests may overlap, by steps (`Activate`,
`Deactivate`, `ChangeChannel`, `ChangeMember`, `ChangePeople`, `ChangeMembership`)
that stand for the handlers of the other module, whose effects on these rows they
include. `Messages` and `Gateway` share `message.created`: `SendMessage` of Gateway
is the `emitTypingStop` that a created message causes.

## 3. Workspaces

### The model

`Workspaces.tla` models one workspace. `member`, `invite`, `general`, `ws` and
`maxMembers` are its rows; `req[r]` is a request: the label `pc` names the next
statement of its handler, the other fields are its arguments and the values it
has read, which may be out of date when it uses them. There is one action per
database statement (or e-mail):

| Handler | Actions |
|---|---|
| `inviteMembers` | `InviteArrive`, `InviteFindWorkspace`, `InviteFindSelf`, `InviteLookup` (per address), `InviteCountMembers` and `InviteCountInvites` (in either order), then `InviteWrite`/`InviteWriteFails` and `InviteMail` per address |
| `resendInvite`, `revokeInvite` | `Resend...`, `Revoke...` |
| `acceptInvite` | `AcceptArrive`, `AcceptFindWorkspace`, `AcceptFindMember`, `AcceptUpdateMember` or `AcceptCreateMember`(`Fails`), `AcceptFindGeneral`, `AcceptJoinGeneral`(`Fails`), `AcceptCloseInvite` |
| `declineInvite` | `DeclineArrive`, `DeclineWrite` |
| `updateMember` | `UpdateArrive`, `UpdateFindSelf`, `UpdateFindTarget`, `UpdateWrite` |
| `removeMember`, `leaveWorkspace` | `Remove...`, `Leave...`, then `Deactivate`, `RemoveFromChannels` |
| `deleteWorkspace` | `DeleteArrive`, `DeleteFindWorkspace`, `DeleteCountMembers`, `SoftDelete` |
| `updatePlan`, admin `deleteWorkspace` | `Plan...`, `PurgeArrive`, `HardDelete` |

The first read of a handler that only guards it is part of its `...Arrive`. `Fail`
ends a request at any point and stands for a thrown error or a stopped process;
`RowIsGone` is the error of an update by id after a purge; `Expire` is the
passing of an invite's three days. `createWorkspaceSetup` and
`createWorkspaceOnboarding` are the initial states: they run in one transaction, and
the onboarding e-mails that follow may have been sent to any part of the addresses.
Tokens are counted, so that a renewed token differs from an old one; `mailed` says
whether the present token has reached its address, because only then can it be
presented. Left out: names, texts and dates; `updateWorkspace` and
`updateOwnMembership`, which write fields no rule reads; reads that only build a
response; accounts are not deleted.

`MembershipContract.tla` is the abstract specification: roles, offers, #general and
the limit, with every operation indivisible. `Contract` in `Workspaces` maps to it:
an admission is counted from the moment its member row is written, a departure
from the moment its member row is inactive.

### The runs

Bounds: `User` two or three accounts with "o" the founder, `MaxToken` two tokens
per address (an invite and one renewal), limits of one to three seats, which are
reached. They are enough for each race because a race needs two requests and at
most two accounts besides the founder. `CHECK_DEADLOCK FALSE` is set because a
workspace that is full, deleted or out of tokens really stops.

| Run | Question | States |
|---|---|---|
| `ws_serial` | one request at a time that may die anywhere, with the plan raised and lowered: some owner, seats, admission by open invites, closed invites | 2.4 M |
| `ws_founder_only_owner` | two overlapping requests that may die, with the purge: whoever accepted or is in #general has a member row (`Inv`), the founder as only owner | 0.75 M |
| `ws_contract` | no overlap, no failure, fair handlers: implements `MembershipContract`, roles change from above, new members reach #general, requests end | 57 k |

Fairness (`FairSpec`): weak fairness of the next step of each request. Node runs
every continuation whose statement was answered, and a statement of the database
that is enabled stays enabled until it is done. Nothing is assumed about
arrivals, failures or time; the liveness run has no failures, because a request
that dies does not finish.

`ws_last_owners_leave` expects a violation of `SomeOwner`: two owners who leave at
the same time both count two owners, and the workspace is left without one, against
the sentences of the API description and of the error message that the finding in
`PROJECT.json` quotes.

### The proofs

`WorkspacesProofs.tla`, for any set of accounts (finite), any set of requests and
any choice of roles, limits and enabled operations, from the assumptions
`UserAssumption`, `InputAssumption` and `LimitAssumption`:

- `AdmittedAreMembers`: `Inv`, that is the types and that whoever accepted an invite
  or is in #general has a member row. The types are inductive as they stand (lemma
  `TypeCorrect`, from one lemma per handler); the rest is not, because the last steps
  of `acceptInvite` count on a member row written earlier. `MembershipInv` adds that a
  request past its admission has that row (`AdmittedHaveRow`), which holds because only
  the purge, which also takes invites and #general, deletes rows.
- `OnlyInvitesMakeOwners`. `OwnerInv` adds that the role OWNER is nowhere in the
  invites nor in any request but one in `updateMember` that is about to be refused.
- `FounderIsKept`. `FounderInv` adds that no request that is about to write a member
  row has the founder for its target. It cites `OwnerInv`: where nobody else can
  become owner the founder is counted as the only one and cannot leave
  (`FounderAlone`).

`QuietShape` and `CallShape` say once what the reads and arrivals do, so that each
invariant is proved from them and from one step per write.

The other theorems are about one request at a time, `\E one : Req = {one}`, and but
for the last it may be cut off at any statement:

- `AnOwnerRemains`, `OpenInvitesAdmit`, `ClosedInvitesStayClosed` and
  `HigherRanksChangeRoles` rest on `SerialInv`, which says what a request still knows
  when it writes: the invite it found open is open and offers the role it read
  (`FoundOpen`, `MayJoin`), whoever it is about to deactivate leaves another owner
  behind (`OwnerRemains`), and the roles `updateMember` compared are the present ones
  (`Outranks`). This is what overlapping requests destroy, and why these properties
  are not theorems about those.
- `SeatsFit` rests on `SeatsInv`: the addresses still to be invited fit beside the
  members and the open invites, counted in sets, because an address that is invited
  again takes no second seat.
- `HandlersKeepTheContract` is the refinement, `Spec => KeepsContract`, for requests
  that are not cut off and no purge. `ContractInv` adds what the contract asks of an
  operation at its only visible write: the workspace is still live (`LiveStill`), the
  arguments are those the routes accept (`Arguments`), what was looked up is so
  (`LookedUp`). `QuietUnseen` and `CallUnseen` show that reads and arrivals are
  stutters, `WriteSeen` maps every write to a step of the contract or a stutter.

Liveness (`MembersReachGeneral`, `RequestsEnd`) is model-checked only. Of `RequestsEnd` the
half that is not about fairness is proved as well, for requests that overlap and for batches
of any length: `HandlersRunOut` says that every statement of a handler lowers `Left`, a
natural number made of the statements ahead of it and of the addresses that are still to be
looked up and to be invited, and that nothing else raises it while the request is under way.
It needs one invariant, that the e-mail about to be sent is of an address still to be done
(`MailIsOfBatch`). What remains to fairness is that the next statement is answered.

## 4. Channels

### The model

`Channels.tla` models the channels of one workspace: `active` (the active members,
which `Workspaces` models in detail), `channel` and `row` (the Channel and
ChannelMember rows) and `req`, the requests. A handler is again one action per
statement; `req[r].op` says which handler it is, because handlers share their
look-ups:

| Handler | Steps after arrival |
|---|---|
| `createChannel` | `FindName`, `InsertChannel`, `InsertCreator` |
| `updateChannel` with a name | `FindChannel`, `FindName`, `Rename` |
| `deleteChannel`, `toggleArchive` | `FindChannel`, `SoftDelete` or `ToggleArchive` |
| `joinChannel` | `FindChannel`, `FindRow`, `Enter` |
| `addMember` | `FindChannel`, `FindPerson`, `FindRow`, `Enter` |
| `leaveChannel`, `removeMember` | (`ChannelMemberGuard`), `FindChannel`, `FindRow`, `Exit` |
| `updateMemberRole`, `toggleArchivedForMe` | (`ChannelMemberGuard`), `FindChannel`, `FindRow`, `SetRole` or `ToggleMute` |
| `acceptInvite` (its part here) | `Activate`, `FindRow`, `Enter` in #general |
| `removeMember`, `leaveWorkspace` | `Deactivate`, `RemoveAll` |

`Refused` is the statement that meets a unique key or a row that is gone, `Fail` a
thrown error or a stopped process. `ChannelAllows` gathers the checks of all
handlers on the channel they have read. Row ids matter: the code deletes and
updates by the id it found, so a row that was deleted and created again is another
row; a new row takes an id that no request remembers, which is all that a uuid
promises here. `Staff` are the accounts that are owner or administrator; changes
of workspace roles are `Workspaces`' subject. Left out: `markRead`
and `isReadOnly` (they are in `Messages`), and `description` and `topic`, which no
rule reads.

`ChannelNames.tla` is `normalizeChannelName`, replacement by replacement and with the
error that it throws for a name of which nothing is left (`Invalid`), against `Slug`, what
a reader expects of a channel name.

`MCChannels` puts the two side by side: in the behaviours with the empty name the
channels run, in each of the others one name is normalised, so that one run checks
both. `MaxLength` is 5 in `ch_serial` and 0, no names, in `ch_members`.

`RosterContract.tla` is what the channels of a workspace promise: who comes into the
workspace is in #general, who goes is out of every channel, a new channel has its
creator in it and nobody else, and everything else happens to a channel that allows it
at that very moment; a toggle turns what is stored. A request counts with its first
write, so two writes are as one: in the mapping a channel has its creator as soon as it
is inserted (`Opening`), a new member is in #general as soon as the membership is
written (`Welcoming`), and who has been deactivated is out of every channel although the
rows are still there (`Leaving`). Of management and moderation the contract demands that
staff is there, not which account acts: `Channels` does not record that either.

### The runs

| Run | Question | States |
|---|---|---|
| `ch_serial` | every operation, no overlap, no failure: channel rows follow the workspace, #general is not renamed, archived, deleted or made private (`GeneralStays`), the handlers keep `RosterContract` (`KeepsContract`); all names of up to five characters are refused or normalised | 1.7 M |
| `ch_members` | two overlapping requests that may die, all operations but archiving, muting and roles: rows have their types and names are unique although look-ups and writes overlap (`Inv`), private channels, late requests | 2.2 M |

`ch_members` has creations, renames and deletions at the same time: two requests that
look one name up before either writes it, and a name that only a deleted channel has, which
the look-up does not see and the unique index does. Of `GeneralStays` the run checks
sequences of single requests; that overlap does not help either is proved
(`GeneralIsKept`).

Bounds: two accounts, #general and two channels, one or two requests. Nothing is
counted, so no other bound is needed: channel ids are used once, and row ids are
reused when nobody remembers them. Requests, row ids and the channels beside #general
are symmetric. Five
characters are enough for two separators around a dropped character between two
letters, the longest pattern the replacements can tell apart.

### The proofs

`ChannelsProofs.tla` proves, for any sets and from `ChannelsAssumption` alone,
`TypeCorrect`, `GeneralIsKept`, `NamesStayUnique` (with `TypeCorrect`: `InvStays`),
`PrivateIsByInvitation` and `MembershipsEndAsFound`. The inductive invariant is `ChannelsInv`: types, #general,
`IdsDrawnOnce`, and `Consistent` for every request. `Consistent` says which
operations can be at which statement and what they know of their channel; it is
needed because checks and writes are separate: a join about to insert its row
counts on the channel being public although it looked two statements earlier,
which is right because no handler changes the type of a channel. `SameChannels`
and `ChannelWrite` reduce each step to a statement about one request. The two
action properties follow through `RowChanges`, which lists the steps that change a
row.

`FollowTheWorkspace` proves `ChannelsFollowWorkspace` of one request at a time that is
not cut off (`\E one : Req = {one}`, `~CanFail`); of others it is false. `FollowInv`
names the two exceptions while a request is under way: the account it is admitting
may not be in #general yet, the account it has deactivated may still be in channels.

`ChannelsKeepTheContract` proves `Spec => KeepsContract` under the same assumptions, which
it needs: two overlapping requests can archive a channel between the check of a join and
its row. `ReadyInv` adds what such a request was told and is still so when it writes:
`ChannelAllows` of its channel, the flag it is about to turn, the row it found, that
staff is there, and that nobody is in a channel that does not exist yet. With one
request the tables of the contract are functions of its record and the rows (`View`,
`ViewNext`). There is one lemma per kind of step: an arrival is `Ask`, a look-up
is `Refuse` or changes nothing, and each write is the operation of its name, or the
second of two writes and changes nothing. `OneRow` and `OneChannel` say once what a
write to a row or a channel does to the tables.

## 5. Messages

### The model

`Messages.tla` models one channel. Messages are numbered in the order of their
creation and the number is also the time of creation, so `lastReadAt` is a number
and the unread count is a cardinality. `message`, `pin`, `row` and `channel` are the
rows; `view` is what the room has been told last of every message, and `meta` what
each member has been told of the channel. One `view` stands for all clients that have
been in the room: socket.io sends them the same events in the same order.

| Handler | Steps after arrival |
|---|---|
| `createMessage` | `FindChannel`, `FindMember`, `InsertMessage`, `Mark`, `Emit`, then the members |
| `updateMessage` | `FindChannel`, `FindMember`, `FindMessage`, `Update`, `Emit`, then the members |
| `deleteMessage` | `FindChannel`, `FindMember`, `FindMessage`, `UnpinAll`, `SoftDelete`, `Emit`, then the members |
| `pinMessage`, `unpinMessage` | `FindChannel`, `FindMember`, `FindManager`, `FindMessage`, `CreatePin` or `DeletePin`, `FindAgain`, `Emit` |
| `markRead` | `FindChannel`, `FindMember`, `Mark`, then the one member |
| `listMessages`, `listPinnedMessages` | `FindChannel`, `FindMember`, `List` |
| `emitChannelMetaUpdatedForChannelMembers` ("the members") | `FindMembers`, and for every member at the same time `FindMeta`, `CountUnread`, `EmitMeta`; `Answer` |

`ChangeChannel` and `ChangeMember` are what the Channels module does meanwhile.
`alone` is history: no other request came and nothing else changed since this one
came. Texts and attachments are abstracted to the number of edits of a message.

`FeedContract.tla` is what a client that follows the channel is promised: messages
appear in order, are changed and removed by their sender and pinned by a manager, who
are in the channel at that moment, and what is removed is not pinned and does not come
back. The feed is `view`, what the events have told, so an operation counts when its
event is emitted, after all its statements; `asking` is whose request is under way, and
every change of the feed is one that this person may make. Between the checks and
the event lie up to five statements.

### The run

`messages` (3.3 M states): two accounts, two messages, one edit each, two requests,
and eight mixes: two of single requests, one of requests that are cut off, five of
overlapping ones. Two messages are needed for a message that is not the last, for an
unread count that differs from "none" and "all", and for one message to be deleted
while another stays; two requests for every race between two handlers. Deadlock is
not checked: a channel whose messages are used up or that is deleted stops.

- `Inv`: types; without overlap only live messages are pinned, also when
  `deleteMessage` stops between its two statements (`PinsAreLive`); and between complete
  requests the room knows every message as it is stored (`RoomSeesTheMessages`), which is
  the convergence of clients.
- `LoneRequestsTellAll`: whatever overlapping requests left behind, also when they were
  cut off, a request that runs alone leaves every member with the true unread count and
  last message.
- `ReadMarksGoForward`: sending a message never unreads what was read. The time that
  `createMessage` writes is that of its message, the one that `markRead` writes was taken
  when it had found the membership (`FindMember`): both lie before the write (`Mark`).
- `KeepsContract`: single requests implement `FeedContract`.

### The proofs

`MessagesProofs.tla` proves all four, for any accounts, messages, edits and requests.
The inductive invariant `MessagesInv` adds that messages are numbered without a gap
(`Dense`), that nobody has read beyond the last (`Marked`), what is known at each
statement (`RequestOK`, `SerialAt`), which message is about to be told (`Room`,
`Pending`), and for a request alone how far the news of every member has come
(`AloneAt`: still to be looked up, looked up with the stored state, or told). `StepInv`
reduces every step of a request to facts about its next record; the lemmas after it
are one per action.

For the contract `FeedInv` adds what a request may still do when it reaches a statement,
long after it was checked: that its person is in the open channel, sent the
message, or manages the channel, and that what it is about to tell is the stored message.
Every action is then one of three: it is hidden from the feed (`IsHidden`), it belongs to
the surroundings (`IsSurroundings`), or it is an operation, told with its event
(`IsOperation`).

## 6. Realtime gateway

### The model

`Gateway.tla` models `MessagesGateway` in one channel of one workspace: sockets with
their authentication and rooms, `typingTimeouts` (`typing`), the timers (`running`),
and what each client shows as typing (`shown`). Events of one socket are handled at
the same time, as NestJS does; a handler stops at each look-up, and what follows the
last look-up is one step.

| Code | Actions |
|---|---|
| `handleConnection`, `handleDisconnect` | `Connect`, `Authenticate`, `Disconnect` |
| `workspace.join`, `workspace.leave` | `Receive`, `FindWorkspaceMember`, `Enter` or `Leave` |
| `channel.join`, `channel.leave` | `Receive`, `FindChannel`, `FindMember`, `Enter` or `Leave` |
| `typing.start`, `typing.stop` | `Receive`, `FindChannel`, `FindMember`, `StartTyping` or `StopTyping` |
| the callback of `setTimeout` | `Fire` |
| `emitTypingStop` | `SendMessage` |

### The run and the proofs

`gateway` (0.6 M states, deadlock checked): an account with two clients and one that
watches, two events at a time, two timers (each account has one at most, which is what
`Inv` says, so two are enough), six mixes of events.

- `Inv`: the entries of the map are exactly the timers that run, so none is left to end
  a later typing early, and whoever another client shows as typing has a timer. The
  exception is in the code: `handleDisconnect` clears timers without telling the room
  (`cut`).
- `TypingEnds`: somebody who does not start typing over and over is shown as typing to
  nobody again and again, with the same exception. `FairSpec` assumes weak fairness of
  every timer, which the event loop of Node fires, and of every handler, whose look-ups
  return.

`GatewayProofs.tla` proves `Inv` for any sockets, accounts and timers. The inductive
invariant `GatewayInv` adds that a client shows nobody of a room it is not in
(`OutsideShowsNothing`): one that comes back starts empty. `TypingEnds` is
liveness and model-checked only.

## 7. Sessions and the second factor

### Sessions

`Sessions.tla` models session and reset rows of accounts. A session row stands for its
refresh token; an access token is accepted as long as it lasts, whatever became of the
row, which is why arrivals ask only that a session was once issued.

| Handler | Steps after arrival |
|---|---|
| `login` | `FindAccount`, `FindLatest`, `FindMember`, `Issue` |
| `refresh` | `FindSession`, `Revoke`, (`FindLatest`), `FindMember`, `Issue` |
| `logout`, `revokeSession` | `FindSession`, `Revoke` |
| `revokeOtherSessions` | `RevokeOthers` |
| `forgotPassword` | `FindAccount`, `RequestReset` |
| `resetPassword` | `FindReset`, `SetPassword`, `MarkUsed`, `RevokeAll` |
| `changePassword` | `FindAccount`, `SetPassword`, `RevokeAll` |
| `selectWorkspace` | `FindSession`, `FindMember`, `Select` |
| `activateUser`, `deactivateUser`, `softDeleteUser` | `FindUser`, `SetFlags` |

`ExpireSession`, `ExpireReset` and `ChangeMembership` are time and the other modules.
`origin` and `with` are history: the sign-in a session descends from, and the password
given there. Second factors are `TwoFactor`'s subject: the accounts here have none.

`SignInContract.tla` knows sign-ins instead of tokens. A sign-in is in force until its own
account ends it or gets a new password; its time may run out, and a link sets one
password. The mapping chooses when an operation counts:

- A sign-in bears the name of its first session. It is in force while a session of it is
  live, and also while a refresh is between the revocation of one session and the insertion
  of the next (`InExchange`), so that a refresh is no step of the contract.
- A new password counts when it is written. From then on the request only carries out what
  it entails: the sessions of its account are over for the contract (`Ending`) though
  `RevokeAll` is still to come, and the link is spent (`Holding`) before `MarkUsed`.
- A request that has found its session or its link in time may finish when the time runs out
  meanwhile: the sign-in lapses, and the link is spent, with the next request (`overdue`,
  `links`).
- A refused request and one that finds nothing left to end are `Refuse`.

`sessions` (1.7 M states) has two accounts, two passwords, one workspace, three sessions
and one reset; seven mixes, three of single requests, two of requests that are cut off and
two of overlapping ones. Three sessions are two sign-ins and a refresh, or a chain of two
refreshes; a second reset adds nothing, because a used row is never open again.

- `Inv`: types, and without overlapping refreshes an exchanged refresh token is dead, also
  when the exchange was cut off (`OneLivePerSignIn`).
- `SessionsKnowThePassword`: between complete requests every live session descends from
  a sign-in with the present password.
- `EndedByTheirOwner`: in every interleaving, a session is ended by its own account only,
  and never comes back.
- `KeepsContract`: single requests implement `SignInContract`.

`SessionsProofs.tla` proves all four, for any accounts, passwords, workspaces,
sessions and requests. `EndsItsOwn` says that a request about to revoke a session has
found it to be its account's. `SerialInv` is for requests that do not overlap: a sign-in
has one live session or is at its exchange (`Origins`, `SingleOrigin`, `Exchanged`), a
request about to issue has checked the present password (`Knows`), and between requests
sessions and passwords agree (`Agree`).

For the contract, `SignInInv` adds three things. `Kin`: a session has the account of its
sign-in, whose first session bears its own name; without it, ending the sessions of an
account need not be ending its sign-ins. `Fits`: which operations come past a statement,
and that the session, link or sign-in a request names exists and is its account's.
`Ready`: what the look-ups found (usable account, right password, open link) still holds
at the write. `Sight` says what the contract sees as a function of the one request under
way, `Onlooker` also when there is none, and one lemma per action (`IsAsk` to `IsPassing`)
names the operation that it is. That a refresh neither loses nor revives a sign-in needs
`SingleOrigin` and `Exchanged`: revoking the presented session removes the last live
session of the sign-in, and only that.

### The second factor

`TwoFactor.tla` models the `twoFactor...` columns of one account, its backup code rows
and their copy in Redis. Secrets and sets of codes are numbered; `right` says whether the
password given was right.

| Handler | Steps after arrival |
|---|---|
| `enable` | `FindUser`, `WriteSecret` |
| `confirm` | `FindUser`, `DeleteCodes`, `CreateCodes`, `CacheCodes`, `TurnOn` |
| `disable` | `FindUser`, `TurnOff`, `DeleteCodes`, `ClearCache` |
| `regenerateBackupCodes` | `FindUser`, `DeleteCodes`, `CreateCodes`, `CacheCodes` |
| `getBackupCodes` | `FindUser`, `Show` |
| `login` | `FindUser`, `GiveChallenge` or `SignIn` |
| `verify` | `FindUser`, (`FindCode`, `MarkCode`), `SignIn` |

`FactorContract.tla` has the operations set up, confirm, regenerate, disable and open by a
backup code, each indivisible and using up what was given for it. A replacement of the codes
counts when the old ones are deleted, a disable when the account is written, the use of
a backup code when it is marked; the statements after these carry it out, and for the
contract the codes that are still to be stored are valid, those still to be deleted are not.

The copy in Redis is kept for the default time only (`RedisService.set` always passes EX,
and `cacheBackupCodes` gives no other): `ExpireCache` takes it at any moment, `Show` then
throws, and in the contract it is `Forget`. The stored codes stay valid.

`two_factor` (1.1 M states): two secrets, two sets of two codes, so that a code can be
of an old set and one code spent while another is not; mixes of complete, cut-off and
overlapping requests.

- `Inv`: without overlap, cut off or not, an account that asks for a factor has a secret
  and the stored codes are of one set (`SecretOfEnabled`); after complete requests there
  are codes exactly when the factor is on, and what Redis still shows are the stored ones
  (`CodesAreThoseShown`).
- `BackupCodesOpenOnce`: a code that led to a session is never unused again, whatever
  overlaps; without overlap it leads to one session.
- `SecondFactorStays`: without overlap only a disable with the password takes the
  secret or the switch of an enabled factor.
- `KeepsContract`: single requests implement `FactorContract`.

`TwoFactorProofs.tla` proves all four for any number of secrets, sets, codes and requests.
`TwoFactorInv` adds that sets are drawn once (`NewSetsAreFresh`), that a code is marked
before it opens a session (`CodesAreMarkedFirst`), and for requests that do not overlap
what each statement still knows of the user it read (`OneByOne`, `SerialSteps`);
`ShownInv` adds what Redis holds at each statement, for `CodesAreThoseShown`; and
`ContractInv` what was given for an operation and still entitles the request to it
(`Backed`). Every action is then hidden, refused, or an operation with its credential.

## 8. Rate limits and accounts

### Rate limits

`RateLimit.tla` models `AuthRateLimitGuard`, `AuthRateLimitService` and
`RedisService.increment`: the buckets of a request, `Incr`, `FindTtl`, `Expire`, `Admit`
and `Refuse`. Time passes in half seconds (`Tick`), because Redis rounds the answer to
TTL to the nearest second, and the code takes an answer of zero for "not limited".

`rate_limit` (0.18 M states) has the policies `login`, with three buckets (public, address,
address and value), and `refresh`, with two; limits of one and two, windows of one and two
seconds, and `MaxCount` three: counts above it are not told apart, and it is larger than
every limit, so that "over the limit" is never confused.

- `Inv`: every counter without an expiry belongs to a request that is about to set one,
  unless the process stopped there. No interleaving of INCR, TTL and EXPIRE leaves a key
  that blocks for ever.
- `OverLimitOnlyAtEnd`: without overlap, more than the limit pass only in the last half
  second of a window, where the wait is rounded to zero. This is as much as the code
  guarantees, and it holds across crashes between INCR and EXPIRE too.
- `RetryAfterSuffices`: the wait covers all buckets that refused.
- `WindowsEnd`: every window ends, also while refused requests keep coming. `FairSpec`
  assumes that time passes and that a request whose answer is there goes on.

`RateLimitProofs.tla` proves the first three of `Spec`, which `FairSpec` implies, for any
policies, limits and windows. `RateLimitInv` adds what each bucket that has been counted has
contributed: without overlap the present request is the only one that can raise
`admitted`, and every bucket that exceeded its limit has raised `retry` to its wait.
`WindowsEnd` is liveness and model-checked only.

### Accounts

`Accounts.tla` models how accounts are made and verified: `register` (`FindEmail`,
`FindName`, `Insert`, `SendMail`), `verifyEmail` (`FindToken`, `Verify`),
`resendVerification` (`FindEmail`, `Renew`, `SendMail`), the authorisation URLs
(`CreateState`) and the OAuth callbacks (`FindState`, `Consume`, `AskProvider`, `FindLink`,
then `Relink` and `Refresh`, or `FindEmail` and `Attach`, or `FindEmail`, `FindName`,
`Insert` and `Attach`; `SignIn`), and of `updateProfile` the telephone number (`FindUser`,
`WritePhone`), which like an address belongs to one account but is written, here and by
`register`, without a look-up: only its unique index refuses it (`PhoneTaken`). `Administer`
is the suspension, activation and deletion
of users; `ExpireToken` and `ExpireState` are time. The provider and what it answers are
external: an address or none, verified or not. `Insists` are the providers that are refused
without an address (GitHub); with the others (Google) a callback goes on to the link and
needs the address only where there is none. A user name is a base and a suffix, and people
may ask for names with a suffix too, so a registered name can be one that the search
of `ensureUniqueUsername` would try.

`DirectoryContract.tla` is what the whole promises, with every operation indivisible and
without hashes of tokens or statements: accounts with their address, name and verification,
the account of every provider's subject, the letters that were sent and the one that is
still good for an account, and the OAuth states. Administrators, and the time that ends a
letter or a state, come in at any moment (`Outside`). In the mapping a request counts from
the statement that decides it, and what it will still write counts as written:

- A registration counts with `Insert`, a resend when it has found the account: the letter
  that is still to be stored or mailed is sent already (`letters`, `keys`).
- `verifyEmail` counts when the token is found: the account is verified and the letter spent
  (`Verifying`, `keys`), though `Verify` is still to come.
- A callback counts when the link is found, when the account with the address of the profile
  is found, or when a new account is inserted; the subject belongs to it (`subjects`) before
  `Attach`. Until then its state, which it has consumed, is held for it (`doors`); if it fails
  at the provider the state is lost.
- `updateProfile` counts with `WritePhone`.
- What is asked and undecided is `asked`. It leaves out what the provider will tell, which
  the contract learns with the decision.

`accounts` (2.8 M states): two addresses whose profiles suggest the same name, names with
no suffix or the first, one telephone number, two
providers of which one is configured, one subject, three accounts, three tokens, two
states. An account needs an address, so the third never comes to be: it is there because an
insertion is also tried, and refused, when both addresses are taken, by deleted accounts for
instance. One number is enough to be taken, given up and taken by another. Two callbacks that
overlap are enough for a search that passes over two names.
Eight mixes: letters and callbacks, singly, with expiry and deletions, with suspensions, or
cut off; registrations and changes of numbers, singly or beside cut-off callbacks; and
overlapping requests, about numbers, about letters, and about callbacks with registrations.

- `Inv`: no two accounts, deleted ones included, share an address, a name or a number, a link
  belongs to an account that exists, and without overlap a state serves one callback.
- `SearchesAreShort`: the loop of `ensureUniqueUsername`, which has no bound of its own, has
  passed over no more names than there are accounts, also when the names it would try next
  are inserted between its look-ups.
- `VerificationIsEarned`: an account becomes verified by a token that was mailed to its
  own address, or because the provider has said, of the address that it tells for the
  account's own subject, that it is verified. When the account is created that is its own
  address; at a later sign-in it is whatever address the provider's account has by then,
  because the code does not compare the two. A callback that is told less verifies nothing,
  except that an overlapping one may put back what it had read; and without overlap nothing
  takes a verification away.
- `KeepsContract`: single requests implement `DirectoryContract`, also when an administrator
  or the time comes between their statements. In particular a new subject gets the account
  of its address or a new one under the first name that is free, a letter is good only while
  it is the last, and nobody is refused without a reason: an address, a name or a number
  that another account has.

`AccountsProofs.tla` proves all four, for any accounts, addresses, names, providers and
requests. `AccountsInv` adds that tokens are handed out in order
and were mailed to the account that has them (`TokensInOrder`), that two e-mails under way
carry different tokens (`MailsDiffer`), what each request has found (`RequestOK`), and
without overlap that a consumed state is gone (`Serial`).
`SearchesAreShort` rests on `PassedOver`, that every suffix a search has passed over is the
name of an account, which stays so because accounts keep their names (`NamesStay`), and on
counting: different suffixes are the names of different accounts (`FewSuffixes`).

For the contract `DirectoryInv` adds two things. `FreshKnown`: an account that is not there
has no token that is still good, so a new account may send its first letter. `Fits` says what
the one request that is being served has established and is still so at its next statement:
which operations come past it, that a callback's state is used up and its subject belongs to
nobody yet, that every suffix it has passed over is the name of an account (deleted ones keep
theirs), and that a resend has a letter left. Administrators and expiry may change the very
account that was found; they cannot undo any of these. The lemmas then go statement by
statement: a look-up that decides is its operation, one that does not is a stutter, and so is
every write that only carries out what was decided (`Pondering`, `Giving`, `Deciding`,
`SigningIn`, `Adding`, `Finishing`); `DirectoryNext` puts them together.

## 9. Overlapping requests

The code holds no locks, so the checks of a handler can be out of date when it writes.
What that lets overlapping requests do, beyond the finding of section 3 (the slugs and
`verifyWorkspace` are read off the code, the rest is behaviour of the models). The rules
that the code states in its checks and error messages are about the state a request reads,
and each of these requests kept to them when it read:

- Workspaces. Two `inviteMembers` fit separately and exceed the limit together, as does a
  plan lowered in between (`mobile-workspaces.service.ts:266`); `acceptInvite` overwrites a
  revocation with ACCEPTED (`:564`); somebody is admitted between the count and the write
  of `deleteWorkspace` (`:207`). An administrator, who may not leave, may remove themselves.
  `generateUniqueSlug` (`:898`) can offer two creations one slug: the second fails as a whole.
- Administration. `verifyWorkspace` and the archive switches (`mobile-channels.service.ts:238`)
  write the negation of what they read: of two overlapping toggles one is lost. `activateUser`
  of a user who is deleted meanwhile leaves one that is both active and deleted.
- Channels. A person is added to, or joins, a channel after the removal from the workspace took
  their rows, or after the channel was archived (`mobile-channels.service.ts:395`). If the
  process stops between the insertion of a channel and of its creator's row (`:66`), a
  channel without members remains, and its name stays taken.
- Messages. A message is pinned between the two statements of its deletion, and the pin
  remains (`mobile-messages.service.ts:212`, `:308`); an edit by id reaches a deleted
  message, and its event follows that of the deletion; an edit's event precedes
  `message.created` (`:180`); `lastReadAt` of a slow `createMessage` moves behind a later
  `markRead` (`:98`). The next request about the channel that runs alone corrects the counts
  (`LoneRequestsTellAll`).
- Gateway. Somebody removed from a channel stays in its room, and `channel.leave` then refuses
  them, because it checks the membership (`messages.gateway.ts:146`).
- Sessions. Two refreshes with one token both succeed (`auth.service.ts:229`); a sign-in or
  refresh that overlaps a change of password leaves a session of the old one (`:378`); a reset
  token read twice before it is marked sets two passwords, the later one staying (`:357`).
- Second factor. Two verifications that overlap open two sessions with one backup code (`:172`
  of `auth-two-factor.service.ts`); two regenerations leave two sets of codes; a `confirm` that
  overlaps a `disable` switches the factor on without a secret, and one that overlaps an
  `enable` confirms a secret that nobody checked. A crash after the deletion of the codes
  leaves an account without them, and Redis shows the old ones until its copy expires.
- Rate limits. Two requests may each set the expiry of a counter, which prolongs a window by
  the time between the two commands.
- Accounts. Two callbacks go on with one OAuth state (`auth.service.ts:915`);
  `isEmailVerified` is written back as read with the link, so that a verification in between is
  undone (`:950`).

## 10. What is proved, what is checked, what is not modelled

Proved by TLAPS for every value of the constants, from the `...Assumption` of each module
(which TLC evaluates on every run), are the theorems listed in `PROJECT.json`. All follow
one argument: an inductive invariant that adds to the property what a request at each of its
statements knows of the rows, one lemma per action, and a last step in temporal logic.

Six components have an abstract specification, and that the handlers implement it is
proved as well (`HandlersKeepTheContract`, `ChannelsKeepTheContract`, `FeedKeepsTheContract`,
`SignInsKeepTheContract`, `FactorKeepsTheContract`, `DirectoryIsKept`): the initial states
map to initial states, and every step to an operation or a stutter, from an inductive
invariant that says what is still true at a write of what was checked before it.

Model-checked only: the liveness properties (`RequestsEnd`, `MembersReachGeneral`,
`TypingEnds`, `WindowsEnd`), because fairness and ENABLED are out of the prover's reach
(that the handlers of `Workspaces` and the search for a user name cannot go on for ever is
proved, `HandlersRunOut` and `NameSearchesEnd`),
and `NamesNormalize` of `ChannelNames`, which is an induction over the characters of a
name.

Not modelled:

- `upload`: presigned URLs for an object store, without state of its own.
- E-mail: that sending can fail is part of the handlers that send.
- Configuration, start-up, filters, swagger and DTOs: no state; the inputs that the DTOs
  allow are the sets the models enumerate.
- `createWorkspaceSetup` and `createWorkspaceOnboarding`: initial states of `Workspaces`,
  because they run in one transaction. `updateWorkspace`, `updateOwnMembership`, the flags
  `isVerified` and `isActive` of a workspace, `description` and `topic` of a channel,
  `updateUserSetting`, and what `updateProfile` writes besides the telephone number: fields
  that no rule reads.
