# A verification project for the unicx integration backend

The repository is a NestJS backend over MongoDB that manages a tree of
entities, their users, and one WhatsApp connection per user (whatsapp-web.js
drives a headless Chrome for each). It runs as one node process; every `await`
is a point where requests, library events and timers interleave, and the
process may die and be restarted (`docker-compose.yml`, `restart:
unless-stopped`). The repository has no tests. This directory holds TLA+ models
of the parts whose correctness depends on those interleavings, the TLC runs
that check them on small instances, and TLAPS proofs of the main invariants for
every instance.

Check everything from this directory with

    tlc -workers 2 -config <run>.cfg <MC module>      # one run of PROJECT.json
    tlapm WhatsAppSessions_proofs.tla
    tlapm SessionHealth_proofs.tla
    tlapm EntityHierarchy_proofs.tla
    tlapm MessageStore_proofs.tla
    tlapm UserAccounts_proofs.tla
    tlapm Reports_proofs.tla
    tlapm UserOnboarding_proofs.tla

## 1. Inventory

Paths are relative to `src/src/`.

| Component | State | Operations | What is hard |
|---|---|---|---|
| WhatsApp sessions, `modules/whatsapp/whatsapp.service.ts` | in-memory map `clients` (sessionId -> Client); session documents (status, QR code) | `createSession`, `initializeClient`, `disconnectSession`, `reconnectActiveSessions`, handlers of the client's events | two requests for a session, handlers against requests, handlers of an old client against a new one, swallowed errors, crash and reconnection |
| WhatsApp health checks, `modules/whatsapp/whatsapp-health-check.service.ts` | check records, alerts | cron round every 5 minutes, manual checks, `createHealthAlert`, `resolveHealthAlerts` | overlapping checks, read-modify-write of records and alerts, errors that end a round |
| WhatsApp messages, `modules/whatsapp/whatsapp.service.ts` | message documents, statistics in the session document | incoming, outgoing, acknowledgement, media upload, paged listing | the acknowledgement may come before the message is stored, twice, or out of order; look-up and insert are several awaits apart |
| WhatsApp events, `modules/whatsapp/whatsapp-events.service.ts` | none (a Subject) | emit, stream | - |
| Dead letter queue, `modules/dlq/dlq.service.ts` | queued failed operations | `sendToDLQ`, `processDLQ` | it refuses every record, and its callers do not expect that |
| Users, `modules/users/users.service.ts` | user documents | create, update, remove, verify e-mail, resend; invite, invite in bulk, regenerate QR code | user saved, then session, code or e-mail fails; requests on one account that read, await and write back |
| Entities, `modules/entities/entities.service.ts` | tree: parentId, path, level, entityIdPath, tenantId | create, update, move, remove | check-then-write on a tree, derived paths of a subtree rewritten one document at a time |
| Entity types, `modules/entity-types/entity-types.service.ts` | titles | create, update, remove | check-then-insert |
| Authentication, `modules/auth/auth.service.ts` | password, reset token | register, forgot and reset password; login, refresh, validate | two resets with one token |
| E-mail, `modules/email/email.service.ts` | none | send one mail, throw what goes wrong | the callers differ in what they do with the error |
| Storage, `modules/storage/storage.service.ts` | files in the cloud | upload, download, delete, signed URL | a document that points to a file that is not there |
| Dashboard, `modules/dashboard/dashboard.service.ts` | none | statistics, system health, activity feed | several queries without a snapshot over them |
| Metrics and audit, `common/services/metrics.service.ts`, `audit.service.ts` | records that are appended | collectors, percentile, paged audit log | as for the dashboard; the index of a percentile |
| Rate limiting, `common/security/rate-limit.guard.ts` | counter per key and window | `canActivate` | provided, but no route uses the guard |
| Encryption, health endpoint | none | - | pure functions, read-only |

How they interact: controllers call services; `UsersService.inviteUser` and
`regenerateQRCode` call `createSession`; `createSession` registers handlers on a
Client, whose events update the session document; the health checks read the
session documents that those handlers write, and nothing else of the session
service; the message handlers are registered on the same clients, read the
entity of the session, upload media to the storage and count in the session
document; users mail their tokens and codes through the e-mail service; the
dashboard and the metrics count what all the others write; the events service
forwards status changes to browsers; users and sessions copy `path` and
`tenantId` from the entities.

What makes each component correct:

- *Sessions*: at most one live client per session, never overwritten; a dead
  client does not stay in the map; status and QR code agree; a connected session
  is managed, also after a crash; a disconnect leaves nothing running; requests
  and start-up end.
- *Health checks*: an alert means that the session failed three checks in a row;
  one open alert per session; failures are not counted twice; a recovered
  session has no open alert, a resolved alert stays resolved; a round reaches
  every session.
- *Messages*: a message is stored once, also by two sessions of one group; its
  status is that of its last acknowledgement; the statistics of a session never
  count what is not stored; a media URL belongs to a file; no message a client
  delivered is dropped without a reason.
- *Entities*: the parent relation is a forest; path, level, entityIdPath and
  tenantId are those of the ancestors; an active entity has an active parent.
- *Accounts*: an address changes only to one that was proven by a mail; a token
  works once; a link that was mailed works until it is used or replaced.
- *Onboarding*: the answer to an invitation tells whether the user is stored; a
  new code is one of a new client; the status of the user tells whether the last
  request for a code found none.
- *Dashboards and listings*: figures of one answer differ by no more than what
  was written while they were read; paging skips nothing its order can tell apart.

## 2. Modules

| Module | Role |
|---|---|
| `ClientRegistry` | abstract specification of the map of clients |
| `WhatsAppSessions` | session service, client library (external), death and restart |
| `MCWhatsAppSessions` | its instances for TLC |
| `WhatsAppSessions_proofs` | its theorems |
| `SessionHealth` | health checks, records and alerts |
| `MCSessionHealth` | its instances for TLC |
| `SessionHealth_proofs` | its theorems |
| `EntityForest` | abstract specification of the tree of entities, one step per operation |
| `EntityHierarchy` | create, move and remove of entities, one action per database call |
| `MCEntityHierarchy` | its instances for TLC |
| `EntityHierarchy_proofs` | its theorems |
| `MessageStore` | message handlers, statistics, media and acknowledgements |
| `MCMessageStore` | its instance for TLC |
| `MessageStore_proofs` | its theorems |
| `UserAccounts` | accounts, verification and reset tokens, mails |
| `MCUserAccounts` | its instance for TLC |
| `UserAccounts_proofs` | its theorems |
| `UserOnboarding` | invitations and new codes; extends `WhatsAppSessions`, whose requests it calls |
| `MCUserOnboarding` | its instance for TLC |
| `UserOnboarding_proofs` | its theorems |
| `Reports` | dashboard, metrics collectors, activity feed, paged listings |
| `MCReports` | its instance for TLC |
| `Reports_proofs` | its theorems |

Definitions whose comment begins with "Broken variant" are not part of any
specification. Each is a definition of the model with one plausible bug; the
`mutants` of `PROJECT.json` name the property each of them violates.

### WhatsAppSessions

One action is one synchronous segment of the code. A slot of `op` is one run of
`createSession` or `disconnectSession` (or of the start-up loop, slot `Boot`),
with the label of the `await` it stands at:

| Label | The code is about to | Action |
|---|---|---|
| `find` | look up the session document | `FindSession` |
| `insert`, `touch` | save a new document, or update path and tenant | `InsertSession`, `TouchSession` |
| `init` | run `initializeClient`: test the map, enter a new client | `InitializeClient` (`Launch`) |
| `wait` | await `client.initialize()` | `ClientInitialized`, `ClientInitFails` |
| `fail1`, `fail2` | write FAILED in the inner, then the outer catch | `MarkInitFailed` |
| `closing` | await logout, pause, destroy, then delete the map entry | `CloseClient` |
| `mark` | pause, then write DISCONNECTED and clear the QR code | `MarkDisconnected` |

`handlers` holds the event handlers that started and whose database write has
not happened yet. A handler knows its session only by its id, as in the code, so
a handler of an old client writes to the document and deletes from the map
whatever is there now. `life` is what becomes of a Client and its browser; it is
changed by the library (external, modelled from the events the service registers
for), by `destroy` and by the death of the process. A rejected `initialize()` does
not destroy the client: whether its browser has gone (`init_fails` in `Faults`) or
goes on (`init_leaves`) is up to the library, and the code, which only deletes the
map entry, never looks (`whatsapp.service.ts:300`).

`ClientRegistry` is implemented with `handle <- clients` and `issued` <- the
clients created for a session.

### SessionHealth

A slot of `chk` is one run of `checkSessionHealth` (in a cron round, or a manual
check). `last[s]` is the record with the greatest `checkedAt`, the only one the
code reads back; `failures[s]` counts the stored FAILED records for the
properties. The session documents change on their own (`SessionChanges`) within
what the handlers of the session service write, so every check of every history
of the session is covered. `longAgo` stands for both ages `performHealthCheck`
compares (a connection of a day, a code of ten minutes).

### EntityHierarchy

A slot of `op` is one request of `EntitiesService`, with the locals of the
method and the label of the database call it comes to next:

| Label | Call in the code | Action |
|---|---|---|
| `authorize`, `authorizeParent` | `canManageEntity`, `canUserManageEntity` | `Authorize`, `AuthorizeParent` |
| `newParent` | `findOne(newParentQuery)` | `FindNewParent` |
| `circle`, `walk` | `wouldCreateCircularReference`, `getAllDescendants` | `CheckCircular`, `GetDescendants`, `DescendantsKnown` |
| `path`, `level`, `idPath` | `generatePath`, `calculateLevel`, `generateEntityPath` | `GeneratePath`, `CalculateLevel`, `GenerateEntityPath` |
| `save`, `write` | `entity.save()`, `findByIdAndUpdate` of the moved entity | `SaveEntity`, `WriteMove` |
| `rewalk`, `descPath`, `descLevel`, `descWrite` | `updateDescendantsPaths` | `GetDescendants`, `RewriteNext`, `ReadDescendantPath`, `ReadDescendantLevel`, `WriteDescendant` |
| `count`, `remove` | the counts of children and users, the soft delete | `CountDependents`, `RemoveEntity` |

The recursion of `getAllDescendants` is `stack`, what it returns is `list`, each
entry with the parent the child was found under, which is the `parentId` of the
document the code keeps. The order of the documents of a query is any order.

What is abstracted:

- A name is the entity itself, so a path is a sequence of entities. `update` may
  rename an entity; its lines that would renew the paths are commented out, and
  it writes no other field modelled here. That renaming leaves the paths with the
  old name is not a question the model can ask.
- `create` gives a root `new Types.ObjectId(undefined)`, a fresh identifier, as
  its parent. It names no entity, and is `None` here like the `null` of a move to
  the root.
- The schema's `type: Types.ObjectId` is taken for mongoose's ObjectId type: ids
  that are strings are cast in queries and updates. This is an assumption: what
  the installed mongoose does with that declaration cannot be seen in the sources.
- Whether an entity has users is a free choice of `CountDependents`.
- A caller is `None` (a system administrator, who has no tenant) or the entity of
  a tenant administrator; `tenantId` of such a user is the tenant of the entity.
- The tenant of an entity is its stored `tenantId`, which a move does not rewrite.
  `TenantIsolation` and `IdPathWithinTenant` are about that field: after a move to
  another tenant by a system administrator the entity stands in one tenant's tree
  and belongs, for queries and authorization, to the other. Isolation by the place
  in the tree is not what they state, and the code does not keep it.
- Once the tree has a cycle, the list of `getAllDescendants` grows for ever. An
  entry is noted once, which changes nothing: such a list is never used.

`EntityForest` is implemented with the variables of the same names.

Nothing keeps requests apart, so the module also names the overlaps that leave the
tree as it should not be. The properties in the last column hold on all behaviours
without the overlaps against them, and the theorems (section 5) make these definitions their only conditions:

| Condition on a state | What it says | What it breaks |
|---|---|---|
| `SelfMoved` | an entity is about to be put under itself; this needs no overlap | `Acyclic` |
| `MovesCross` | a move is about to be written while another is between its check for circular references and its write | `Acyclic` |
| `RemovedUnder` | an entity is about to be removed while a request that has read it for the last time puts another under it | `ActiveUnderActive` |
| `RemovedInMove` | an entity is about to be removed while it is being moved | the forest: a removed entity moves |
| `PlacesCross` | while a move writes its entity and rewrites the subtree, another request does the same, is about to remove, or goes by the path of a parent | `PathFollowsParent` |

`NothingLost` is the absence of the first four.

### MessageStore

A slot of `op` is one run of the handler of `message`, `message_create` or
`message_ack`:

| Label | Call in the code | Action |
|---|---|---|
| `exists` | `findOne` of the message | `FindExisting` |
| `entity` | `findOne` of the entity of the session | `ReadEntity` |
| `media` | `handleMediaUpload` | `HandleMediaUpload` (`UploadFile`) |
| `sender` | registered user, contact (received messages) | `ResolveSender` |
| `insert` | `messageModel.create` | `CreateMessage` |
| `count` | the statistics of the session | `CountMessage` |
| `ack`, `ackcount` | `findOneAndUpdate` of the message, the statistics | `ApplyAck` (`SetStatus`), `CountAck` |

`CallFails` ends a handler at any of these calls but the upload, which catches
what it meets; `Crash` ends all of them. `stored` is a sequence, since an update
by the id of a message changes the oldest of its documents. Messages of a group
carry one id in every session of the group, so `SessionsOf` may give a received
message two sessions. The conversation a message is filed under is left out:
nothing is decided by it (for a sent group message it is made of the name of the
group, for a received one of the id of the chat).

### UserAccounts

A slot of `op` is one request on one account; its label names the call it comes
to next.

| Label | Method | Actions |
|---|---|---|
| `find`, `insert` | `create`, `register` | `FindExistingUser`, `InsertUser` |
| `load`, `compare`, `write`, `mail` | `update` | `LoadForUpdate`, `CompareEmail`, `WriteUpdate`, `MailVerification` |
| `delete` | `remove` | `RemoveUser` |
| `vload`, `vcompare`, `vwrite` | `verifyEmail` | `LoadForVerify`, `ComparePending`, `WriteVerified` |
| `rload`, `rwrite`, `rmail` | `resendEmailVerification` | `LoadForResend`, `RenewToken`, `MailResent` |
| `fload`, `fsave`, `fmail` | `forgotPassword` | `LoadForForgot`, `SaveResetToken`, `MailReset` |
| `reset`, `rsave` | `resetPassword` | `MatchResetToken`, `SavePassword` |

Tokens are numbered in the order they are drawn; the code draws them at random,
and the model takes it that no two are equal and none is guessed. The unique index
of addresses refuses a second document with an address, removed users included.
The one of phone numbers is declared both `sparse` and with a
`partialFilterExpression` (`user.schema.ts:173`), which MongoDB refuses, so whether
it exists is open: a document with the phone of another is stored or refused
(`Refused`), and no property rests on it. `overlapped`
collects the accounts two requests worked on at the same time: read, await and
write back by id gives no guarantee there, and the properties say so. Sign-in,
the refresh of a token and its validation read the user and sign or check a JWT;
they write nothing that is read again.

### UserOnboarding

`UserOnboarding` extends `WhatsAppSessions`. A request has a slot in `ob` for the
users service and, under the same identity, one in `op` for the call it makes of
the session service; `Follow` resumes the one in the step in which the other
returns or throws. Every other step of the sessions, handlers, library, start-up
and restart included, goes on in between (`Elsewhere`).

| Label | The code is about to | Action |
|---|---|---|
| `find`, `save` | look for the address, store the user | `FindInvitee`, `SaveInvitee` |
| `call`, `create` | call and await `createSession` | `CallCreateSession`, `Follow` |
| `code` | `getQRCode` | `ReadCode` |
| `fail`, `notice`, `mail` | write FAILED, mail without or with a code | `MarkUserFailed`, `MailInvitation` |
| `welcome` | mail an administrator who has no phone | `MailWelcome` |
| `done` | answer, or take the next of a bulk invitation | `NextInvitee` |
| `load`, `close` | find the user, await `disconnectSession` | `LoadUser`, `Follow` |
| `recall`, `reopen` | call and await `createSession` | `CallCreateSession`, `Follow` |
| `connecting`, `code`, `confirm` | write CONNECTING, `getQRCode`, write CONNECTING | `MarkConnecting`, `ReadCode`, `ReturnCode` |
| `giveup` | the catch block: write FAILED | `GiveUp` |

The id of a session is made of the phone number, so a user with a phone and the
session are one identity. Nothing writes a user's `whatsappConnectionStatus` when
its client becomes ready or leaves: the field tells how the last request for a
code ended and nothing else. It does not tell all of that either. A regeneration
that gets no code, for whatever reason, makes the user FAILED, and so does an
invitation whose session has no code in time; but an invitation whose
`createSession` or `getQRCode` rejects goes straight to its catch block
(`users.service.ts:515`), and the user keeps the status of a new one, DISCONNECTED.
The history `regen` keeps the three outcomes apart (`code`, `nocode`, `rejected`),
and `FailedMeansNoCode` says what the status is for each. Every call of
`sendToDLQ` throws (section 7).

### Reports

A report is a sequence of queries (`Queries`), each answered by one action from
the documents there are at that moment; writers go on in between. A document is
its collection and the tags the filters tell apart; `user` is the role USER, which
the figures about users ask for. `Count` serves the counting reports, `ReadActivity`
the feed of three queries with a shrinking limit, `CountListed` and `ReadPage` a
client that reads page after page. A query that rejects ends a report
(`ReportFails`), and the feed with its fallback item (`FeedFails`, `Shown`).

- Writers insert documents with the tags the code creates them with (`Kinds`),
  change the status of messages, sessions and registrations in either direction
  (`ChangeStatus`), give a session to its caller's entities (`TouchSession`), set
  role and phone of a user (`UpdateUser`) and the type of an entity
  (`UpdateEntity`), and remove users and entities. A user that loses the role USER
  is lost to the figures like one that is removed, and counts in `lost`.
- For the listings `at` is the millisecond of `createdAt`. It is arbitrary: documents
  may share one, and be stored in another order than their stamps. A page is one the
  sort by `createdAt` allows (`Pages`): documents of one millisecond come in any
  order, and in another order in the next query, since no second key decides.
- For the counting reports only the order to `now` and to the start of the window
  matters. A document stored after the report took the time counts as created after
  it, and one older than the window comes before any that is not.
- Page sizes are positive: the code replaces a missing, 0 or unreadable one by a
  default (`parseInt(limit) || 10`, `|| 20`, `limit || 50`). The limit of the feed has
  no such default and may be 0 (`dashboard.controller.ts:49`), which MongoDB takes
  for no limit. Negative limits, and limits that are no number, are left out.
- Audit logs are stored without the `entityIdPath` the feed filters by for a tenant,
  so only a system administrator finds any there; entities of a type of their own
  count in the total of the dashboard and under no type.

## 3. Runs

Every `pass` run ends with no error; every `violation` run ends with the trace
that its finding describes. State counts are distinct states.

| Run | Question | Size |
|---|---|---|
| `sessions_concurrent` | two requests and two clients of one session, all library faults, handlers of any delay: do status and QR code agree, does the map stay free of dead clients and implement the registry? | 1,145,000 |
| `sessions_restart` | two sessions, a death of the process and a database call that throws, anywhere, with events during the reconnection loop: is the query result still right when the loop gets to it? | 1,263,000 |
| `sessions_serial` | one request at a time, prompt handlers, two crashes: is a connected session managed, does a disconnect leave no browser, does every request return, does start-up end, does a dead client leave the map? | 44,000 |
| `health_concurrent` | a cron round and a manual check of one session in every interleaving, with a database error and a crash: alerts and their counts against stored failures | 739,000 |
| `health_serial` | one check at a time: is an alert open exactly while the session fails? | 4,800 |
| `health_aborted_round` | violation: a session without a phone number ends the round | |
| `entities_concurrent` | two slots, each for every kind of request, by system and tenant administrators, three entities that also move between tenants, two moves, without the overlaps of `NothingLost`: is the tree the abstract forest, with no cycle and an active parent for every active entity, does a tenant administrator's request write within its tenant only, do entityIdPath and tenantId agree? | 1,711,000 |
| `entities_paths` | two slots, each for every kind of request, self-moves asked for, four entities, without `PlacesCross` as well: is every path and level right when the requests are over? | 1,713,000 |
| `messages` | a group message two sessions receive and one that is sent, with media, acknowledgements, a removed entity, a call that throws or a death of the process: do documents, statistics and files belong together, and is every message stored in the end? | 546,000 |
| `accounts` | two requests at a time, five in all, on two accounts, one mail that fails, tokens that expire: is every new address proven, does a token work once, and does a link work until then? | 2,704,000 |
| `onboarding` | invitations alone and in bulk and requests for a code, composed with the sessions and every fault of theirs: is the answer true, the code new, the status right? | 2,472,000 |
| `reports` | every dashboard, metric, feed and listing with two writes anywhere between its queries: do the figures belong together, does paging skip no document that is alone in its millisecond? | 638,000 |

Further configurations, outside `PROJECT.json`, each show a violation of one
property, in most cases one that the passing runs check where it holds:

| Configuration | Property | What TLC finds |
|---|---|---|
| `SessionsLogout.cfg` | `DisconnectLeavesNothingRunning` | after a logout from the phone, a disconnect destroys nothing |
| `SessionsFailedInit.cfg` | `DisconnectLeavesNothingRunning` | after an `initialize` that failed with its browser running, a disconnect destroys nothing |
| `HealthTwoAlerts.cfg` | `AtMostOneOpenAlert` | two checks that overlap create two alerts |
| `HealthWarning.cfg` | `RecoveredSessionHasNoOpenAlert` | a warning before the success leaves the alert open |
| `EntitiesCycle.cfg` | `Acyclic` | two moves that overlap build a cycle |
| `EntitiesSelfMove.cfg` | `Acyclic` | an entity is moved under itself |
| `EntitiesIdPath.cfg` | `IdPathListsAncestors` | a move does not renew entityIdPath |
| `EntitiesOrphan.cfg` | `ActiveUnderActive` | a child is saved while its parent is removed |
| `ReportsTies.cfg` | `PagingReadsAll` | a page skips a document that shares its millisecond with another |

And put into `Onboarding.cfg` as invariants, `MailFailureKeepsInvitation` is violated
by an invitation whose welcome mail fails, and `NoCodeMeansFailed` by one whose
`createSession` rejects.

`EntitiesSerial.cfg` is not one of these: it ends with no error (334,000 states), and
checks `RequestsReturn` of `EntityHierarchy`, that every walk over a subtree ends and
every request returns, for one request at a time on four entities.

Bounds. `Client` bounds the number of initialisations: two suffice for an old
client and its replacement to meet in every way, three for a crash, a
reconnection and another request. `MaxHandlers` bounds the handlers in flight,
two for any pair to be reordered (one in `sessions_restart`, whose subject is what
a crash leaves behind). `Request` has two slots where two requests
race. `MaxChecks` bounds the check records: five are the three failures of
`CONSECUTIVE_FAILURE_THRESHOLD`, one more that bumps the alert and one success
that resolves it; eight in the serial run allow a second alert after a
recovery. `MaxCrashes` and `MaxDbFaults` are one or two, each at any point.
`Threshold` has the value of the code, 3. `Faults` selects which misbehaviour of
the library an instance has, see its comment. The instances with fewer faults
(`sessions_serial`) state properties the code keeps only then:
with overlapping requests or late handlers an old client's handler deletes the
new client from the map, and the new one runs on without being managed
(`PROJECT.json`, hazards). `CHECK_DEADLOCK FALSE` is set since a bounded instance
stops when its clients, checks or entities are used up.

`Entity` bounds the entities ever created: four make a subtree of three that
moves under a fourth, or two branches, and three suffice for two tenants and an
entity that changes between them. `MaxMoves` is two, for a move that follows or
meets another. `Creator`, `Mover` and `Remover` name the slots that may start a
kind of request; a slot in two of these sets does one at a time. `SelfMoves` and
`Admins` switch moves of an entity under itself and the tenant administrators on.
`entities_concurrent` and `entities_paths` have two slots for every kind of request,
and leave out by a CONSTRAINT what comes after a state the conditions of section 2
speak of; all other overlaps are explored, three entities being enough for a move, a
creation and a removal to meet in one place, four for a subtree that is rewritten over
two levels. What `TypeOK`, `IdPathWithinTenant` and `TenantIsolation` say holds after
those states too; their theorems have no condition.

Messages, accounts, onboarding, reports. Two handlers are enough for two events
of one message to be reordered, and two messages for one the two sessions of a
group share and one that is sent and acknowledged; `MaxEmits` is one per client,
since the second session is the repetition that matters. One failure or death of
the process may strike at any call. Two requests at a time, five in all, are an
update, its verification, a second update and two resets in any mixture; one
account is there from the start, the other may be created and take its address.
Two clients and two requests in `onboarding` are an invitation or a regeneration
that meets another one of the same user; two invitees make a bulk invitation go
on after one that failed. `reports` has two documents for the report of nine
queries, three for the other counts and four, over pages of two, for listings;
two writes between the queries are one that adds and one that removes. The
statistics of the entities, with nine queries, are asked for by a system
administrator only. Pages hold two documents, so a third makes a second page; the
feed is asked for two items, which a third document exceeds, and for none.
Three stamps are enough for two documents that share one and a third on either side.

Symmetry is used for slots, clients, alerts and entities in runs without
liveness properties; `EntitiesSerial.cfg`, which has one, lets new entities take their
identities in a fixed order instead (`CreatedInOrder`); no definition chooses among them.

## 4. Fairness

`FairSpec` asks for weak fairness of the service's own segments: the promise a
segment waits for settles (the library's waits and the driver's calls have
timeouts; `initialize` resolves or rejects), and the event loop then runs what
follows. A call that hangs for ever is thereby left out: the liveness properties
say that no path of the service blocks, not that it survives a library that does.
There is no fairness for requests, events of the library or the phone, crashes, restarts or database errors: nothing obliges them. Fairness is per slot
over all its labels, since a slot stands at one label at a time; per handler and
client; for each entry of the start-up loop; and for `app.listen`. In
`EntityHierarchy` it is per slot, over every label but `save`: a creation that
has no identity left because of the bound `Entity` may not be obliged to end, and
`RequestsReturn` counts it as ended there. In `MessageStore` it is weak fairness of
each handler: the event loop resumes a handler whose call has been answered. The
events themselves are not fair, the library never repeats them.
`UserAccounts`, `UserOnboarding` and `Reports` state no liveness and no fairness.

## 5. Proofs

`WhatsAppSessions_proofs` assumes `SessionsAssumption`: any sets of sessions,
clients and requests, any faults, any bounds. The first six theorems ask for
nothing else.

- `TypeCorrect`: `TypeOK` is inductive.
- `QRCodeConsistent`: `QRCodeMatchesStatus` is not inductive, because a handler or
  a request that is half way may be about to break it. `DocumentInv` adds the
  bindings of handlers and slots to real sessions and documents, and what a
  slot's label says of the document.
- `BindingsKept`: `BindingInv`, every client in the map, in a slot or behind a
  handler was created for the session it is used for. It is what lets a handler
  be known by its session id.
- `NoZombie`: a dead client in the map has a leaving handler in flight or the
  database has thrown. It rests on `BindingInv`: the entry a handler takes out is
  the entry of its own client's session.
- `RegistryRefined`: `Spec => RegistrySpec`; `Launch` is `Register`, deletions are
  `Remove`, `Crash` is `Clear`, everything else stutters. `BindingInv` and the test
  of the map in the same segment give the guard of `Register`.
- `StartupListFresh`: while the process boots, no request runs and the only
  clients belong to sessions the loop has left behind (`StartupInv`).

The other two are about behaviours on which `Calm` holds: the requests for one
session do not overlap (requests for different sessions do, and the handlers of
the clients run in between); the instance has no logout from the phone, no
`destroy` that fails, no failed initialization that leaves its browser running and
no late write of a handler; no database call has thrown. Crashes, restarts, clients
that close, failed logins and initializations that fail and close their browser are
allowed. Every condition is needed by one of the two or both: TLC violates
`DisconnectLeavesNothingRunning` with a logout from the phone (`SessionsLogout.cfg`)
and with an initialization that leaves its browser (`SessionsFailedInit.cfg`), and
both properties, in an instance of one session and two clients, without any one of
the other four.

- `ConnectedManaged`: `ConnectedIsManaged`. `SoleInv(s)` says, for the one slot that
  works on s or for none, that a client of s outside the map is dead and its
  handlers are over, unless `disconnectSession` stands before the pause that waits
  for them, and that a connected status comes with a client in the map unless the
  slot is about to overwrite it or the start-up loop about to make it true (before
  a client goes from the map its handler has written DISCONNECTED). `HandlerInv`: a
  client has one handler in flight, so that its writes come in the order of its
  events. `View` is `SoleInv` from one slot, which lets each step be treated alone.
- `DisconnectComplete`: `DisconnectLeavesNothingRunning`. At `mark` every client of
  the session is dead by `SoleInv`, and a dead client stays dead
  (`DeadStaysDead`).

`SessionHealth_proofs` assumes `HealthAssumption`: any number of sessions,
rounds, checks and alerts, any threshold of at least one. The first five theorems
ask for nothing else.

- `TypeCorrect`: `TypeOK` is inductive.
- `AlertsBacked`: an alert is backed by `Threshold` stored failures. `StreakInv`
  strengthens it to: the streak of a stored record, and the previous streak a
  check has read, never exceed the stored failures; a check that has decided to
  alert has stored its own. That is what survives stale reads.
- `ResolvedKept`: a resolved alert stays resolved, since the only writes to a
  status come from a fresh document and from resolving.
- `OccurrencesBacked`: `OccurrencesNotOvercounted`. `CountInv` says that a count,
  stored or read by a check that is about to write it back, is covered by the
  stored failures up to the failure of that check, so a lost update only ever
  makes it smaller.
- `FlagsBacked`: `FlaggedCheckHasAlert`. `FlagInv`: while the database answers, a
  check comes to the flag only from an alert of its session that it created or
  updated, and no alert is ever taken away.

The other three are about behaviours with a condition on every state, written
`Spec /\ []Condition => []Property`: `Apart`, no two slots check the same session
(different sessions are checked at the same time, by any number of slots);
`Undisturbed`, the process has not died and no database call has thrown;
`NoWarning`, no check has ended in a warning. Each condition speaks of what the
system meets, and each is needed.

- `OneOpenAlert`: `AtMostOneOpenAlert` under `Apart` alone; `HealthTwoAlerts.cfg`
  shows two overlapping checks that open two alerts. `OneOpenInv`: who is about to
  create an alert has found none, and since nobody else checks the session, none
  has come (`OpenGrows`: only a creation adds an open alert).
- `SustainedFailureAlerted`: `SustainedFailureHasOpenAlert` under `Apart` and
  `Undisturbed`; a crash or an error between the save of the record and the alert
  leaves the streak without one. `AloneInv` says what the only check of a session
  may rely on at each label (`CheckOK`): until it saves, the record it read is
  still the last one; past the threshold, the alert it found is still open.
  `CheckKeeps` proves that from one record, one set of open alerts and one move at
  a time, and `CheckShape` that every step of a check is such a move.
- `RecoveryResolves`: `RecoveredSessionHasNoOpenAlert` with `NoWarning` as well
  (`HealthWarning.cfg`). The same invariant, with the clause that a session
  without a streak has no open alert between checks, which holds because every
  success after a failure resolves all alerts it found open.

`EntityHierarchy_proofs` assumes `EntitiesAssumption`: any finite set of
entities, any sets of slots, any number of overlapping requests. Its first three
theorems ask for nothing else, tenant administrators and self-moves included.

- `TypeCorrect`: `TypeOK` is not inductive: that a level is a number and a list of
  descendants has a head depends on the label a slot stands at. `RequestInv` says
  which locals a request of each kind has at each label; the two together are
  inductive.
- `IdPathCorrect`: `IdPathWithinTenant`. A creation copies the entityIdPath of its
  parent and the tenant it read of the same parent earlier, in two calls. `OwnInv`
  adds what each label says of these locals, and is kept because no action writes
  entityIdPath or tenantId of an existing entity, and an entity that has been seen
  never becomes absent again.
- `TenantsIsolated`: `TenantIsolation` follows from `OwnInv`: what the checks at
  `authorize`, `authorizeParent` and `newParent` found of tenants still holds at
  the write, for the same reason.

The other four are about behaviours on which one or more of the conditions of
section 2 never hold, written `Spec /\ []~Condition => ...`. Each is needed: three
have a configuration of their own, and without `RemovedInMove` in the CONSTRAINT of
`entities_concurrent`, or `PlacesApart` in that of `entities_paths`, TLC violates
`ForestSpec` and `PathFollowsParent`.
No constant is restricted: any number of slots, of every kind, self-moves among the
requests, any tree, any order in which the database returns children.

- `NoCircularReferences`: `Acyclic` without `MovesCross` and `SelfMoved`; without the
  first condition `EntitiesCycle.cfg` closes a circle, without the second
  `EntitiesSelfMove.cfg`. `CycleInv` describes the walk over the descendants while the
  tree changes under it, for every request that moves: of the entities that existed
  when it began (`O`), an active child of a visited one is visited or on the stack
  (`WalkOK`); so when it ends without the new parent, a set `V` closed under children separates the
  two (`ApartOK`). Creations lie outside `O`, removals only take children away, and
  a move of another request is written outside the walk or before it, since the two
  do not cross; so the separation lasts until the write, and a circle through the
  new edge would have to cross it.
- `NoOrphans`: `ActiveUnderActive` without `RemovedUnder` (`EntitiesOrphan.cfg`).
  `OrphanInv`: a request that is about to place an entity has an active parent for
  it (`PlacedOK`), and one that is about to remove an entity has found no children,
  and nobody has placed one there since.
- `ForestRefined`: `ForestSpec` under `NothingLost`. `SaveEntity` is the creation of
  the forest, `WriteMove` its move, `RemoveEntity` its removal, or a stutter for an
  entity another request has removed; everything else stutters. `CycleInv`,
  `OrphanInv` and `MovingInv` (a moved entity is active at its write) give the guards.
  For the guard of the move a set closed under parents must not hold the entity,
  which is why `EntityForest` speaks of ancestors as such a set.
- `PathsFollowParents`: `PathFollowsParent` under `NothingLost` and without
  `PlacesCross`. `PathInv` says what is out of date in the middle of a rewriting:
  every active entity whose path does not follow from its parent is on the stack or
  in the list together with that parent, or its parent is the moved entity, still to
  be expanded (`PendingOK`). For an entity that is put right to make its children
  wrong is harmless, because each of them comes later in the list or from the stack
  (`InOrder`), and comes there once, which needs the tree to have no circle
  (`DescentOK`). `PlaceOK` says of
  every other request that the path or level it has read of a parent is still the
  right one.

`MessageStore_proofs` assumes `MessageAssumption` only: any sessions, messages,
handlers and number of repeated events and failures.

- `TypeCorrect`: `TypeInv` adds to `TypeOK` that a slot has a message and a
  session exactly when it is not idle.
- `MessagesStoredOnce`: `StoredOnce` holds because of what a handler past its
  look-up knows: its message is not stored and it is the only handler of that
  message, or the message counts as disturbed (`OnceInv`).
- `StatusFollows`: `StatusInv` adds to `OnceInv` what a handler may rely on at each
  label (`Knows`): one that may yet store a message finds no acknowledgement of
  it unless the entity is gone, and one that writes an acknowledgement holds the
  last. `OnceInv` makes the oldest document the only one.
- `MediaUrlsResolve`: `MediaInv` carries the URL from the upload to the insert;
  files are never taken away here (section 7).
- `CountersMatch`: `CountersMatchStore`. `Balanced` compares, per session and
  direction, the counter, the set of stored documents and the set of slots that
  have stored one and not counted it; each action moves one element of one of
  these sets, and the lemmas say what that does to a cardinality.

`UserAccounts_proofs` assumes `AccountsAssumption` only: any accounts,
addresses, numbers, requests and failing mails.

- `TypeCorrect`: `TypeInv` adds to `TypeOK` which labels come with an address, and
  that an account has one.
- `TokensUsedOnce`: `TokenUsedOnce` rests on `TokenInv`. Its parts: no token is one
  that has not been issued (`Bounded`); a token is mailed for one purpose to one
  account, and one that was used was mailed (`OneMail`); a request that comes
  with a token has it from a mail (`FromMail`); a token that is yet to be mailed
  is known to its request and its document only (`Fresh`); a stored token is
  unused and of its account and purpose (`Owned`); the only request on an
  account has read what the document still says (`Current`, `Alone`).
- `LinksStayValid`: `LinkStaysValid`. `LinkInv` adds to `TokenInv`, for accounts on
  which no requests overlapped: what a request has read is what the document
  says, what it is about to mail is what the document stores, and its token is
  newer than every one mailed (`ReadAt`); the token of a mail was used, or the
  stored one or another mail is not older (`LinkedAt`).
- `EmailChangesProven`: `EmailChangeIsProven`, an action property. The only step
  that changes the address of an account saves the pending address of a request
  that came with the stored token, and `LinkInv` says to whom that was mailed.

`Reports_proofs` assumes `ReportsAssumption` only: any limits, page sizes, stamps,
numbers of documents and of writes.

- `TypeCorrect`: that an answer is a natural number is not clear for the feed,
  whose limit is a difference; `FeedInv` bounds the sum of the answers by the limit
  for every prefix of the queries, unless the limit is 0.
- `FeedNeverTooLong`: `FeedFits`, from the same invariant.
- `FiguresAddUp`: `ReportsAddUp`. `AddInv` speaks of the value of every query of a
  report, asked or not: what it answered, or what it would find now. At one moment
  the values are related by inclusion or as the parts of a whole, and a write moves
  each by one at most (`Written`), so they drift apart by no more than the writes; of
  the figures of the week before, a write that is not counted in `lost` takes nothing
  out of the later one that stays in the earlier (`Lasting`, `Spared`).
- `PagingComplete`: `PagingMissesNothing`. `PageInv` counts, for a document that is
  alone in its millisecond and unread, the listed documents that are newer: they are
  at least as many as the pages behind have shown, because inserts only add to them
  and nothing listed is lost. A page skips newer documents first, so the document is
  on it, or a full page of newer ones is; a page that comes short leaves none.
- `P95IsNearestRank`: for every number of latencies, at least one, the index the
  collector takes lies inside the array and is the nearest rank of 95 per cent,
  neither one less nor one more. No run needs it.

`UserOnboarding_proofs` assumes `SessionsAssumption` and `OnboardingAssumption`:
any persons, clients and requests, any size of a bulk invitation, any
faults and crashes. It builds on the theorems of the session service: a step of
onboarding is a step of that service, or a read of it that fails (`ServiceStep`).

- `ObTypeCorrect`: `WhoInv` adds to `ObTypeOK` which labels come with a person and
  which with a phone; `GetQRCode` is typed because the person has one.
- `RepliesAreTruthful`: `InviteReplyTruthful`. `AnswerInv` says at every label what
  the locals `ok` and `saved` may be; an error of `createSession` goes to a label
  that answers as if nothing had happened, and only the dead letter queue of
  an administrator's mail breaks the agreement.
- `StatusTellsOutcome`: `FailedMeansNoCode`. `WaInv` has three parts: no two requests
  work on a person unless it counts as crossed (`AloneInv`); requests past the
  save have a stored document, and an absent one has no status (`StoredInv`); and
  `StatusInv`, which holds in the middle of a request too: an invitation that has
  not recorded its outcome, be it a code, none or an error, finds the status
  untouched, and status and outcome
  disagree only while a regeneration is between CONNECTING and its end. The proof
  does not need the condition `dbFaults = 0` of the property.
- `CodeIsFresh`: `RegeneratedCodeIsFresh`, with the faults left out that leave a
  client outside the map (`NoStray`, as above). `LinkInv` ties a request to
  the slot of its call, so that a person nobody has crossed on is a session with one
  request at a time (`LinkedApart`), and the argument of `SoleInv` applies to it
  (`UncrossedInv`). Hence the clients of the old session are `Silent` when
  `disconnectSession` returns: dead, with no handler on the way. That lasts
  (`SilentKept`), a code comes from a handler in flight only (`CodeStep`), and so
  none of theirs is in the document when it is read (`FreshInv`). `Shape` lists the
  few things a step can do to a request.

Only model-checked: liveness, which is out of reach of the prover
(`RequestsReturn`, `StartupCompletes`, `ZombieIsDropped`, `EveryMessageIsKept`).

## 6. Findings

The run `health_aborted_round` is listed as a finding in `PROJECT.json`: the record
of a CONNECTING session is refused for its missing phone number, in the catch
block again, and the round ends there, although the comment speaks of all active
sessions (`whatsapp-health-check.service.ts:35`, `:141`).

The following are observations, each of a configuration of section 3. What the
comments and texts of the repository say of the place is quoted where they say
something; several of them promise what the code does not keep.

- `SessionsLogout.cfg`: after a logout from the phone the map forgets a client
  that keeps running; the later disconnect destroys nothing
  (`whatsapp.service.ts:1007`) and the controller answers "Session disconnected
  successfully" (`whatsapp.controller.ts:97`).
- `SessionsFailedInit.cfg`: the same after an `initialize()` that rejected with its
  browser running, since the client is taken from the map and not destroyed
  (`whatsapp.service.ts:300`). That the library may leave it running is an
  assumption about code outside the repository.
- `HealthTwoAlerts.cfg`: the test for an open alert and its creation are apart; two
  checks that overlap create two (`whatsapp-health-check.service.ts:221`, under the
  comment "Check if there's already an open alert for this session").
- `HealthWarning.cfg`: a WARNING resets the streak, the SUCCESS after it resolves
  nothing, and the alert of the failures stays open
  (`whatsapp-health-check.service.ts:113`, under the comment "If check succeeded
  after failures, resolve any open alerts").
- `EntitiesCycle.cfg`: a moves under b while b moves under a; both pass the test
  for a circular reference before either writes (`entities.service.ts:346`, under the
  comment "Prevent circular references").
- `EntitiesSelfMove.cfg`: the test for a circular reference looks for the new parent
  among the descendants of the entity, which do not include the entity itself
  (`entities.service.ts:518`). The comment at the call says "Prevent circular
  references" (`entities.service.ts:345`); one request is enough to make one, and the
  recursion over the descendants then never ends.
- `EntitiesIdPath.cfg`: a move writes neither entityIdPath nor tenantId, so both
  describe the old place of the entity and its subtree (`entities.service.ts:355`).
  The schema calls them "Array of all ancestor entity IDs from root to current
  entity" and "Root/first ancestor entity ID for tenant isolation"
  (`entity.schema.ts:35`, `:38`). That they stay is also what makes authorization
  immune to concurrent moves.
- `EntitiesOrphan.cfg`: the children are counted before the removal is written and
  a child is saved in between (`entities.service.ts:387`).
- `ReportsTies.cfg`: pages are sorted by `createdAt` alone, so a page may repeat a
  document and skip one of the same millisecond (`users.service.ts:149`,
  `whatsapp.service.ts:1154`, `audit.service.ts:189`).
- `NoCodeMeansFailed`: an invitation whose `createSession` or `getQRCode` rejects
  leaves the user without a code and without the status FAILED
  (`users.service.ts:515`), which the branch for a missing code does write
  (`users.service.ts:501`, "Update WhatsApp connection status to FAILED").
- An acknowledgement that overtakes the insert of its message is lost, and two
  that overlap may leave the earlier status (`whatsapp.service.ts:657`);
  an acknowledgement "played" sets the status back to pending.
- `MailFailureKeepsInvitation`: an invitation of an administrator whose mail fails
  rejects with the user stored, since the dead letter queue refuses its record.
  The comment says not to fail the creation (`users.service.ts:584`).

## 7. Not modelled

- The order of the events sent to browsers, and log lines.
- `onModuleDestroy`: `main.ts` enables no shutdown hooks, so it never runs.
- The contents of the dead letter queue: `sendToDLQ` creates its document without
  the required `retryDelay`, so it is rejected by validation, and nothing calls
  the processors. The queue is always empty. What the rejection does to its
  callers is part of `UserOnboarding`.
- `sendMessage` and `sendMediaMessage`: commented out in the source. The clean-up of
  session files is never called.
- The deletion of a file through the storage controller: it takes any file name
  and leaves the messages that point to it as they are, so `MediaUrlResolves` is
  about a store without it. Downloads and signed URLs are reads.
- Sign-in, refresh and validation of JWTs: they change nothing that is read again.
- Entity types: single writes of a list of titles that no other component
  decides on.
- Rate limiting: no route uses the guard. Encryption: library calls on strings.
  The audit interceptor appends a record and ignores what goes wrong. The health
  endpoint and the events service keep no state.
- Templates, formatting, and the further filters of searches and listings.

## 8. Plan

1. `WhatsAppSessions`, `ClientRegistry`: done.
2. `SessionHealth`: done.
3. `EntityHierarchy`, `EntityForest`: done.
4. `MessageStore`: done. Left: an abstract specification of an idempotent store.
5. `UserAccounts`: done.
6. `UserOnboarding`: done, composed with `WhatsAppSessions`.
7. `Reports`: done.
