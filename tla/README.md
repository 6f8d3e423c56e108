# NestWeb: formal models

TLA+ models of the NestWeb back office (NestJS, Prisma/PostgreSQL, Redis,
RabbitMQ, MinIO), TLC configurations that check them on small instances, and
TLAPS proofs of what holds for every instance.

Paths below are relative to the repository (`src/...` is the TypeScript source,
`docs/...` the documentation, `prisma/...` the schema and the seeds).

| Module | Models | Runs | Proofs |
|---|---|---|---|
| `MessageCenter` | `src/messages/messages.service.ts` | through `ApprovalLite` | `UsesMessageCenter` |
| `ApprovalRegister` | abstract: the status of a request | as a PROPERTY | `ImplementsRegister` |
| `ApprovalLite` | `src/approval-requests/`, composed with `MessageCenter` | `MCApprovalLite` with four cfgs | `ApprovalLiteProofs` |
| `SessionRegister` | abstract: single-use refresh tokens | as a PROPERTY | `RegisterKeepsSpent` |
| `AuthSession` | `src/auth/auth.service.ts` and the account writes of `src/users/users.service.ts` | `MCAuthSession` with three cfgs | `AuthSessionProofs` |
| `EmailVerification` | `src/email/`, `src/queue/` (the email queue) | `MCEmailVerification` with two cfgs | `EmailVerificationProofs` |
| `AccessControl` | `src/roles/`, `src/permissions/`, role assignment in `src/users/`, the permission guard, `prisma/seed.ts` | `MCAdministration` | `AccessControlProofs` |
| `Catalog` | `src/dicts/`, `src/system-config/`, `prisma/seed.ts` | `MCAdministration` | `CatalogProofs` |
| `MenuTree` | `src/menus/`, `src/permissiongroups/`, `prisma/seed.ts` | `MCAdministration` | `MenuTreeProofs` |
| `FileStorage` | `src/storage/`, `src/files/`, `src/images/` | `MCServices` | `ServicesProofs` |
| `AuditLog` | the system log interceptor, `src/system-log/`, the ip-geo queue | `MCServices` | `ServicesProofs` |
| `Registration` | registration in `src/auth/`, addresses in `src/users/` | `MCServices` | `ServicesProofs` |
| `DemoSeed` | `prisma/seed-demo.ts` beside the approvals | `MCServices`, `MCDemoSeed` | `ServicesProofs` |

## 1. Inventory

### How the program runs

One Node process (`src/main.ts`, `docker-compose.yml`) serves HTTP. A handler is
a chain of awaits; between two of them any other handler, queue consumer or
timer may run. PostgreSQL runs each Prisma statement, and each `$transaction`,
atomically; hardly any handler spans a transaction over its checks and its
writes, so *read, check, await, write by id* is the shape to think about.
Redis and RabbitMQ outlive the process. Nothing retries an HTTP call for the
client.

### Components

**Approval requests** (`src/approval-requests/`). State: `ApprovalRequest`
(status, applicant, approver user or role), its `ApprovalAction` log. Operations:
create, approve, reject, cancel, comment, list. Calls the message center for
todos and notifications, reads users and roles. Hard: the status is read long
before it is overwritten; todos and notifications are written after the
transaction that makes the verdict visible; any of these statements may fail.
Correct when the status and its log agree, a processed request is settled, no
todo outlives its request, the applicant hears of every verdict.

**Message center** (`src/messages/`). State: `Message` rows (todos,
notifications), `completedAt`, `cancelledAt`, `readAt`. Operations: create
(single, for a role), complete and cancel by owner or by business id, mark one
or all read. Hard: an owner's click races the bulk update of an approval.
Correct when only the owner, or the processing of the request, closes a todo.

**Auth sessions** (`src/auth/`). State: `User.hashedRt`, the one refresh token a
user has, `lastLoginAt`, `LoginLog`. Operations: login, WeChat mini program
login, register, refresh with rotation, logout. Hard: hashes are compared
outside the database, so a session can be revoked while a refresh is past its
check. Correct when an account accepts one token at a time, never one it gave
up, and ending a session ends it.

**User accounts** (`src/users/`). State: `User` rows and their role links.
Operations: create, update, status, reset and change password, remove. Hard:
administration races the user's own calls; two administrators race each other;
`updateUser` and `updateUserStatus` treat sessions differently.

**Verification email** (`src/email/`, `src/queue/producers`, `consumers`,
`services/email-queue.service.ts`). State: the durable `email.verification`
queue, Redis `emailToken:*` keys. Operations: publish, store the code, consume,
acknowledge or requeue. Hard: at-least-once delivery, expiry, lost answers,
crashes, two stores written in sequence. Correct when a deliverable letter is
still of use, a stored code has a letter, none is lost unexplained or stays for ever.

**Roles and permissions** (`src/roles/`, `src/permissions/`, the users' roles in
`src/users/`, `src/common/guards/permissions.guard.ts`). State: `Role`,
`Permission`, `User` rows and their links. Operations: create, update, remove
one or several, of each; a registration gives the default role. Hard: an enabled role
read before and connected after it is disabled; a default role connected without
asking; two administrators who demote each other; a permission checked by its code and
deleted by its id. Correct when the system keeps an administrator, what the system manages
stays, and no disabled role is given in any other than these two ways.

**Menus and permission groups** (`src/menus/`, `src/permissiongroups/`). State:
the `Menu` table, used by both: a tree by `parentId`, whose nodes hold the permissions.
Hard: the parent of a menu may become its own descendant; the descendants are
collected query by query before they are deleted. Correct when a removal
removes a subtree and leaves nothing behind, and a user finds the menus of the
system that his permissions call for.

**Dictionaries and system configuration** (`src/dicts/`, `src/system-config/`).
State: types, items, parameters with a flag `editable`. Hard: the seed writes the
same rows. Correct when the system's entries are served after a seed, and a
closed parameter keeps its value. No other module of the server reads them.

**Seed** (`prisma/seed.ts`). A process of its own that writes roles,
permissions, menus, dictionaries, parameters and the bootstrap administrator,
statement by statement, on every deployment, beside the running server. Hard: no
transaction, looked-up rows that change before they are written, deletion of legacy rows.

**Demo seed** (`prisma/seed-demo.ts`). Resets and rebuilds requests, messages and
files for demonstrations. Hard: it may stop half-way, users act on its rows.

**Files, images, object storage** (`src/files/`, `src/images/`, `src/storage/`).
State: `FileAsset` and `Image` rows, MinIO objects, a temporary file. Hard: object
and row change in two systems, in sequence; the GPS strand of an upload runs
beside it; removal must be retryable. Correct when a listed file has its object, a deleted one has none.

**System log and ip location** (`src/system-log/`, `src/common/interceptors`,
`src/queue/processors`). State: `SystemLog` rows, two Bull queues, Redis cache of
locations. Hard: two workers, one inserting the row, one updating rows by ip;
retries, stalled jobs, expiry. Correct when no row stays without its location for
want of a lookup.

**Registration steps** (`src/captcha/`, `src/sms/`, `src/redis/`, register
handlers in `src/auth/`). State: Redis codes and forms with expiry, accounts. Hard:
check-then-create, unique index against a lower-cased search, a form kept under
a number anybody may type. Correct when an account is that of its client's form and
no two accounts share an address.

**Without behaviour of their own**: articles (`src/articles/`), login log
listing, dashboard, system status, diagnostics and metrics, the WeChat HTTP
client, response and error wrappers, i18n, migrations. `PROJECT.json`
lists each with the reason why it is left out.

### Interactions

    HTTP -> guards -> approval requests -> message center -> Message rows
                   -> auth sessions <-> User row <- user administration
                   -> email.service -> RabbitMQ -> EmailConsumer -> SMTP
                             \-> Redis code <- register
                             register -> Redis form -> User row
                   -> interceptor -> Bull queues -> SystemLog / ip location
                   -> roles, permissions, menus, dictionaries, parameters <- seed
                   -> files, images -> MinIO, rows
    demo seed -> ApprovalRequest, Message, FileAsset rows

The hazards, each at its line and with the properties that watch over it, are
in `PROJECT.json`. Some of them do happen in this code: the property then excuses the
hazard itself, by a history variable, and says that there is no other way to the harm. The
hazard's note says where that is so, and what nothing looks at.

## 2. Plan

Done, in this order: approvals with the message center, sessions, verification
email; then the administration tables with the seed (`AccessControl`, `Catalog`,
`MenuTree`), the services around the database (`FileStorage`, `AuditLog`,
`Registration`) and the demo seed. Every component with a state of its own that another
step can interfere with has a module now, and every safety property of the passing runs a
theorem. Left:

1. *Abstract specifications*: `Forest` (a removal takes a subtree at once) for
   `MenuTree`, a map from id to content for `FileStorage`. Both are refined only up to the
   excuses the properties name, so they would have to carry them.
2. *Composition*: `EmailVerification`'s codes with `Registration`'s letter step;
   `AccessControl` as the source of `ApprovalLite`'s membership changes. The
   product of the state spaces is beyond the runs; a proof in the manner of
   `UsesMessageCenter` is the way.

## 3. Conventions

A step is one SQL statement, one `$transaction`, one Redis command or one message
to or from the broker, with the synchronous code around it. A handler that
awaits twice is two actions, linked by `pc[c]` (where call `c` is) and `call[c]`
(what it remembers). Each call runs once; `Calls` bounds how many there are.
`Fail(c)` ends a call at any await: the statement threw, or the process died.
Nothing is rolled back but a transaction. A call that is refused before its first
write leaves no trace, so the guard of its first action carries the check.

The components of section 7 and those of section 8 share no variable. They are
checked in one run each, in which `subject`, chosen in the initial state, says
which of them moves: the run explores the sum of their state spaces, not the
product, and loses no behaviour of any of them, as each property speaks of one.

A read that cannot be observed to differ from the next step's is folded into
it; the comments say so where it is done. Permission checks of the guards
run on the token's content and are constants (`Creators`, `Deciders`, ...);
those that read the database are steps.

Some definitions are preceded by a variant commented "Mutant": the bug that the
property named in `PROJECT.json` must catch. They take part in no specification.

## 4. Approvals and messages

### State and actions

| TLA+ | Code |
|---|---|
| `status`, `applicant`, `approver`, `history` | `ApprovalRequest` columns, `ApprovalAction` rows |
| `todos`, `completed`, `cancelled`, `notices`, `readNotices` | `Message` rows, their `completedAt`, `cancelledAt`, `readAt` being set |
| `todoWrites` | `completeTodo`/`cancelTodo` between check and update |
| `CreateCheck`, `CreateInsert`, `FanOut...` | `create`, its transaction, `createTodo`/`createTodoForRole` |
| `DecideRead`, `AssertCanApprove`, `DecideCommit`, `CompleteOwnTodos`, `CancelOthersTodos`, `NotifyApplicant` | `approve`, `reject` = `decide` |
| `CancelRead`, `CancelCommit`, `CancelAllTodos`, `NotifyApplicant` | `cancel` |
| `CommentRead`, `CommentInsert` | `comment` |
| `SetMembership`, `SetActive`, `SetEnabled` | user and role administration, seen from here |

`MessageCenter` has its own specification, `MessageSpec`, in which any business
statement may happen; `ApprovalLite` EXTENDS it, uses its statements as parts
of its steps, and `UsesMessageCenter` proves the composition is one of its behaviours.

### Runs

`approval_safety`: two users (ann, an administrator, and bob; both may decide),
one role, two requests, three calls, one todo click in flight, no
administration. Three calls are what the races need: create, and two
decisions or a decision and a cancellation; two requests let one call's cleanup
hit the other's todos, two users tell the caller's todo from the other's.
Nothing tells two calls or two requests apart, so SYMMETRY is used (the run has
no liveness property), and VIEW leaves out `readNotices`, which no action reads
and no property but `TypeOK` mentions.

* `HistoryAgrees`: status and log agree although two verdicts may both commit.
* `LeftoverExplained`: a pending todo on a processed request is being cleaned
  up, or a call failed there, or create was overtaken (history variable `overtaken`).
* `EveryVerdictReported`: each verdict in the log was notified once to the applicant.
* `PendingTodosUntouched`: until the verdict only the owner's click closes a todo.
* `RegisterImplemented`, `SettledIsFinal`: only calls that found the request
  pending may process it; when those are over, the status is final.

`approval_liveness`: one request, two calls, one administrative change, weak
fairness of `ContinueCall`. The event loop resumes every settled await and the
database answers or fails every statement (`Fail` needs no fairness; it may
always disable the step). No new call is assumed to come. `VerdictReachesApplicant`
and `RequestReachesApprover` are the two promises to people.

`approval_processed_once`, `approval_no_todo_left`: violated, see section 9.

### Proofs (`ApprovalLiteProofs`)

For any users, roles, requests, calls and bounds, under the named assumptions of
the module (ids, role codes and `None` are distinct; the guards name users; the
titles are the three verdicts):

* `TypeCorrect`: `TypeOK` is not inductive, as a step uses what the call
  remembers. `TypeInv` adds `CallKnows` (what is filled in at which step) and
  `RequestFilled` (a row that exists has applicant and approver).
* `PendingTodosKept` needs `CleanupAfterVerdict`: a call at a cleanup step is on a
  processed request.
* `LeftoversExplained`: `CleanupInv` adds `LateFanOut` (a fan-out still running on
  a processed request has been noted as overtaken) and `OwnTodoClosed` (when
  others' todos are being cancelled the caller's is already closed).
* `ImplementsRegister`, `SettledStaysFinal`: by simulation, step by step;
  `admitted` is the set of calls at `AdmittedSteps`.
* `HistoryNeverDisagrees`, `UsesMessageCenter`.

* `VerdictsAreReported`: by `ReportInv`, the log has as many entries of a verdict as
  there are notifications with it and calls that owe one (`Owing`: between the commit and
  `NotifyApplicant`), unless a call failed; the set of calls that have begun is finite.
  When no call on the request runs or has failed, none owes.
* The safety half of the two liveness properties. `VerdictIsNeverLost`: while a verdict
  stands, the applicant has a notification with it, or a call owes one, or a call failed
  (from `ReportInv` and `HistoryAgrees`: a status has its log entry). `TodoIsNeverLost`:
  the approver's todo exists, or the call that created the request is about to write it, or
  a call failed; inductive with `FanOutKnowsApprover`, which says that a fan-out works with
  the approver the row holds. `CallsOnlyAdvance`: every step of a call lowers `StepsLeft`.
  So what is owed is never dropped and every step brings it nearer; that the step is taken is
  the fairness of `ContinueCall`, and the leads-to itself is checked by TLC.

## 5. Sessions

### State and actions

`hashedRt[u]` is the token whose hash the row holds. A refresh token is named by
the call that made it (`jti` is a random UUID); `call[c].session` names the login
a refresh descends from. `account[u]` is the row's existence and status.
`LoginRead`, `MiniprogramLogin`, `Register` and `RefreshRead` are a handler up to its
checks, `StoreToken` is `updateRtHash`, `RecordSuccessfulLogin` and `RecordLoginLog`
the rest of `login`. `LogoutRead`/`ClearUserToken`, `ChangePasswordRead`/`Write` end
sessions; administration (`CreateUser`, `ResetPassword`, `UpdateUserStatus`,
`UpdateUser`, `RemoveUser`) is one update of the row each. The history variables
`spent`, `revoked` and `overtaken` record what the properties speak about and guard nothing.

### Runs

`auth_safety`: a password user and a WeChat user, three calls, two
administrative acts, two passwords. Three calls make login, refresh and
reuse of the first token, or a login and two calls racing on its token; two acts
disable and enable again, or reset and disable. Calls and passwords are
interchangeable, and VIEW leaves out `lastLogin` and `loginLog`, which are
written and never read.

* `SessionImplemented`: `hashedRt` implements `SessionRegister`, so a token that
  was rotated or cleared is never accepted again (and `RegisterKeepsSpent`
  derives that for the register).
* `RevokedStaysEnded`: an ended session comes back only through one of its own
  calls that was between check and write.
* `NoSessionWhileDisabled`: a disabled user gets a session only through the mini
  program login or a call overtaken by the disabling.

`auth_revocation`, `auth_disabled_login`: violated, see section 9.

### Proofs

`AuthSessionProofs` proves the three properties and the type invariant for any
users, calls and passwords. `TypeInv` adds `SessionsNamed`. The refinement rests on
`FreshTokens` (a token about to be stored was neither stored nor spent);
`RevokedStaysEnded` on `SessionInv` (whose token, whose session, and that an ended
session has no storing call left but an overtaken one); the last on
`CheckedOrOvertaken`. Steps are first classified by `StepShape`, so that the
arguments about tokens need not look at every action.

There is no liveness property: a handler that never ends loses nothing but itself.

### Abstractions

Refresh-token expiry is left out (an expired token is refused without effect).
Access tokens are checked for nothing but the user's row (`JwtStrategy`), so
`ChangePasswordRead` is open to any token ever returned. Disabled and resigned
are one status. Failed-login rows are written with the refusal. bcrypt compares 72
bytes of its input; the model takes different tokens as different.

## 6. Verification email

### State and actions

`Publish`, `SetToken`, `SetRefresh` are `sendEmailVerificationCode`; `PublishFails`
also when the broker has taken the letter. `Deliver` is the broker's delivery
with the handler's test of `attempts`; `SendMail`, `SendFails`, `AnswerLost`, `Ack`
are the handler. What the handler throws goes back to the queue unchanged: the
decorator library's default error behaviour is to requeue (external; the code
configures none). `Expire` is the queue's `x-message-ttl`, `Crash` the death of the
process, `Tick` the passing of time. The clock is discrete; times compare as
in the code, `messageTtl` (15 min) and the code's expiry being the same number there.

The code sets no retry delay, and binds no queue to the `email.dlx` exchange:
letters that expire or are dead-lettered are gone.

### Runs

`email_safety`: two letters, both TTLs 2, `MaxRetries` 1 (the code's is 3; 1 is
the least that can be exceeded), `Prefetch` 1 (20 in the code; 1 makes the limit
bite), clock up to 3 so that one letter is published while the other is half
through its life. A letter is published only if its time can run out within
the clock's bound. Fairness: time passes, the broker drops overdue letters, and a
handler ends, as nodemailer has connection and socket timeouts. Delivery is not fair.

* `FreshLetter`: what the consumer can still get has a code that registration
  accepts.
* `CodeHasLetter`: a stored code has a letter.
* `LossExplained`: a letter is lost unsent only by its TTL (or the dead letter exchange).
* `DuplicatesExplained`: sent twice only after a lost answer or ack.
* `EveryLetterLeaves`: also if no send ever succeeds.

`email_retries`: violated, see section 9.

### Proofs

`EmailVerificationProofs`: all safety properties for any letters, TTLs with
`MessageTtl <= CodeTtl` (`TtlAssumption`; equal in the code), limits and clock
bound. `CallInv` relates a producing call to letter and code, `QueueInv` the place of
the letter to what was sent and lost. `QueueInv` contains `attempts[m] = 0`: no letter
is ever dead-lettered by the retry limit.
`RetriesKeepDeadline` is the safety half of `EveryLetterLeaves`: nothing moves a letter's
deadline once it is published, past it no handler gets the letter, and what has left stays out.

## 7. The administration tables and the seed

### State and actions

`AccessControl`: a table is a function from row ids to rows, an id is never used
twice (`unused`). A call has passed the guard (`Admitted`: the caller's row exists, and
is an administrator's or reaches the endpoint's permission by its roles, enabled or
not) and carries `by`, `on`, `ids`. `SelfKeepsAdminRole` and `FindAssignableRoles` are the checks
of `users.service.ts`, `FindPermissions`, `RoleIsMutable`, `RolesAreRemovable` those of
`roles.service.ts`, `PermissionIsMutable` and `PermissionsAreMutable` those of
`permissions.service.ts`; `Insert...`, `Update...`, `Remove...` are the writes, by id.
`FindDefaultRole` and `InsertRegistered` are `createUserByWeb` and `createUserWithUnionId`,
which anybody may call: they find the role "user" by its code and connect it by its id, and
do not ask whether it is enabled (their checks of the address are in `Registration`).
What no check reads of a request is chosen where it is written. Ids of a request
are those of rows that exist when it begins: what a client saw.

The seed is one more process: `UpsertRole`, then `FindByCode`, `FindByPlace`,
`UpsertPermission` for each permission of `menuTree`, `ConnectAdmin`,
`FindRolePermissions` and `ConnectRolePermissions`, `UpsertAdminUser`, and
`migrateLegacyPermissionAliases` (`FindLegacy`, `CopyLegacyLinks`, `DeleteLegacy`). `StopSeed`
ends it anywhere and `StartSeed` runs it again. `Catalog` and `MenuTree` have
its stages for their own tables (`UpsertType`, `UpsertItem`, `UpsertConfig`;
`FindMenuByCode`, `FindMenuByPath`, `UpsertGroup`, `UpsertPermissions`, `HideLegacyMenus`). The
stages follow one another in `main`; as the modules share no variable, each lets
its own begin at any time, which is more than the code does. `prisma/seed-demo.ts:64` writes
users too, with roles it has found by code and not asked to be enabled; it is no part of a
production start (`docs/release-checklist.md:39`), and its users are outside the rows here.

`Catalog`: a call finds its row (`BeginEdit` with `Passes`) and writes in a second
statement. Items go with their type (cascade), codes and values are unique in
a type, an update may move an item. `MenuTree`: `menu` and `home` are the rows and where the
permissions are; an id, too, is never used twice (`spareMenus`). `Collect` is one query of `getChildMenuIds`; `AssertNoneManaged`,
`DeleteDescendants`, `DeleteMenu` are the rest of `remove`; `rest` is what is left of a
batch. The code walks a cycle for ever; the model stops after one query more than there
are menus, which is enough to see it. Both services of the table have the same
statements, so an action stands for both.

History variables record what the properties excuse and guard nothing: `excuse`
(`outsider`: a user without the admin role changes users; `demoted`: somebody with a call
in flight lost the admin role or was deleted; the id of a role disabled while a
call was about to give it; `relinked`: a role changed while its legacy link was migrated; `adopted`: a
row took a managed code after a call had checked it), `touched`, `frozen`, `taken`,
`late`, `knotted`.

### Run

`administration_safety`. *Access*: three roles, four permissions (one that a seed
finds by its place only, one legacy), four users of whom two have the bootstrap
address, two callers, and `MaxWork` 2 calls or runs in all: two calls, or a call and
a seed, which are what the races need. With `MaxWork` 3 (two calls in a seed, a seed that
stops and another; 2.4 million states) the same properties hold; the proofs
cover any number. *Catalog*: `MaxCatalogWork` 3, a dictionary switched off and extended by
the back office, one parameter this release closes. *Menus*: `MaxMenuWork` 2, a chain of
three own menus so that collecting takes several queries, a system menu whose place the
back office has taken. Callers are interchangeable (SYMMETRY).

* `SystemComplete`: after a seed, every managed permission exists and the admin
  role has it, whatever the back office did meanwhile.
* `AdminRoleHeld`: somebody holds the admin role unless `outsider` or `demoted`.
* `NoDisabledGrant`: a user gains a disabled role only if that very role was disabled
  between check and write, or as the default role of a registration. Both happen (section 9);
  without either exception TLC refutes the property.
* `LegacyLinksKept`: deleting the legacy permission takes nothing from a role.
* `SeededEntriesServed`: after the dictionaries' stage every seeded entry is what
  `findItemsByTypeCode` answers, unless a call changed that entry since.
* `ConfigValuesKept`: a value changes only by a call, and on a closed parameter only
  if the seed closed it under the call.
* `SystemMenusShown`: after the seed a user with a system menu's permission is
  shown it by `findMenuByUser`, unless `taken`.
* `NothingLeftBehind`: a removal brings a menu to the top level only if it was
  put there while the removal ran.
* `CollectionEnds`: no menu is asked about twice, unless `knotted`: `update` accepts any
  existing parent, the menu itself and its descendants too.

No fairness is assumed: handlers and the seed may stop at any statement, nobody
starts them again for certain, and nothing in this code promises an end.

### Proofs

`AccessControlProofs`: `AccessTypes`, `AdminRoleStaysHeld`, `SystemStaysComplete`,
`NoDisabledRoleGranted`, `LegacyLinksSurvive`, for any tables, codes, callers and bounds,
under `AccessConstants` (ids and codes are distinct, the seeds are well-formed) and
`AccessInstalled` (the tables at the start are well-formed and somebody holds the admin
role). The invariant `AccessInv` has, beside the types and the unique codes:

* per call, what a check has left behind: `RoleInv` (a role about to be written is no
  admin role, so admin roles are neither renamed nor removed), `GrantInv` (roles about to be
  given are enabled or in `excuse`, and a registration's is the default role), `HolderInv` (who changes users holds the admin role and keeps it),
  `MutableInv` (permissions about to be written are not managed);
* for the seed: `AdminInv` (the admin role it has upserted is one, enabled),
  `SeedingInv` (the permissions behind the loop are in place, and what it found for
  the next is none of them), `CompleteInv`, `LegacyInv` (links are copied before the row goes).

The excuse `adopted` was found here. The code checks what a permission's code *is* and
not what it *becomes*, and writes by id: with two calls, one renames a row to a managed code
after the other has checked it for deletion, the seed takes the row for its own, and the
deletion takes it away. It needs three pieces of work, one more than the run has.

`CatalogProofs` (`CatalogTypes`, `SeedServesEntries`, `ValuesAreKept`), under `CatalogConstants`,
`CatalogIds` (an id names a row of one table only), `DictSeedsDiffer` (`dictTypeSeeds` lists no
item of a type twice) and `CatalogInstalled` (items at the start have a type). `CatalogInv`: `Behind`, every entry behind the loop's index is served unless
touched, is kept by a call because a call that changes it touches it, and by the seed because
the next entry's item is another row (`DictSeedsDiffer`); `CurrentType` and `RenamedType` say
that the type the seed is filling is there, enabled and under its code, and no other seeded
type's, unless its entries are touched; `EditsOpen`, that a parameter a
call is about to write was open or is in `frozen`.

`MenuTreeProofs`, for any set of menus, any tree of the seed and any number of calls, under
`MenuConstants`, `MenusInstalled` (the two constraints of the table hold at the start) and
`MenuSeedTree` (what `menuTree` and `system-managed.ts` are like: same codes, no code or path
twice or hidden as legacy, three levels, a shown menu under shown ones). `MenuInv` is
checked by TLC on the run's instance with two and three pieces of work, and has four parts
beside the types (`MenuTypes`):

* `FamilyKnown` gives `NothingIsLeftBehind`: a removal has collected all children of every
  menu it has asked about, but for those put there `late`; so what it deletes is closed under
  children when `todo` is empty, and the descendants go before the menu.
* `WalksEnd` gives `CollectionsEnd`: while there is no knot, `todo` has no menu twice and the
  queries made are no more than the menus asked about. That a child is never a menu already
  gathered needs the menus *above* the walk: `Apart` names a set, closed under parents, that holds
  the ancestors of the menu to be removed and nothing gathered. `AncestorsApart` finds it where
  there is no loop, and it shrinks with the table.
* `CodesUnique` and `SystemStands` give `SystemMenusStayShown`: every entry the seed has
  written stands (row, path, visibility, and under the row of its parent's code), the seed knows
  where, the row it updates next is none of them, and no call holds a system menu it is
  about to update or delete, unless `taken`.

The proof found three faults of an earlier model. Its ids were used again, so that a removal could
delete a menu created later under a collected id, which a sequence does not allow. `taken` left out
a row that gets a system code through `update` (`assertNotSystemManagedMenu` looks at the code the row
*has*). And the seed's entries had no `visible`.

## 8. Services around the database, and the demo seed

### State and actions

`FileStorage`: an upload has two strands, `upload[u]` (bucket, conversion, original, two
thumbnails, wait, row) and `gps[u]` (`extractGPSInfo`, called and awaited only at the end).
The temporary file is named after a millisecond (`Times`), so two uploads may share it;
`found` is whose photo was read. `removal` covers the file center (object, then row) and
images (photos in any order, those that fail are left, then the row). An image names
paths its client has been answered about, a file's included. The original's path has a
timestamp and a random number and is taken as unique.

`AuditLog`: `request` is the interceptor, `lookup` its `handleIpGeoLocation` (not awaited),
`logJob` and `geoJob` the Bull jobs, `bare[r]` that a row of `r` has no location. Bull
(external) retries a failed geo job up to `Attempts` times, a log job not at all, and gives a
stalled job to another worker once. One address: addresses share nothing. Nothing is bounded.

`Registration`: `client[c]` is where a client is between captcha and account, `signup` the
form in Redis under the phone number, `account` the rows of users. `createUserByWeb` is
`FindEmail`, `FindPhone`, `FindRole`, `CreateUser`. That the codes match is taken for granted:
a wrong one is refused and leaves no trace. `AdminFindsEmail`, `AdminCreates`,
`AdminUpdates`, `AdminRemoves` are the user administration, which stores an address as typed.

`DemoSeed`: `seedStep` is the statement the script comes to; `decision` is `decide` or `cancel`
of the application (the details are in `ApprovalLite`), `CompleteTodo` a click.

### Runs

`services_safety`: two uploads with two milliseconds, one image, one removal;
two requests and two attempts; two clients, three addresses of which two differ in case,
two numbers; two runs of the demo seed (`MaxRuns`). Two of each is what sharing a
temporary file, an address, a form or the demo rows needs.

* `FilesAgree`: what the file center lists is stored, but for removals that got no
  further than the object or were an image's; what it has marked deleted is not stored.
  The rows are those of uploads: `prisma/seed-demo.ts:361-383` lists two more that by their own
  description have no object, and their download fails. Objects without a row, which a
  failed upload leaves, and the success of a retried removal are not looked at.
* `LocationIsOwn`: the answered location is of the upload's own photo, unless the
  millisecond was shared.
* `LocationsFilled`: a row without location has an UPDATE still to come, unless a
  lookup or geo job failed, the row was on its way during the UPDATE, the Redis entry expired
  during the request, or the request ended with an error (those never read the location).
* `SignupKept`: the account is that of the client's form, unless another sign-up with
  its number came between or the administration wrote its address.
* `OneAccountPerAddress`: registrations never make two accounts of one address.
* `DemoRestored`: after a complete run the demo data are those of that run.

No fairness here either. The system log would be the place for a liveness property, but Bull's
workers may be off for longer than Redis keeps the entry, and every excuse above may recur.

`demo_todo`: violated, see section 9.

### Proofs

All in `ServicesProofs`, one part per module, for any instance.

`FileStorage` (`StorageTypes`, `FilesAndObjectsAgree`, `LocationsAreOwn`): `UploadInv` (from
the first thumbnail on the original is stored unless it is gone), `RemovalInv` (a removal at its row
has deleted the object), `TempInv` (a temporary file is of a strand with that millisecond, and
who shares a millisecond is in `shared`).

`AuditLog` (`AuditTypes`, `EveryLocationFilled`): `Asked(r)` says that who has not read the
location yet will find it or has asked for it; `Late(r)`, that a row is there or on its way without
it, implies that for some request an UPDATE is `Coming` or has failed. Any requests, any attempts.

`Registration` (`RegistrationTypes`, `EverySignupKept`, `AddressesDiffer`): `FormInv` (the form
in Redis is the client's until it is replaced), `LoweredInv` (accounts nobody typed are in lower case).

`DemoSeed` (`DemoSeedRestores`): `DemoInv` follows the script: what is reset so far is empty but for
what the application wrote since, and what is rebuilt so far is there once, of this run (`Made`,
`Told`, `Posted`); a request whose decision has been committed is in `used`.

## 9. Where code and documentation disagree

With a run that shows it:

* `ProcessedOnce`: two decisions that both read PENDING both commit and both
  notify. The documentation says a processed request cannot be processed again.
* `NoTodoLeft`: a request processed before its todos exist keeps a pending todo.
* `RevocationEndsSessions`: a login or refresh past its check stores its token
  after the logout, password change or disabling.
* `DisabledCannotLogIn`: the mini program login ignores the status.
* `RetriesBounded`: `maxRetries` has no effect.
* `DemoTodoCloses`: the demo request's todo is kept under an id no decision looks for.

`PROJECT.json` quotes the lines. Met while modelling, without a run:

* `docs/permission-model.md:36`: access needs "at least one required permission";
  `checkUserPermissions` asks for `every` one. No endpoint requires two.
* `docs/permissions.md:45`: the back office should not edit or delete what the
  seed maintains; `auth.users.disable` and `auth.users.resetPassword` are in `menuTree` but not in
  `systemManagedPermissionCodes`, so they can be, and come back with the next seed.
* `system-log.interceptor.ts:73`: login and registration requests go straight to the geo
  queue. These routes are public and have no `request.user`, without which the
  interceptor does nothing.
* `users.service.ts:30` makes sure that the address is unique: it searches in lower case
  and stores as typed. Hence the exception in `OneAccountPerAddress`.
* `auth.controller.ts:210`: `registerByEmail` logs an existing user in; with capitals in the
  address it does not find the user and then answers that the address is in use.
* `users.service.ts:452`: "不能分配已停用的角色" (a disabled role cannot be assigned) is the
  rule the back office goes by. A disabled role is given all the same: by the race between
  this check and the write, and, without any race, to everybody who registers or comes in by the
  mini program for the first time (`users.service.ts:84-98`, `:109-125`), once an
  administrator has disabled "user". Hence the two exceptions in `NoDisabledGrant`.
* `docs/deployment.md:119`: the demo seed is idempotent; messages the application wrote about
  an earlier run's requests stay (the last exception in `DemoRestored`).

## 10. Only model-checked, and not modelled

*Only model-checked*: the liveness properties (`VerdictReachesApplicant`,
`RequestReachesApprover`, `EveryLetterLeaves`), since the prover handles neither
fairness with ENABLED nor leads-to from it (what they rest on besides fairness is proved:
`VerdictIsNeverLost`, `TodoIsNeverLost`, `CallsOnlyAdvance`, `RetriesKeepDeadline`); the
violated properties, of which the counterexample is the evidence. Every other property of the runs is a theorem.

*Not modelled inside modelled components*: listing, filtering and export; profile
fields and avatars; deletion of users or requests with its cascades as approvals
see them; the instants of `completedAt` and `cancelledAt` (racing clicks may set
both; no document excludes it); the WeChat client, whose answer is an input, and
its QR codes; the row a first mini program login makes, other than its role
(`AccessControl`); the notification queue, which has the same
handler and no producer; `handleError` and `sendToDeadLetter`'s swallowed publish
errors; the buffering of `amqp-connection-manager` across reconnects; the write
`emailRefresh:*`, which is a step without effect as nothing reads it; presigned URLs,
`moveFile` and `checkHealth` of the storage; that thumbnails outlive their
original (`deleteFile` deletes the original only); whether captcha and short-message
codes match; for approvals, sessions and email, more than one server process.

*Components not modelled*: articles are CRUD without a rule; the log listing, the
dashboard, diagnostics and metrics read only; the wrappers keep no state; migrations are
Prisma's. The constraints of the schema are in the models as guards and effects.

## 11. Running

    tlc -workers 2 -config ApprovalSafety.cfg MCApprovalLite.tla
    tlc -workers 2 -config AdministrationSafety.cfg MCAdministration.tla
    tlapm MenuTreeProofs.tla

Deadlock checking is off in every run: each call runs once, work, runs and the
clock have bounds, and a system with nothing left to do stops.
The passing runs explore 380,000 (`ApprovalSafety`), 73,000 (`ApprovalLiveness`),
630,000 (`AuthSafety`), 910,000 (`EmailSafety`), 206,000 (`AdministrationSafety`) and
540,000 (`ServicesSafety`) distinct states, none longer than a few minutes.
