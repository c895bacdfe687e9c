# Kuybi: a verification project

TLA+ models of the Kuybi back end (`src/src`, a NestJS API and its worker processes over
PostgreSQL, Redis and S3), the TLC instances that check them and TLAPS proofs about
them. Every action is translated from the code; `PROJECT.json` maps each definition to
the lines it stands for. Paths below are relative to `src/src` unless they start with
`docs/`.

## 1. Inventory

The program is a set of API processes and worker processes that share nothing but
PostgreSQL, Redis (cache, BullMQ queues, token blacklist, throttling) and S3. What is
hard is always the same: a handler awaits between two statements, other processes run in
between, either side of a statement can fail or time out without the caller knowing
whether it took effect, and any process may die.

| Component | State | Operations | Interacts with | What is hard | What makes it correct |
|---|---|---|---|---|---|
| Idempotency keys (`core/idempotency`) | `idempotency_keys` rows with a lock, a lease and a TTL | begin, renew, complete, release, prune; the interceptor | every mutating endpoint that opts in | retries racing a slow first request; death between claim and outcome; late statements of a superseded request | one handler at a time; a stored outcome is final; a replay belongs to the same request; no key stays in progress for ever |
| Transactional outbox (`core/outbox`) | `outbox_messages`, BullMQ jobs, open transactions of relays | enqueue, relay (claim, dispatch, save), prune | registration, reset, attachments, stories call `enqueue`; queues receive jobs | Redis and PostgreSQL commit separately; several relays; time-outs that do not cancel | a job exists only for a committed change; none is lost; data reaches the job; every message settles |
| Cache and its tags (`core/cache`, `base.repository.ts`) | Redis entries, tag sets, fences; the rows in PostgreSQL | read-through fill, `setWithTags`, `invalidateTag(s)`, writes of repositories | every repository; embedded rows of other entities | a fill that read before a write and stores after its invalidation; lost invalidations; expiry; Redis restarts | what is cached is current, or an invalidation that reaches it is still to come |
| Sessions and tokens (`modules/auth`) | `sessions`, credentials version, blacklist | login, refresh (rotation), logout, revoke | users, lockout, cache, outbox | concurrent logins and refreshes; credential changes while a login awaits; counts and lists that come from the cache | a token rotates once and then dies; a reset ends every session, those being opened too (the limit of sessions is best effort: no lock is taken) |
| Account lockout (`account-lockout.service.ts`) | failed-login counter, lock fields, delayed unlock and reset jobs | failed login, successful login, unlock, sweep, admin unlock | queues, users | stale jobs, non-atomic rescheduling, races with login | lock at the threshold; nothing ends a lock before its end; a lock ends |
| Attachments (`modules/attachments`) | `attachments` rows, stored objects, jobs | direct upload, multipart upload, processing, visibility, main images of stories, delete, restore, sweep | stories, S3, outbox, cache | S3 and the row change separately; crashes half way; the client can replace what was verified | no image is public with its metadata, but for main images of stories; the objects' access lists agree with the row; what is completed was verified |
| Stories and versions (`modules/stories`) | stories with a version, their links, `story_versions` | create, edit, status, links, image, rollback, branch, merge, tag, remove, restore, prune | access, categories, tags, attachments | optimistic locking on a row read awaits ago, pruning beside writers | an edit changes what its author saw; versions are numbered in order; pruning cuts no history; authors do not publish |
| Post types and content (`modules/post-types`) | types, field definitions, entries | CRUD of types and fields, create, edit, publish, schedule, the publishing job, the seeder | access | uniqueness of a field value under an advisory lock; saves of rows read awaits ago | unique values are unique; an edit takes nothing back; only publishers publish |
| Access control (`modules/acl`, `user-roles.service.ts`) | permissions, roles, assignments with an expiry, primary roles | rules and checks, list filters, CRUD of roles and permissions, assigning roles, the seeder | every guarded route | the filter of a list and the check of one record are different code; the guard reads before the service writes | a list shows what its reader may read; only a super-admin makes super-admins |
| Circuit breaker, time-outs (`shared/utils/resilience.ts`) | state, failures, window, generation, probes in flight | run, success, failure, probe | SMTP, S3 and Redis clients | calls that started in an earlier state | opens at the threshold; probes are given back; old results do not count |
| Queues, processors, dead letters (`core/queues`), email (`infrastructure/email`) | BullMQ jobs, dead-letter queue, the SMTP breaker | process, retry, stall, fail, report, retry and clean by hand | outbox, circuit breaker, SMTP | a failure between final failure and report; SMTP answering too late | a completed email was sent; a job failed for good is reported |
| Users and their administration (`modules/users`) | rows | CRUD, admin lock and reset | sessions, lockout, cache | admin actions racing logins | see sessions and lockout |
| Categories, tags and countries | rows, soft delete | CRUD | stories | names and slugs freed by deletion and taken again by restoring | a name is used once |
| Token blacklist; registration and password policy; audit trail; throttling; processes, shutdown and configuration; health, logging, metrics; migrations; web API | own rows, counters or none | — | — | little or none | — |

`PROJECT.json` lists every component with its sources and status, and under "hazards"
what in this code a test would hardly reach, line by line, with the properties that
cover it.

## 2. Plan

Modules were ordered by how much of the rest of the program relies on the component. All
that were planned are written.

1. **Idempotency** — `Idempotency`, `IdempotencyProofs`.
2. **Outbox** — `Outbox` implements the abstract `Delivery`; `DeliveryProofs`.
3. **Cache** — `Cache`.
4. **Sessions** — `Sessions`. It uses what `Cache` establishes (an overtaken fill is not
   stored) to treat a fill as one step; `CacheSessionsProofs` has the proofs of both.
5. **Lockout** — `Lockout`, `LockoutProofs`.
6. **Attachments** — `FileValidation` (pure), `Attachments`, `AttachmentsProofs`.
7. **Access control** — `Abilities` (pure: rules, checks, list filters), `AclSeed` (the
   seeded roles), `Access` (their changes), `AccessProofs`; `Principals` gives the
   two modules below the abilities of their users.
8. **Stories** — `Taxonomy` (tags and categories), `Stories`, and `StoryVersions`, which
   composes them with `Principals` and the history; `StoryVersionsProofs`.
9. **Content** — `FieldValidators` (pure), `PostTypes`, and `Content`, which composes
   them with `Principals`; `ContentProofs`.
10. **Circuit breaker and email** — `CircuitBreaker`, and `Mail`, which composes the
    breaker with the queue, its worker and the dead letters, and implements the
    breaker's specification; `DeliveryProofs` (of both, and of the outbox).

What could come next: Redis restarting with its data lost or restored (cache); the
extension and the clean-up of sessions and the token blacklist (sessions); the outbox
and the mail queue as one delivery chain, so that `Delivery` reaches from the committed
change to SMTP; the audit trail and throttling.

## 3. Modules and code

Every module keeps one step per statement sent to PostgreSQL or Redis, with the code up
to the next `await`. Whatever a process does between two awaits is atomic in Node.js;
everything else interleaves. Data is abstracted to what the properties tell apart:
random identifiers are the request that draws them, fingerprints, passwords and payloads
are model values, times are ages in ticks that stop growing beyond the largest value
they are compared with.

### Idempotency (`core/idempotency`)

`rows` is the table `idempotency_keys` by its unique index (scope, key). A request
stands (`pc`) at one of the statements of `IdempotencyService.begin` — `Insert`, `Look`,
`DeleteExpired`, `TakeOverAbandoned`, with the loop of two rounds as `Again` —, at its
handler (`running`), or at what the interceptor does with the outcome: `Store` (with its
attempts), `Record` for a 4xx, `Release` for a failure. `Beat` is the heartbeat,
`PruneExpired` the cron job, `Die` the death of a process. A statement that fails may
have been applied: `BeginFails`, `Store`, `Record` and `Release` leave the choice open.
`stored`, `beatAge` and `rowLife` are history.

### Outbox (`core/outbox`) and Delivery

`Enqueue`, `Commit` and `Rollback` are the transaction of a change that enqueues a
message; `Claim` … `SaveFails` is one cycle of `OutboxRelay.relayBatch`, with the
outcomes of an `add` that resolves (`Dispatch`), rejects (`DispatchFails`) or is given
up (`DispatchTimesOut`; Redis executes it later or never, `LateAdd`). Row locks are
`Locks`, and remain with a dead process (`orphans`) until PostgreSQL drops its
connection. `jobs` is what Redis knows under the message's id: BullMQ ignores an `add`
of an id it has, and forgets it when the finished job is removed (`Remove`). BullMQ
itself is external: it is modelled from how the code uses it.

`Delivery` is what a user of the outbox is promised: a committed message is handed over
before it is recorded as dispatched, or parked; a change that is rolled back leaves no
job. `Outbox` implements it with `outcome`, `handed` and `record` computed from
`change`, `queued` and `rows` (instance `Promise`).

### Cache (`core/cache`, `base.repository.ts`)

The cached entity has rows, a list and a selection (a query that returns one row), and
its rows embed parts of another entity; stories with their categories are the instance
in mind. A fill is `Fence` (the current invalidation number is taken), `Load`, then
`Send`, which looks at the age of the fence (`MAX_FILL_MS`) as `base.repository.ts:95` does
before it sends the script of `setWithTags`, and `Store`, Redis executing it: it refuses
what an invalidation overtook, as far as it still knows. `withTimeout` does not cancel a
command, so `Store` may come at any time after `Send`; `wait` counts until the caller stops
waiting (`CallTimeout`), and `overdue` is history: the entries stored after that, when the
record of an invalidation may have expired. `GiveUp` is a fill that sends nothing or whose
command is lost. A write commits in PostgreSQL and owes an invalidation for each of its
tags, which is executed (`Invalidate`), fails or dies (`InvalidateFails`) or comes late
(`InvalidateLate`). `Tick` makes entries, tag sets and invalidation records expire.

### Sessions (`modules/auth`, `modules/users`)

One user, its row (`user`), its `sessions` in order of creation, its reset links, what
Redis caches about it (`cache`), and request slots that run one request after another.
The places of a request follow the methods:

| Code | Actions |
|---|---|
| `AuthService.validateUser`, `login` | `Login`, `CheckLock`, `Verify`, `Rehash`, then `createSession` |
| `SessionsService.createSession`, `makeRoomForNewSession` | `CountSessions`, `ListSessions`, `EvictOldest`, `InsertSession` |
| `AuthService.refresh`, `SessionsService.refreshSession` | `Refresh`, `CheckOwner`, `Recheck`, `Rotate`, then `createSession` |
| `AuthService.logout` | `Logout`, then `LogoutSession` or `RevokeAll` |
| `PasswordResetService` | `SendLink`, `StartReset`, `ResetPassword` |
| `PasswordChangeService` | `StartChange`, `ChangePassword` |
| `AdminPasswordManagementService` | `StartAdminReset`, `AdminRevoke`, `AdminCommit` |
| `AdminUserManagementService` | `Suspend`, then `RevokeAll`; `Reinstate` |
| `JwtStrategy.validate`, `isUsableForAccess` | `Accepted`, `Usable`, `UseToken` |
| invalidation after each write | `Drop`, `DropLost` |

`Die` ends a request anywhere; the transaction of an administrator's reset is then
rolled back while the sessions its listener ended stay ended. `checked` (in a session
and in a request) and `newest` are history: the version of the credentials under which
the password was verified, and the password set last.

### Lockout (`account-lockout.service.ts`, `account-security.processor.ts`)

`user` is the row's counter and lock; `unlockJobs` and `resetJob` are the delayed jobs in
BullMQ. Sign-ins (`Requests`) and workers stand (`at`) at their awaits: checking the lock,
verifying, the atomic increment, the lock, the job's addition — which can fail after the
lock is committed —, and the four Redis calls that reschedule the reset job. A worker
takes an unlock job or the sweep's candidates, reads the row, and unlocks under the
code's condition (`UnlockRead`, `UnlockWrite`). `AdminUpdate` locks, unlocks or sets the
counter. `waived` is history: the counter stands where it is for another reason than a
sign-in's failure (an administrator set it, or the sign-in that owed the lock died).

### Attachments (`modules/attachments`) and FileValidation

One file: its `row`, its stored `objects` by key (the upload key, the file, its
variants) with what is in them and whether they are public, the jobs, and the calls that
were given up but may still be served (`ServeLate`). `torn` is history: a change of
access lists or a deletion broke off half way. So is `shown`: a story made the image its
main one before it was processed (`"raw"`), or while somebody was changing it
(`"crossed"`, until the next change under the lock gives every object its visibility
again). `FileValidation` is what
`file-validation.service.ts` accepts: declared type, size and name, detected type, and
the text whose head is cut in the middle of a character (`WithoutPartialUtf8Tail`); bytes
are the classes UTF-8 distinguishes. The places follow the code:

| Code | Actions |
|---|---|
| `DirectUploadService` initiate, complete | `Initiate`, `AskComplete`, `Claim`, `HeadObject`, `SniffContent`, `CopyIfUnchanged`, `DropUpload`, `Publish`, `Commit`; `Reopen`, `Unclaim`, `RejectKeys`, `RejectRow` |
| the client's upload to S3 | `Post` (external), at any time the upload is open |
| multipart upload | `UploadAttachment` (stored at once), `UploadAttachmentAsync` |
| `AttachmentVisibilityService`, delete, restore | `AskChange`, `LockRow`, `SetAcl`, `Save`, `GiveUpChange` |
| `hardDelete`, sweep of abandoned uploads | `AskHardDelete`, `PurgeKey`, `PurgeRow`; `FindAbandoned`, `RemoveAbandoned`, `RemoveObjects` |
| `StoryMediaService.updateMainImage`, which takes no lock | `AskMainImage`, `ShowImage` (one object at a time), `FlagImage`, `GiveUpImage` |
| `AttachmentProcessor` | `StartJob`, `Replace`, `Derive`, `Finish`, `JobFails`, `MarkFailed`, `WorkerDies` |

### Abilities, AclSeed, Access, Principals (`modules/acl`, `modules/users`)

`Abilities` is CASL as the code uses it: the rules of a user's permissions with `Me` for the
interpolated id: rules stand at positions, and of two the one at the higher position has
priority; `CanRecord` for one record and `RecordScope` (`record-scope.ts`) for the filter of
a list. `AclSeed` is `acl.seeder.ts`: permissions, roles, grants, and what a second seeding
adds or takes away. `Access` has the tables `permissions`, `roles` (each with what it
grants), `assigned` and `primary`; the requests that assign, revoke, activate or switch
roles go through `Authenticate`, `RoleHierarchyGuard` (`RankRole`, `RankUser`),
`FindAssignment` and the write, one await at a time. The guard ranks the role of the body
before that of the route, though activating, revoking and deactivating act on the route's: a
request may have its own role ranked or another (`ranked`). Meanwhile `Administer` makes any
change of roles and permissions a super-admin can make, assignments expire, and the seeder
runs and dies between its statements. `Principals` gives each user of the modules below the
ability of fixed permissions.

### Taxonomy, Stories, StoryVersions (`modules/stories`, `modules/tags`, `modules/categories`)

Rows of stories carry their links; labels (tags, categories) and the files they link to are
rows of their own. A request (`my`) reads the story, checks access and the status
transition (`Create`, `Edit`, `SetStatus`, `Remove`, `Restore`, `ChangeLinks`,
`SetImage`, `HardDelete`), and goes on one await at a time: the lineage of a new parent
(`CheckParent`), the labels it names (`ResolveLabels`, which creates missing tags), the
locked write (`Lock`, `Save`, `Insert`, `WriteStatus`, `WriteLinks`, `WriteImage`), and for
an edit the version it records (`ReadBack`, `CompareWithLatest`, `InsertVersion` with the
number taken under the advisory lock). `StoryVersions` adds explicit versions, rollbacks,
branches, merges and tags, and the daily prune: `PruneSelect` picks the doomed and
`PruneCommit` re-points and deletes, with requests between. `End` is a request that is
refused, fails or dies at any await. Access checks are `Principals`' on the row as read.

### FieldValidators, PostTypes, Content (`modules/post-types`)

`FieldValidators` is one operator per validator (text to group), each the set of error
codes it gives; a value is a record of what the validators look at (length, pattern,
number, day), and `Sanitized` is what is stored. `PostTypes` is the registry of types and
fields with slugs, reserved names, ordering and the seeder. In `Content` a request reads
the entry and the type, validates against the fields as read (`ReadFields`), looks for
duplicates under the advisory lock (`Check`, `Conflicts`), finds a slug, and writes
(`Insert`, `Save`, `StatusChange`, `MarkDeleted`); changes of types and fields, the
publishing job and the clock run between its steps. The body of an update may name any
version, as in the code: the statement compares that with the row, and what it saves is the
row as the request read it, so a body that names a later version (`Ahead`) can write an
earlier state back. `unsure` is history: the names under which an
entry may repeat a value, because its writer read the field before it was unique, because
it came back from a deletion, or because a later version was named for it.

### CircuitBreaker and Mail (`shared/utils/resilience.ts`, `core/queues`, `infrastructure/email`)

`CircuitBreaker` is the class: any number of calls begin (`Begin`), end well, badly or
too late, and count only in the generation they began in; probes of the half-open state
are taken and given back. `opened` and `passed` are history: the opening a call began
after, and the successes since. `Mail` has the email jobs as BullMQ keeps them (attempts,
backoff, stalled), a worker with `concurrency` slots whose every call of SMTP is
`Begin`/`End` of the breaker, its `failed` events that report a dead letter, crashes that
lose the breaker's memory (`Renew`) and the reports under way, and the operator's retry
and clean. Its next-state relation restricts that of the breaker, which is why `Mail`
implements `BreakerSpec`.

## 4. Runs

| Run | Instance | Shows |
|---|---|---|
| `idempotency` | 3 requests, 1 key, 2 fingerprints, lease 1, TTL 3, 2 attempts to store | the holder keeps its key while it beats in time (`HolderUnlessLapsed`), a stored outcome stands (`OutcomeKept`), replays are faithful (`ReplayFaithful`), nothing completed runs again (`NeverRunAgain`) |
| `idempotency_live` | 2 requests | an abandoned key is taken over or removed (`AbandonedKeyFreed`) |
| `outbox` | 2 messages, 2 relays, batches of 2, 2 attempts, 1 fault | jobs only for committed changes (`JobOnlyIfCommitted`), none lost (`HandedOver`), none without its data (`DataKept`), fair charging of attempts (`ChargedForTries`), settled rows stay settled (`Settled`) |
| `outbox_live` | 2 messages, 1 relay, batches of 1 | every committed message settles (`EventuallySettled`); `Outbox` implements `Delivery` with its liveness (`PromiseKept`) |
| `cache` | 1 row, a list, a selection, 1 part, 2 fills, 1 write | entries stay in their tag sets (`Tracked`), and are stale only while an invalidation is outstanding or lost, or when the fill that stored them was executed after its caller had given it up and the records of invalidations had expired (`StaleOnlyWhilePending`) |
| `sessions` | 2 requests at a time, limit 1, 3 sessions, 1 reset, 1 link, 2 passwords | a reset voids what is being opened (`ResetVoids`), one successor per token (`OneSuccessor`), the rotated session is over (`RotatedIsOver`), ended sessions' tokens pass only until the invalidation (`TokenDiesWithSession`) |
| `lockout` | 2 sign-ins, 1 worker, threshold 2, durations of 1, 1 unlock job at a time | a counter at the threshold means a lock, or a sign-in about to lock (`LockedAtThreshold`); none but the administrator lifts a lock before its end (`LockHolds`); each lock with an end is lifted (`LocksEnd`) |
| `attachments` | an image, a text and two invalid files; one request completes an upload or makes the photo a main image, one changes; worker and sweep | no image is public before its metadata is stripped, unless a story took it as its main image before (`RawStaysPrivate`), the access lists of a processed image agree with its row when nothing is under way or broke off, unless it became a main image while another was changing it (`AclFollowsRow`), a completed file is what was verified (`CompletedIsVerified`), no valid file is rejected for the cut of its head (`OnlyInvalidRejected`) |
| `story_versions` | 2 requests of 3 users, 3 stories, 7 versions, prune in batches of 2 | an edit is written over what its author saw (`EditsApplyToWhatWasRead`), only editors publish (`PublishedByEditors`), numbers grow along parents (`NumberedInOrder`), a prune takes from a version's ancestors only what it deletes, unless one was made from a deleted version meanwhile (`PruningKeepsAncestors`), `TypeOK` |
| `content` | 2 requests of 3 users, 4 entries, 2 ticks | unique values hold (`UniqueValuesHold`), only publishers publish, now or by a date (`PublishedByPublishers`), an edit leaves alone what it does not change (`EditsKeepTheRest`), each unless an update named a later version than the one it read; `TypeOK` |
| `access` | a super-admin, a role that assigns roles, a user; 1 request at a time and at most 2, 4 roles | lists show what is readable (`ListsShowWhatIsReadable`), only a super-admin makes super-admins, unless by activating an assignment for a body that names another role than the route (`OnlySuperAdminsMakeSuperAdmins`) |
| `mail` | 2 jobs, 2 attempts, 2 slots, threshold 2, 1 probe, 2 successes to close, 2 faults | probes are accounted for (`ProbesAccounted`), the circuit closes on probes of this opening (`ClosesOnProbes`), completed emails were sent (`CompletedWasSent`), failed jobs are reported (`DeadLettered`) |

Type invariants are checked where they say more than types: `TypeOK` of `story_versions`
says that no row refers to one that is gone, `TypeOK` of `content` that live names and slugs
are unique (not that the type of a field or an entry is still there). The type invariants of
all state machines are proved.

Deadlock is checked in `access`, where time and the administrator always go on, and in
`lockout`. The other instances are finite (a request, message, session, entry or version
number is used once, or faults and ticks are bounded), so the systems do stop when
everything has run; that components keep moving is what the liveness properties say.

### Bounds, and why they are enough

- *Idempotency.* Three requests are a first one, one that takes its key over and one
  that comes to either; a fourth could only repeat one of these parts. Keys do not
  interact, so one is enough. `Lease < Ttl` as configured (60 seconds and a day), and a
  TTL of 3 leaves room for a takeover within it. Ages stop one past what they are
  compared with; nothing else bounds time.
- *Outbox.* Two messages so that a batch has a part that is left alone, two relays so
  that claims compete, two attempts so that there is one that is and one that is not the
  last. `MaxFaults` bounds crashes and lost transactions; the proofs hold for every
  bound.
- *Cache.* `MaxWrites` is one write with all its invalidations in any order, late or lost;
  two fills overlap it. TTLs differ (2 for the list, 1 for the others), because only entries
  of different TTLs can outlive a tag set. `CallTimeout` is 0, the least that separates a
  command in time from a late one. The constraint `OneCached` stops exploration behind states
  (they are checked) with two cached entries, which meet only in tag sets; with an overdue
  entry, which is what the property excepts; where an overdue command meets another fill;
  where a fill can only give up, as it could before; and where one invalidation is lost and
  another still owed, which may come as late as the lost one. The view keeps of the
  invalidations a fill could be refused by what decides when it is, and not their numbers.
  The proofs need none of these bounds.
- *Sessions.* A limit of one makes every second sign-in evict; three sessions are an old
  one, its successor and a rival. `Constraint` keeps one value in the cache at a time,
  one peculiarity of the account at a time (low-cost hash, forced change, lock,
  deactivation, link, expired session), and one logout, change or administrator's
  request beside sign-ins, refreshes and resets by link. `Canonical` leaves out locals
  no later step reads and history of ended sessions no property reads. The proofs need
  neither.
- *Lockout.* The account is one user's; two sign-ins race for the threshold of two, with
  a worker and the administrator beside them. `MaxFailed` is one failure past the
  threshold, `MaxUnlockJobs` the unlock jobs waiting at a time; slots of sign-ins are used
  again without end, which is what makes the liveness property worth checking. The proofs
  of the safety properties hold for any number of sign-ins, any threshold and periods.
- *Attachments.* Everything concerns one file. One request completes, one changes, deletes
  or restores it: the code takes the row's lock between two changes, so two changes only
  take turns. The completing request is also the one that makes the file a main image, since
  that comes after the upload (`Showing`). `Bounded` does not go on from states with more
  than two late calls, nor from a claim that comes after the upload was checked; the view
  forgets the age and the upload key of a file that is not uploading. The photo carries
  metadata; the text is one byte longer than the head that is sniffed of it, cut within a
  character; the other text is invalid only behind its head. The proofs need none of these
  bounds.
- *Story versions.* `MaxServed` is two overlapping requests, each of any kind and by any
  of three users, beside the daily prune, over a draft with a history (by hand, three
  automatic ones, a branch) and its reply; `keepAutoVersions` and `PRUNE_BATCH` are small
  enough that the prune works in two batches. Two requests are what races here: a third
  only meets rows the two have left.
- *Content.* `MaxServed` is two requests; three were checked once (1.66 million states)
  with the same results. One unique field, two entries whose values collide or not, one of
  them scheduled; `MaxNow` lets the publishing job find one due and one not. Bodies
  may name version 2 (`Versions`), which is later than the first of an entry.
- *Access.* One request of a user runs at a time (`Requests`), and `MaxServed` lets two
  change something, while the super-admin changes whatever they may: what a request races
  with is the super-admin, expiry and the seeder, as rows it assigns are locked by none; one
  extra priority and two new permissions (a refusal, and a grant written as a query) are
  what the rank and the filter distinguish. The proofs need none of these bounds, nor the
  roles and permissions of this seed.
- *Mail.* Two jobs so that one's failure opens the circuit the other meets; two successes
  and one probe so that closing takes more than a call; `MaxMailFaults` bounds crashes and
  manual retries. The view forgets the numbers of generations and openings, of which only
  equality is ever read. The proofs need none of these bounds.
- *Symmetry* is used in runs of invariants and action properties, never with liveness.

### Fairness

- `idempotency_live`: a live process executes its next statement (weak fairness of each
  step of `begin` and of the storing of an outcome), time passes, and cron runs
  (`@Cron(EVERY_HOUR)`). Nothing is assumed of arrivals, of handlers that end, of
  heartbeats or of deaths.
- `outbox_live`: the relay polls every second (`setInterval`) and each of its awaits is
  bounded (`withTimeout`, statement time-outs), so a relay that can move does; a worker
  that died is restarted and its connection dropped; backoffs pass. Nothing is assumed
  of Redis: every dispatch may fail.
- `lockout`: time passes, a worker goes on with the job it holds (weak fairness), the sweep
  comes round again and again (a repeatable job; strong fairness of `StartSweep`), and
  PostgreSQL does not fail every single attempt of an unlock (strong fairness of
  `UnlockRead` and `UnlockWrite`). Nothing is assumed of the unlock job: it may never be
  added, be lost or fail for good.

### Divergences

Where the code does what one of its comments, documents or tests says it does not, the
property that says so is stated in the module and a configuration finds the
counterexample (`tlc -config X.cfg M`; each reports a violation, by design; one that names
several properties has all but the first in comments, to be put in its place):

| Configuration | Property | What happens |
|---|---|---|
| `IdempotencyOverlap.cfg` of `MCIdempotency` | `NoOverlapWhileBeating` | the TTL of a key is fixed at its insertion; a handler that still runs and beats when it passes loses its row, and a retry runs beside it |
| `OutboxTwice.cfg` of `MCOutbox` | `QueuedOnce` | a message whose mark was lost with the relay's transaction is queued a second time if BullMQ has removed its first job by then |
| `CacheClaims.cfg` of `MCCache` | `NothingMissing` | an entry loaded while a category was soft-deleted lacks that category's tag, so restoring the category leaves the entry without it |
| `CacheClaims.cfg` of `MCCache` | `StaleFillsAreRefused` | the fences bound the age of a fill when it is sent, but a command that timed out is still in the client's queue and may reach Redis after the fence's 300 seconds; it then stores a value that an invalidation overtook (`cache.service.ts:67`, `base.repository.ts:95`) |
| `SessionsExcess.cfg` of `MCSessions` | `OnlyExcessRevoked` | `makeRoomForNewSession` counts, awaits and lists; when sessions ended in between, the end of its `slice` is negative and it revokes sessions below the limit (`sessions.service.ts:288`) |
| `SessionsRehash.cfg` of `MCSessions` | `NewPasswordStands` | a sign-in that re-hashes the password it verified overwrites a password that was set meanwhile (`auth.service.ts:159`) |
| `AttachmentsClaims.cfg` of `MCAttachments` | `FlagAndAclTogether` | completing an upload makes the file public by the flag it read before the verification; its owner made it private meanwhile |
| `AttachmentsClaims.cfg` of `MCAttachments` | `RawIsNeverPublic` | `updateMainImage` accepts an image that is processing or failed and makes the raw object public (`story-media.service.ts:54`, against `attachment-visibility.service.ts:9-13`) |
| `AttachmentsClaims.cfg` of `MCAttachments` | `MainImageFollowsRow` | `updateMainImage` changes access lists and flag without the row's lock, while the file is deleted or made private (`story-media.service.ts:54-72`, against `attachment-visibility.service.ts:16-19`) |
| `ContentClaims.cfg` of `MCContent` | `EditsAreOfTheVersionRead` | an update that names the version after the one it read passes the check once another write has committed, and saves the row it read over it (`content.service.ts:175`, against `post-content.repository.ts:131`) |
| `ContentClaims.cfg` of `MCContent` | `RemovedStaysRemoved` | a deletion moves no version on, so an update that read the entry before saves it live again, with values that may be another entry's by then |
| `AccessNamed.cfg` of `MCAccess` | `NeverTheSuperAdminRole` | the guard ranks `body.roleId`; activating, revoking or deactivating the super-admin role of the route passes with a low role in the body (`role-hierarchy.guard.ts:38`, against lines 12-17) |

Others, found while modelling; the models contain them, and the properties that hold
are stated so that they do not deny them:

- *Cache, sessions.* A restart of Redis without its data starts the invalidation numbers
  again at 1 (`cache.service.ts:60`, not modelled). The limit of sessions is exceeded by
  two sign-ins that count at once (`sessions.service.ts:281`); a refresh that dies between
  the revocation and the new session signs the user out (`:165`); a change of the password
  bumps no version, so a sign-in under way opens a session with the old one
  (`password-change.service.ts:93`); so does an administrator's lock
  (`admin-user-management.service.ts:156`).
- *Outbox.* A batch of slow adds can outlast `idle_in_transaction_session_timeout`
  (`outbox-relay.service.ts:93`), and an outage of Redis of about 14 minutes parks
  messages (`:126`).
- *Lockout.* A sign-in that finds the lock lifted between `findLockState` and
  `unlockAccount`'s read is answered 423 (`account-lockout.service.ts:252`). An
  administrator who locks an account that failed logins had locked does not end its
  sessions (`admin-user-management.service.ts:160`). A reset job that failed for good keeps
  its id for seven days, in which no reset is scheduled. Rescheduling takes four calls of
  Redis (`account-lockout.service.ts:179`).
- *Attachments.* `hardDelete` beside the worker leaves objects without a row
  (`attachment.service.ts:353`), and of a pending upload the object under `incoming/`. A
  crash leaves an upload `verifying` (`direct-upload.service.ts:134`). Thumbnails that
  partly fail leave public variants no row names. Soft deletion of a file whose upload is
  not complete fails.
- *Stories.* A tag given to a version at its creation is not checked for uniqueness, though
  `story-version.service.ts:151` says a tag names one version. Two concurrent
  re-parentings make the thread a cycle (`stories.service.ts:324`). A prune can delete a
  version that was pinned, tagged or merged after it was selected, and cuts the history of
  a version made meanwhile from one it deletes. A deleted story is set to `PUBLISHED` by a
  status change that read it before. An author's edit that sends a published story back
  writes the status as read, so it publishes again what was removed and restored meanwhile
  (`PublishedByEditors` excepts it). A 409 of `setMainImage` leaves the file public
  (`story-media.service.ts:70`). Versions never capture attachments, and a rollback cannot
  restore a null date.
- *Content.* A field that becomes unique while a writer is past reading it as not unique is
  not held to it (`UniqueValuesHold` excepts the entry). A type is removed although an
  entry was just created of it. `SCHEDULED` can be set without a date, and is then never
  published. Values are validated before they are sanitized, so what is stored may be
  shorter than its minimum. `minDate: 'today'` makes past events' data uneditable.
- *Access.* A super-admin may deactivate the super-admin role, and the primary role of the
  last one may be changed. `users.controller.ts:46` says the role `user` may read its own
  record, which the seeder does not grant. Removing permissions may leave a system role
  without any, though `roles.service.ts:16` says it keeps one. Activating an assignment
  while it is revoked inserts it again (`user-roles.service.ts:129`). A role ranked below the
  caller's may be ranked higher before the write of a request that passed the guard: in the
  model, and in no property, for roles other than super-admin.
- *Mail.* A job that stalls too often fails for good without a dead letter. The dead letter
  of a job retried by hand stays although its email is sent. Refusals of the open circuit
  use up attempts: five attempts end after about 75 seconds of an outage. SMTP may accept
  after the time-out, and the retry sends the email twice.

## 5. Proofs

All proofs are checked by TLAPS, for every value of the constants that satisfies the
assumptions of the module. Each state machine has one inductive invariant, the theorem
that it is one with a lemma per action or group of actions, and theorems that derive
the properties from it.

- **IdempotencyProofs** — `HolderUnlessLapsed`, `OutcomeKept`, `ReplayFaithful`,
  `NeverRunAgain`. They are not inductive alone: what a request may do to a row depends
  on the id and lock it remembers. `IInv` adds that ids are drawn once (`IdsUnique`),
  that what a request read of a row still holds of it if it is still there
  (`ReadsStable`), that a lock belongs to a request with the row's key and fingerprint
  and the ages of both agree (`LockCoherent`), and who owns a stored outcome and how old
  its row is (`OutcomeOwned`, `OutcomeAged`). Assumed: a positive TTL and number of
  attempts.
- **DeliveryProofs**, of the outbox — every safety property of the `outbox` run, and
  `DeliversAsPromised`: initial states map to initial states of `Delivery` and each step
  to a step or a stutter. `IInv` adds that a relay that still has its transaction reads
  what the table has (`ClaimSound`, `LocksKeep`), and that a late `add` carries the data
  of a committed message (`LateSound`), and what rows say of payload and attempts
  (`RowSound`). The liveness half of the refinement is checked by TLC (`outbox_live`).
- **CacheSessionsProofs**, of the cache — `Tracked` and `StaleOnlyWhilePending`. `CacheInv`
  adds that the numbers of invalidations never exceed `seq` (`Numbered`), that an entry is
  in its tag sets for as long as it lives (`EntrySound`), that what a fill has loaded or
  sent (`Held`) is current, or an invalidation that reaches it is outstanding, or it will be
  refused (`FillSound`), and that a record of an invalidation a fill needs is younger than
  the fill's fence (`FenceSound`), as long as its caller waits. The assumption `MaxAge +
  CallTimeout < FenceTtl` is what the code's `MAX_FILL_MS` (60 seconds) and its time-out of
  Redis below `FENCE_TTL_SECONDS` (300) are for; without it the theorem is false even of
  calls in time. What is executed later is not bounded by the code, and `overdue` excepts
  it.
- **CacheSessionsProofs**, of sessions — `ResetVoids`, `OneSuccessor`, `RotatedIsOver`,
  `TokenDiesWithSession`. `IInv` adds that a version read before a password was verified
  is at most the one it was verified under (`CallSound`, `RowSound`), that a request
  which rotated a session is alone in having done so and the session has no successor
  yet (`ClaimSound`), and that who is about to commit a raised version holds the lock on
  the row (`CommitSound`). Most actions are steps of one request that create no session;
  the lemma `TurnKeeps` treats them at once. Assumed: the positive limit, sessions at
  the start within it, and that the placeholder `None` is not a value of the types it
  stands beside.
- **LockoutProofs** — `LockedAtThreshold` and `LockHolds`. The lock and what every sign-in
  and worker has read of it are typed by ages, so besides `TypeOK` `IInv` only adds that the
  end a sign-in is about to write is no further than a lock lasts (`EndsBounded`); an
  unlocking needs no memory, as the row is read again under the statement's condition.
  Assumed: a positive threshold within the counter's bound.
- **AttachmentsProofs** — `RawStaysPrivate`, `CompletedIsVerified`, `AclFollowsRow` and
  `OnlyInvalidRejected`, by an invariant in layers, each inductive with those before it:
  who is where and holds the row's lock (`Located`); until an upload is accepted one
  request has it, and no job, no worker and no public call exists for it (`Early`); what is
  stored and what each request and the worker hold a copy of is private, stripped and
  checked as far as they have come (`Verified`); and who holds the lock has given the new
  visibility to the objects it is done with (`Agreed`). What is raw is public only if `shown`
  says `"raw"` and only as the file itself; and while a request makes a main image nobody
  else holds the lock or processes the file, and what it is done with is public, unless
  `torn` or `shown` (`"crossed"`) says otherwise. `OnlyInvalidRejected` rests on
  `HeadOfText`: cutting a UTF-8 text anywhere and dropping what
  `WithoutPartialUtf8Tail` drops leaves a UTF-8 text, so valid files are never rejected
  for the cut. Assumed: contents are records of the three fields the checks look at, only
  images carry metadata, and `None` is none of the values it stands beside.
- **AccessProofs** — first `ScopeIsSound`: for any rules, any columns and any record, a
  record the filter of a list shows is one its viewer may read. By cases on how
  `RecordScope` comes about: without a refusal above, the grant that lets the record into
  the filter decides for it (`GrantAboveRefusals`). `ListsShowWhatIsReadable` is this for
  the rules any role's permissions give any user of `Access`, in every reachable state.
  `OnlySuperAdminsMakeSuperAdmins` needs that only the system role is named super-admin and
  none can be renamed to it (`SuperNamed`), and that a request past `RoleHierarchyGuard`
  deals in another role, is a super-admin's, or had another role ranked (`RequestsOK`); of
  the last kind only an activation can make a super-admin, and the property excepts it.
  Assumed: the sets of actions, subjects, new permissions and role ids are finite, so that
  the seeded permissions can be listed.
- **DeliveryProofs**, of the breaker and of `Mail` — first the breaker alone, for any number
  of calls and any options: `ProbesAccounted` and `ClosesOnProbes`. `BInv` adds that no call
  is of a later generation or opening than the breaker (`NoneAhead`), that what probes began
  in the half-open state of this generation (`ProbesOfHalfOpen`), that the successes and
  probes the breaker counts are those there were (`Accounted`, `PassedSince`). Assumed:
  positive thresholds, finitely many calls at a time. Then `MailImplementsBreaker`: every
  step of `Mail` is a step of the breaker or leaves it alone, so that what is proved of the
  breaker holds of SMTP's; and `CompletedWasSent` and `DeadLettered`, from `MailInv`, which
  says of each job what its state in BullMQ, the slot that runs it and the report on its
  failure may be together (`Good`).

- **StoryVersionsProofs** — all five properties of the run: `TypeOK` with its references,
  `NumberedInOrder`, `EditsApplyToWhatWasRead`, `PublishedByEditors`,
  `PruningKeepsAncestors`. The proofs of the steps that write a story rest on lemmas about
  `Stories` alone (`StoriesOK`), which say what may have become of any story after a step
  (`StoriesKept`) or of any version (`VersionsKept`). `IInv` adds what each request holds
  at each place it may stand at (`Requested`): what it read of its story is the row still,
  or an earlier version of it; an editorial status it brings was checked (`Allowed`); and
  the version it is about to insert was made from rows of its story, which may be gone
  since (`Founded`). And that a row the prune under way re-points still has the parent that
  goes, and gets the nearest ancestor of it that stays (`Repointed`), whatever was inserted
  between `PruneSelect` and `PruneCommit`. The ancestors of a version (`Chain`) are a
  function iterated over the number of rows; in place of an induction, the lemmas take the
  least step at which the claim fails: what the iteration ends with is closed under parents
  (`ChainClosed`), because each step finds a new row or none is left (`ChainGrows`), and is
  the least such set (`ChainLeast`). Assumed: finitely many
  versions, bodies of the types their validation lets through, placeholders that are none
  of the values they stand beside, and that a role's permission to publish looks at the
  story's author at most (`PublishingAssumption`).

- **ContentProofs** — all four properties of the run: `TypeOK`, `UniqueValuesHold`,
  `PublishedByPublishers`, `EditsKeepTheRest`. `IInv` adds what each request holds at each
  place it may stand at (`Requested`): the row an edit read is there, with the same type and
  author, no older than it was read, and if its version is still the one read, it has all
  that the edit leaves out (`ReadFrom`, `AsRead`); a status in `PUBLISHING` that a request
  brings was checked, and still may be set by its user, since that depends on the author and
  the type. An update that names a later version than it read (`Ahead`) is excepted: nothing
  says that what it saves goes with the row as it is. `UniqueValuesHold` is not inductive
  alone, because a field becomes unique in two steps: `ValuesInv` says that a type's lock
  has one holder (`LocksHeld`), that what the holder is about to save repeats no value
  (`CheckHolds`), and that the values of the names that are unique or on their way to be
  (`Watched`) stay apart (`WatchedApart`). Each is preserved because a save of the same type
  needs the lock, and the save of a request that read the field before it was unique marks
  its entry (`unsure`). Assumed: finitely many ids of fields and entries, bodies of the
  types their validation lets through, placeholders that are none of the values they stand
  beside, and that a permission to publish looks at an entry's author and type at most
  (`PublishingAssumption`).

Only model-checked: liveness (`AbandonedKeyFreed`, `EventuallySettled`, `LocksEnd`, the
fairness part of `PromiseKept`), which is out of this prover's reach. The recursive
functions of `FieldValidators` and the lineage of a thread in `Stories` (`Lineage`) are
evaluated on the instances only: what they compute for every input would take induction over
data, which is out of reach too.

## 6. What is not modelled, and why

- In the modelled components: Redis losing or restoring its data, plain `get`/`set` and the
  breaker of the cache; the elapsed time of a relay's batch; the blacklist of access
  tokens, the extension of a session by activity, the clean-up of old sessions and links,
  the reuse policy and the cool-down of resets; download counts, duplicate detection and
  forced-public categories of attachments; image sizes and formats; updates of labels that
  race their deletion; rate limits of queues.
- Token blacklist: one Redis key per token, written and read once. Registration: one
  transaction with an outbox message, which is what `Outbox` models. Audit: append-only
  inserts and a retention job. Throttling: one atomic Redis script per request.
- Processes, shutdown, configuration: crashes and restarts are actions of the modelled
  components; the rest runs once. Migrations likewise; the unique indexes and foreign keys
  the code relies on are part of the statements modelled.
- Health, logging, metrics, the public web API, the texts of emails: input and output
  without a state the program decides on.
