# Orbit: a TLA+ verification project

Orbit is a project-management system: an Express API over PostgreSQL (Prisma),
Redis and an SMTP server, a worker process that sends mail, a Socket.IO server
for live updates, and a React client. This directory holds TLA+ models of the
parts of it where requests, processes and failures meet, the TLC configurations
that check them, and proofs that TLAPS checks. Paths below are relative to the
repository; `api/` stands for `src/apps/api/src/`, `web/` for `src/apps/web/src/`.

## 1. How the program runs, and what that means for the models

Every API process handles many HTTP requests at once in one Node.js event loop;
several API and worker processes may run against one database. Nothing in the
API locks anything in memory: requests meet in the database. PostgreSQL runs at
its default isolation level READ COMMITTED, so each statement sees what was
committed when it began, and a transaction does not protect what its earlier
statements read, unless they say `FOR UPDATE`.

A request is therefore modelled as a small program. An element of `Requests` is
one HTTP request, used once; `pc[r]` says which statement it runs next or how it
ended (`granted`, `refused`, `lost`); what it read is copied into variables of
its own and used later, stale or not. One statement, or one transaction whose
statements cannot be told apart from outside, is one step. `Fail(r)` ends a
request between two steps: a process that dies, a statement that throws, or a
transaction the database aborts. Everything that is committed stays.

The code's pattern is *check, then write*: a service method reads rows, throws
if they do not allow the operation, and then changes them by id. What keeps
that right is one of

- a condition repeated in the write (`updateMany ... where status = 'PENDING'`),
- a unique index that refuses the second of two writes,
- a row lock (`FOR UPDATE`) taken before the row is read again,
- a counter changed by increments,

or nothing. The models keep exactly these, so that a run shows which operations
are protected and which only look so.

## 2. Inventory

| Part | State | Operations | Hard behaviour | What makes it correct | Module |
|---|---|---|---|---|---|
| Outbox of mails (`api/shared/outbox`, `api/worker.ts`) | `outbox_events`: status, attempts, lockedBy, lockedAt, availableAt | enqueue, claimBatch, markCompleted, markDeliveryFailed, start and stop of workers | leases that expire under a slow worker, crashes, lost answers, retries | a mail is settled once, tried at most `maxAttempts` times, never stranded | `Outbox`, `MailContract` |
| Sessions and refresh tokens (`api/modules/auth`) | `sessions`, `refresh_tokens`: revokedAt, reusedAt, rotatedFromId, expiresAt | login, refresh, logout, logoutAll, the revocation by a reset | the same token presented twice, replay after a lost answer, revocation in two statements | one usable token per session; a replay ends the session | `AuthSessions` |
| Accounts: registration, verification, password reset (`api/modules/auth`) | `users`, single-use tokens, outbox events | register, verifyEmail, resendVerification, forgotPassword, resetPassword | two registrations of one address, a link used twice, a resend that races a use or another resend, death between account and mail | one account per address; a link works once and a resend kills those before it; nobody is left without a link | `Accounts` |
| Time tracking (`task-time.*`) | `time_entries`, `tasks.trackedSeconds` | log, start, stop, update, remove | two tabs starting a timer, stop racing edit and delete, locks of an entry and of its task | one running timer per user; totals are the sum of entries; no deadlock | `TimeTracking` |
| Organizations and invitations (`api/modules/organizations`) | `organizations.ownerId`, `organization_members`, `invitations` | change role, remove, transfer, delete, invite, revoke, accept | check-then-write everywhere; expiry | one owner, who is an active member; an invitation admits once; seats | `Organizations` |
| Billing | subscription and plan of an organization | plan limits | limits checked before the write | members never exceed the seats | the seat check, in `Organizations` |
| Boards and tasks (`api/modules/boards`, `tasks.service.ts`) | columns and tasks with place and position | create, delete, move columns; create, move, archive, restore, delete tasks | reorderings from stale reads; a column deleted under a move | a task is where its column is; positions are an order | `Boards` |
| Comments and notifications (`api/modules/comments`, `notifications`) | comments, mentions, reactions, notifications | create, edit, delete, react; notify | a creation of six steps without a transaction, notifications that fail, two toggles at once | a comment that is answered with success has told everyone concerned, once; a reaction is there or not, as the repository's toggle returned (the request may still fail after it) | `Discussion` in `Content` |
| Attachments, avatars, object storage (`task-attachments.*`, `users.service.ts`, `shared/storage`) | rows in the database, files on disk | upload, remove, replace an avatar | no transaction spans both; a death between the two; two replacements at once | what a row names is on disk; what nothing names was lost to a known failure | `StoredFiles` in `Content` |
| Realtime server (`api/modules/realtime`) | rooms, subscriptions per socket, who is online | subscribe, unsubscribe, disconnect, evict | awaits between check and join, two sockets of one user, a removal beside a subscription | pages agree with the rooms; nobody listens who was put out | `Presence` |
| Web pages of tasks and boards, realtime client, checklists (`web/features`, `web/pages/app`, `task-resources.*`) | cached queries, subscription, events under way | fetch, mutate, patch the cache, hear an event, reconnect | answers, fetches and events that overtake one another | a page that has settled shows what the server has | `TaskPage` |
| Web session client (`web/lib/api.ts`, `auth-store.ts`, `csrf.ts`) | access token, CSRF token, refresh in flight, timer; the cookies tabs share | boot, request, refresh, login, logout | many requests meet one expired token, tabs share cookies and nothing else, answers arrive late | the client never looks like a thief to the server; a logout ends the session | `Browser`, over `AuthSessions` |
| Projects, teams | membership rows | add, remove | as organizations | as organizations | not modelled |
| Rate limiting | counters with expiry | consume | fixed window, Redis or memory | limit per window | not modelled |
| Process life (`api/server.ts`) | connections | start with retries, shutdown | requests in flight at SIGTERM | everything closed once | not modelled; what dies with a process is part of each module (`Fail`, `Crash`) |
| Search, analytics, health, docs, audit log, configuration, schemas, other pages, seed | none of their own, or single rows of one user | reads, single statements | none a model would show | | not modelled |

Who calls whom: the controllers of the API call services, services call
repositories, repositories run SQL. `auth.service` and `organizations.service`
put mails into the outbox in the transaction of their change; the worker takes
them out. `organizations.service` asks `billing` for a free seat.
`tasks.service` reads columns through the repository of boards,
`comments.service` calls `notifications.service`. Services tell the realtime
publisher after their change; it never answers back. The web client calls the
API with an access token, and refreshes it with the cookie when a call is
answered 401. Its pages keep server data in react-query, and fetch a query again
when a mutation of theirs or an event of the project's room invalidates it.

## 3. Modules

### MailContract, Outbox (mail)

`MailContract` is what a producer of mail may rely on, with no workers: `Submit`,
`Poll`, `Deliver`, `Complete`, `GiveUp`. `Outbox` is the code. Its variables are
the columns of `outbox_events` (`status`, `attempts`, `lockedBy`; `availableAt`
and `lockedAt` become the flags `due` and `stale` that time sets), the processes
(`proc`), what each does with each event (`job`) and the attempts count in its
copy of the row (`held`). `ClaimBatch` is the single SQL statement of
`claimBatch` with both its parts: burying rows that used all their attempts, and
claiming up to `BatchSize` candidates. `SendMail`, `MarkCompleted` and
`MarkDeliveryFailed` are the steps of `processEvent`, with the guards
`status = 'PROCESSING' AND lockedBy = workerId` of the updates (`Owns`) and the
decision `terminal`, taken from the worker's copy. `Faults` names what may go
wrong: a process dies, a lease runs out under a living process, an answer of the
provider or the database is lost after the effect. `copies` (which attempts the
provider accepted) and `mishaps` are history for the properties.

### AuthSessions (sessions and refresh tokens)

The rows of `sessions` and `refresh_tokens` of one user. `RefreshRead`,
`FindSuccessor`, `IssueSession`, `CreateSuccessor`, `RetireToken`, `Reply` are
the statements of `refresh` in their order; `CreateSuccessor` meets the unique
index on `rotatedFromId`. `KillTokens`, `KillSession` are the two statements of
`revokeSessionTokens`, reached by a logout, a replay, a lost race and an expired
session. `LogoutAll` and `ResetSessions` revoke every session of the user in
one statement, the first asked for from one of them. A client may present any
token some answer delivered, at any time. Time is the action `Expires`.

### Accounts (registration, verification, password reset)

The rows of `users` and of the two tables of links mailed to their owners.
`Register`, `CreateAccount`, `IssueSession`, `SendVerification` are the steps of
`register`; the account, its organization and its membership are one
transaction, which the unique indexes on the address and on the organization's
slug may refuse (`IndexesRefuse`; `NameOrganization` lets another organization
take a slug). `Supersede` and `Renew` are the two statements of the transaction
of a resend: what the first marks (`doomed`) counts when it commits.
`VerifyEmail` and `ResetPassword` claim a link under the condition `Claimable`
of the `updateMany` and change the account in the same transaction. `Expires`
and `Arrives` let time pass and mail arrive, in any order or never. `creator`
and `before` are history: who inserted an account, and which links existed when
a resend began.

### TimeTracking (time entries)

Its requests are described by `stage`, `wish`, `entry` and `found`, because
`TaskRequests`, which declares the tasks and requests, is shared with `Boards`
and one module proves about both. `StartRead`/`StartTimer` is check then insert under
the partial unique index of migration `20260823214000`, which waits for a transaction that has
ended a running timer of the user and not committed. Stop, update and remove first look (`Look`) and then
run a transaction whose statements are steps: `LockEntry` (SELECT ... FOR UPDATE, the row read
under it), the update of the entry (`StopTimer`, `UpdateEntry`, `RemoveEntry`), the increment
of the task's total (`Count`), which locks the row of the task, and `Commit`. `log` inserts its
entry and does the last two. `lock` has a holder for every entry and every task; a
request waits where another holds the row it needs. What is written and not committed is
in `draft`; `RollBack` drops it, and both ends give every lock back. `counted[e]` is
history: what `e` has contributed so far.

### Organizations (ownership, membership, invitations)

One organization. `Authorize` and `AuthorizeLetter` are the middleware of
`rbac.ts` and the routes; the reads of each service method are its next steps
(`FindMember`, `FindOwner`, `InviteChecks`, `OrgChecks`, `FindInvitation`,
`AcceptRead`, `AcceptMember`); the last step is its write. `Lapse` lets an
invitation expire; `intime` remembers that `acceptedAt` was taken before.
A request's `actor` may lose its rights after the middleware looked. `overtaken` is
history: the role changes, removals and acceptances that had looked at a member and not
yet written when a transfer made that member the owner.

### Boards (columns, tasks and their order)

Columns and the tasks on them. Board, status and id of a column never change and
are constants. `place[t]` is the triple boardId, columnId, statusId of a task,
`pos` the column `position` of columns and tasks. `moveColumn` and `moveTask`
are three steps each, reading the row, reading the siblings (`OrderSiblings`,
any position the clamp allows) and the updates of the transaction as its commit
(`Renumbered`). Deleting a column sets the column of its tasks to null
(`WithoutColumn`, the foreign key's ON DELETE SET NULL); a write that names a
column that is gone is refused by the foreign key (`Refers`).

### Browser (the session in the web client)

Every tab is a page with its own auth store (`status`, `access`, `armed`), CSRF
token (`csrf`) and refresh in flight (`flight`), and one call the user has under
way; all tabs share the refresh cookie (`jar`) and the CSRF cookie (`csrfOf`).
The server is module `AuthSessions`, instantiated as `Srv` over the same
variables: `Send` is the arrival of a request together with the first step of its
handler, `Serve` any later step of the server, `Deliver` the moment cookies of an
answer are set, `Receive` what the page does with it. `Ask` begins a
call, `TimerFires` the refresh the timer was armed for, `Open` and `Close` come and go
with tabs; a call that is answered 401 (`Unauthorized`) joins the refresh in flight or
starts one and is retried once. `ResetElsewhere` is another device that ends the sessions. The answer to
a refresh ends in one of three ways: `Refreshed` stores the session, `Expired` ends it, and
`Unreadable`, where the body is no envelope, does neither: `doRefreshSession` tells the
store only of an `ApiClientError` (`api.ts:272`), so a page that is signed in stays so, with
its timer used up. `mishaps` is history, the accidents by name: two pages that refresh with one cookie, a
page left during a request or an answer that was lost (`raced`), a sign-out during a
refresh (`cut`), cookies that fit another session or page (`mixed`), an answer that
arrived, with its cookie, but could not be read (`garbled`).

### Presence (rooms and who is online)

`conn`, `rooms`, `subs` are the sockets, the adapter's rooms and
`projectSubscriptions`; an element of `Jobs` is one run of a handler, subscribe,
unsubscribe or the cleanup of one project, and takes a step per await. Who is
online is read in one step (`seen`) and used in a later one. `page` and `view` are
what `use-project-realtime.ts` keeps. `RemoveMember` puts a user out of the
organization and `DisconnectUser` disconnects their sockets later. `races` is history: the kinds of
race that occurred, by which the properties say what they except: a room that
changed after it was read (`snapshot`), a socket that went while it subscribed
(`gone`), a page that was left before it was subscribed (`hurried`), an answer
that came when the page showed another project (`late`), and an await that threw
after the socket had joined, or in a cleanup, which then leaves its other projects
out (`failed`, action `Throws`). The two reads of `canSubscribeToProject` are one step: the first, of the
project, reads what nobody changes here, so that only the second, of the membership,
can be overtaken. An `unsubscribe` whose await throws is not modelled: the handler has no
`try` (`realtime.service.ts:163-166`), and the rejection nobody handles would end the process.

### TaskPage (cached data of a page)

A query's content on the server is the set of changes behind it (`content`). A
change is made by a request of this page or of somebody else, in the order of the
services: the row (`Write`), the activity where the service records one (`Record`),
the event (`Announce`), then the row read back and the answer (`Answer`). After the
first of these the request may fail or its process die (`Fail`): the change is there and nobody is told,
and the page that asked for it shows an error. `stage[c]` says how far the request of
change `c` has come. `Receive` applies the answer the way the component does: by invalidating queries
(`Refreshed`) or by editing the cached list (`Patched`). A fetch is asked, read on
the server and arrives in three steps; an invalidation cancels a fetch that has
data and joins one that has none. Events arrive in order (`Deliver`); the socket may
be lost (`Detach`) and subscribe again (`Attach`) without anything being fetched.

`doubt` is history: queries hit by a known race since they were last read. It is as
narrow as the code allows. A query that a change misses enters it (`Missed`) only if
nobody will tell the page of that change and the page has no fetch under way that has yet
to read, when the change is announced (`Untold`), when its request fails, or when the answer
is lost; `Untold` lists what the code announces to nobody or to the wrong page.

### RequestPool, StoredFiles, Discussion, Content

`RequestPool` is a pool of requests with a program counter. `StoredFiles` is the
order of file and row in uploads, removals and avatar changes, every step of
which may fail, or succeed and be taken for failed (`Create`: the row is committed, its answer
lost, and the file deleted by `Undo`); `Discussion` the steps of a creation of a comment with its
notifications, and edits, deletions and toggles, whose row may be changed and the request fail in the
reads that follow (`Flip`). `Content` puts both into one
process that may die at any point (`Crash`).

## 4. Runs

| Run | Instance | States | What it shows |
|---|---|---|---|
| `outbox` | 2 events, 2 worker processes, 2 attempts, batch 2, all faults | 162 thousand | `NoDuplicate`, `LateWorkerHarmless`, the refinement `KeepsContract`, and `EventuallySettled` under fairness |
| `auth` | 1 session, 3 tokens, 3 requests, failures | 73 thousand | `OneUsableToken`, `LateNeverGranted`, `NoFalseAlarm`, `NoHalfRevocation`, and `ReplayEndsSession` under fairness |
| `accounts` | 2 users and addresses, 3 verification links, 1 reset link, 4 requests, failures | 405 thousand (symmetric) | `ClaimedOnce`, `PasswordOrigin`, `SupersededStayDead`, `NeverStranded` |
| `time` | 2 users, 2 tasks, 3 entries, 4 requests, lengths 1 and 2, failures | 617 thousand | `OneRunningTimer`, `CountedOnce`, `TrackedIsSum`, and `Answered` under fairness |
| `org` | 3 users, 2 invitations of one person, 3 seats, 3 requests | 685 thousand (symmetric) | `OnlyOwnerRules`, `AdmittedOnce`, `OwnerKept`, `Succession` |
| `org_owner` | as `org`, 2 requests | found | `OwnerProtected` is violated (section 6) |
| `boards` | 1 board, 3 columns of which two compete for one status, 1 task, 3 requests, failures | 100 thousand (symmetric) | `Placed`, `OneColumnPerStatus`, `MovesKeepNumbers` |
| `browser` | 2 tabs, 2 sessions, 4 tokens, 4 requests | 1.55 million (view) | `NoSelfReplay`, `OneFlightPerTab`, `LogoutRevokes` |
| `browser_live` | the same with 1 tab, and requests that may die on the server | 379 thousand | `BootEnds`, `RevocationNoticed` under fairness |
| `presence` | 3 sockets of 2 users, 2 projects, 3 handler runs, limit 1 | 2.38 million (view) | `TypeOK`, `ViewsConverge`, `NoneLeftBehind`, `NoEavesdropper` |
| `task_page` | 3 changes of 5 kinds, 2 queries, 1 row at first | 1.99 million (symmetric) | `PageTypeOK`, `Converges` |
| `content` | 3 requests, 5 files, 1 user; or 2 requests, 2 comments, 4 people | 228 thousand | `ErasedForGood`, `AvatarOnDisk`, `NoOrphans`, `AnsweredMeansNotified`, `TogglesAddUp` |

Types are proved in every module (theorems `Typing`, `TimeTyping`, `RoomTyping`,
`PageTyping`); `presence` and `task_page` check them as well. The two runs marked
"view" take states for one when they differ only in accidents that no invariant
of the run tells apart and that no action reads (`Shown` in `MCBrowser` and
`MCPresence`).

Why the bounds are enough to meet the interesting cases:

- *Outbox.* Two processes are what a lost lease needs; two attempts give a first,
  a retried and a last one; two events let one statement bury one row and claim
  another, and let a batch be full or not. More processes only add more late
  workers, and the proofs cover any number.
- *AuthSessions.* Three tokens are a login and two rotations. Three requests are a login and
  two refreshes that race or replay, or one refresh and a revocation. To replay a token whose
  successor was rotated itself takes a login and three refreshes, which the run does not
  reach; the proofs do. Sessions share no rows, hence one. Everything the run checks without fairness is also
  proved for any number of all three.
- *Accounts.* Two registrations race for one address or for two; a registration
  and two resends, or two resends and a claim, fit into four requests and three
  links. The safety properties are proved for any numbers as well.
- *TimeTracking.* Three entries: two of one user on different tasks and
  one of another user on a task of the first, so that two transactions can want the row
  of one task while each holds an entry, and two entries add to one total. Four requests:
  start, stop, edit and delete of one entry can overlap.
- *Organizations.* Owner, a member and somebody invited. Three requests are what
  a transfer needs between the check and the write of another, followed by a
  third that builds on the result: two transfers from one owner, or a chain of them
  beside a role change.
- *Boards.* Two columns for one status give the race for the unique index; with
  the third, sibling orders have two elements to disagree on. The instance with
  two tasks (2.9 million states) was checked as well and agrees.
- *Browser.* Two tabs are what cookies shared by pages need. Four requests are a
  login, two refreshes and a logout, or two logins and what follows; two sessions
  let one login replace another; there is a token for each request, so that none runs
  out. A server that dies in mid-request (`MayFail`) is part of `browser_live`; answers
  that are lost or cannot be read are part of both. Liveness uses one tab because another can only add
  accidents the properties except.
- *Presence.* Two sockets of one user are what makes "online" differ from
  "connected"; one of these and the socket of the other user watch from the start.
  Three handler runs overlap. One of
  the users can be removed. A page that goes from one project to another may get the
  answer for the one it left, hence two.
- *TaskPage.* Three changes: a row that is there from the start and two that
  overtake each other, of which one may be the page's own. Two queries stand for the two ways a query is kept: the
  checklists are edited in the cache, the activity is fetched again. On these two queries a
  change of a label or of the time of a task does what one of the task does; a comment touches
  neither. The other queries differ only in which changes invalidate them, which is a table
  (`Refreshed`, `Announced`); the proof covers all kinds, queries and numbers of changes.
- *Content.* Three requests on one attachment that is there and two avatars that
  replace a third; two on a discussion with a comment that is there. People are the
  task's creator, a moderator, a member without a part in the task, and an outsider
  who may be mentioned and must be refused. Its safety is proved for any numbers.

### Fairness

Safety runs that state no liveness use `Spec` without fairness. Where liveness is
checked, fairness is weak and only for what the program does by itself:

- `Outbox.Fairness`: time passes (`BecomeDue`, `LeaseExpires`); a process that is
  up goes on polling and handling its events (`runWorkerLoop` is a loop; an event
  in flight is driven by promises that settle or time out). Nothing obliges
  anybody to enqueue, start, stop or crash. `EventuallySettled` assumes besides
  that from some moment on some process stays up, and says so in its statement.
- `AuthSessions.FairSpec`, `TimeTracking.FairTimeSpec`: a request that has begun goes
  on (`Advance`, `Proceed`); no fairness for new requests or for time. A request may still
  die instead (`Fail`, `RollBack`), and `ReplayEndsSession` excepts those that do. In `TimeTracking` a
  request that waits for a row goes on only when its holder has let go: `Answered` holds because
  every transaction takes its entry before its task, and is violated as soon as
  one takes them the other way round (two of them then wait for each other, and `Proceed`
  is enabled for neither). That the requests are finitely many keeps a queue for one row finite.
- `Browser.FairSpec`: a CSRF token that is asked for comes, an armed timer fires,
  and a request is sent, served, delivered and received (the network may lose an
  answer, which the page sees as an error). Users, tabs and other devices are
  not obliged to do anything. `RevocationNoticed` needs the timer: the page asks
  nothing by itself. It excepts the end of the finite pool of requests.

Deadlock is not checked (`CHECK_DEADLOCK FALSE`): each request, handler run or change
is used once, so a state where all are over has no successor, rightly. That nobody
waits for ever is what `Answered` and `BootEnds` say.

## 5. Proofs

TLC checks the instances above; the theorems below hold for every number of
requests, rows, processes and users, and rest on the `ASSUME` of each module
only (types of the constants, distinct values for "none").

| Theorem | Says |
|---|---|
| `OutboxProofs!Invariance`, `Leasing` | `TypeOK` and `OutboxInv` are inductive |
| `OutboxProofs!OnceUnlessFault` | `NoDuplicate`: without faults a mail goes out once |
| `OutboxProofs!LateWorkers` | `LateWorkerHarmless` |
| `OutboxProofs!Refinement` | `Spec => KeepsContract`: every step is a step of the contract or a stutter |
| `AuthSessionsProofs!Invariance`, `SingleUsableToken`, `SingleWinner`, `RevocationHolds` | `OneUsableToken`, `OneWinner`, `LateNeverGranted` |
| `AuthSessionsProofs!AlarmsAreReal`, `RevocationFollows` | `NoFalseAlarm`, `NoHalfRevocation` |
| `AccountsProofs!Invariance`, `SingleUse`, `Superseded`, `NoStrandedAccount` | `ClaimedOnce`, `SupersededStayDead`, `NeverStranded` |
| `AccountsProofs!OneAccount`, `Verification`, `OwnPassword` | `OneAccountPerAddress`, `VerifiedByLink`, `PasswordOrigin` |
| `TaskProofs!TimeInvariance`, `OneTimer`, `Counting` | `OneRunningTimer`, `CountedOnce` |
| `TaskProofs!LockOrder` | who holds the row of a task has all the rows it needs; who holds an entry waits at most for a task |
| `TaskProofs!Bookkeeping`, `TotalsAddUp` | every step changes the total of a task by what it changes of one entry; `TrackedIsSum` |
| `OrganizationsProofs!Invariance`, `Ownership`, `Admission`, `OwnerStays`, `OneTrail` | `OnlyOwnerRules`, `AdmittedOnce`, `OwnerKept`, `Succession` |
| `TaskProofs!Invariance`, `Placement`, `OneColumn`, `Numbering` | `Placed`, `OneColumnPerStatus`, `MovesKeepNumbers` |
| `BrowserProofs!Invariance`, `OneFlight` | `OneFlightPerTab` |
| `BrowserProofs!Harmonious`, `NoReplay`, `LogoutHolds` | `NoSelfReplay`, `LogoutRevokes` |
| `RealtimeProofs!RoomInvariance`, `NobodyListensIn`, `RoomsAreLeft`, `ViewsComeRight` | `NoEavesdropper`, `NoneLeftBehind`, `ViewsConverge` |
| `RealtimeProofs!PageInvariance`, `PageConverges` | `Converges` |
| `ContentProofs!Invariance`, `Erasure`, `Avatar`, `Listing`, `Orphans` | `ErasedForGood`, `AvatarOnDisk`, `ListedOnDisk`, `NoOrphans` |
| `ContentProofs!Answering`, `Toggling` | `AnsweredMeansNotified`, `TogglesAddUp` |
| `Typing` of each of these modules, `TimeTyping`, `RoomTyping`, `PageTyping` | `TypeOK`, `TimeTypeOK`, `PageTypeOK` |

How the arguments go:

- *Outbox.* `OutboxInv` is inductive with `TypeOK`. `Leases` says that a row in
  `PROCESSING` is locked by a process that was started and, if it lives, handles
  the row with the row's own attempts count; `Attempts` that two processes never
  handle one event on the same attempt; `Deliveries` ties what was sent to both.
  Together they make the stale copy harmless: whoever still `Owns` a row has the
  current count, so `terminal` is decided rightly. For `NoDuplicate` the
  invariant adds that an untouched event has no copy from an earlier attempt.
- *AuthSessions.* The strengthening says which request created which token and
  that the links form a chain (`OneLeaf`): a token that is not the parent of
  another is the only such token of its session. The unique index does the work
  in `CreateSuccessor`; `Late` says that a request that began after a revocation
  read the token as dead and can only go where nothing is created. A second
  invariant (`JInv`) keeps the reasons: which requests presented a token that has
  a successor (`Rotators`), that every session with tokens has one that is not
  rotated (`SomeLeaf`), and who is behind a revocation (`Revocations`, `Alarms`).
- *Accounts.* The checked properties are almost inductive together; what they
  need is `Holders`: a resend under way holds marked every link it began with
  that is not used yet, and `Creators`: the request that inserted an account is
  past the insert and works on that account. `NeverStranded` then holds because
  the same commit that uses the old links inserts the new one.
- *TimeTracking.* Between lock and commit the row equals the copy, because every
  other change of it needs the lock, and the draft is what the copy leads to; with that, each commit adds exactly what
  `counted` misses. `LockOrder` follows from who holds which lock at which stage: a task's row is
  locked by requests that have nothing left to lock, so that no circle of waiting closes. That a total is the *sum* of its entries takes `Booked`, an
  action property: a step changes one entry at most and moves the total of that
  entry's task by the same amount. The lemmas about sums over a set (`TotalWith`,
  `TotalWithout`) go by a smallest counterexample: that inclusion of finite sets is
  well-founded is stated without an operator parameter and can be cited, where
  induction cannot. `Entries` need not be finite; that only finitely
  many are ever inserted is part of the invariant (`Ledger`).
- *Organizations.* `OnlyOwnerRules` needs that no pending write can set the role
  `OWNER` except the transfer, whose transaction moves `ownerId` as well;
  `AdmittedOnce` that a claim is conditional on `PENDING`. `OwnerKept` needs that every
  request about to change the owner's row is one that the last transfer overtook; `Succession`
  that each granted transfer moves `owner` from the one who asked for it, so that it is a sum kept by each step.
- *Boards.* `Placed` is inductive once the copies that requests hold are known to
  be sound places, and deleting a column adds it to `retired`. `MovesKeepNumbers`
  rests on two lemmas about sequences (`ListingWithFacts`, `NumberingIsGapless`):
  a list of all siblings with the row inserted names each column of the board
  once, and numbering such a list leaves the positions 0 .. n-1. `Complete` says
  that a transaction under way holds such a list as long as the columns are the
  ones there were at first.
- *Browser.* The invariant ties `flight` to the request it names:
  a refresh of a page that has not signed out during one is the page's flight, so
  `RefreshSession`, which returns a flight that exists, cannot begin a second.
  `Harmony` adds what the other two properties need. `CalmInv` holds as long as the only
  accidents were mixed-up cookies and answers nobody could read: of all requests under way one refresh at most presents a
  given token, and none presents it after its rotation, since the answer has put its
  successor in the cookie (`Handlers`, `Once`), which is `NoSelfReplay`. `PeaceInv`
  holds without any accident: the cookie belongs to the one session that is alive
  (`Cookie`), who is answered 401 has a session that is gone (`Deaths`, `Answers`),
  and a session that was left by a logout is revoked or about to be (`Doomed`).
- *Presence.* `NoEavesdropper` is inductive once a handler past the middleware is
  known to be of a member or of one who is about to be disconnected (`Authorized`).
  `NoneLeftBehind` needs that handlers of one socket come one after another
  (`Orderly`), which is what its exception says. For `ViewsConverge` the invariant
  `Undisturbed` says that what a handler read stays true until it is used
  (`Snapshots`), and that a page never misses a user, and shows one too many only
  while a handler is about to report it (`AllCounted`).
- *TaskPage.* Whatever a query that is not in doubt has on the server is shown, has been read by its
  fetch or has still to be read by it (`Current`), is named by an event under way (`Told`), will be asked for or patched
  in when the answer the page waits for comes (`Awaited`, `Fitting`), or is written and still to be
  announced (`Coming`); their disjunction is `Reached`. The last of them is what a step of the server keeps true
  between the row and the event, and what is left of it when a request fails is exactly `Missed`. `PatchFits` says that a list that is
  to be patched differs from the server's only in the row of the mutation, unless
  another change of it is under way.
- *Content.* For files the invariant says who holds a key: a file that is being
  uploaded is its request's alone and no row names it yet (`Held`); what a request
  read as the previous avatar is nobody's avatar once it has replaced it (`Olds`);
  avatars are distinct, on the disk and no attachments; keys not drawn name nothing
  (`Unused`). For comments, each that is being created has one request (`Makers`),
  whose list `todo` says how far its notifications have come (`ProgressOf`). A tally
  equals the row because a toggle that finds the row changed under it fails.
  `Apart` keeps the two services from each other's requests.

With these, every safety invariant, every action property and the refinement
that a passing run checks are theorems. Model-checked only are
the five properties that need fairness: `EventuallySettled`, `ReplayEndsSession`,
`Answered`, `BootEnds` and `RevocationNoticed`; liveness rests on ENABLED, which the
provers cannot reason about.

Two properties turned out to be false when their proofs were tried, although the
runs then passed. `LogoutRevokes` fails with five requests: the answer to a
logout may arrive late and clear the cookie of a session begun since. And
`ViewsConverge` fails with two projects, by the answer called `late` above. Both
are what the code does; the models name these accidents now, and
the properties except them (section 6).

## 6. Findings

**The owner can be removed** (run `org_owner`). `removeMember` and
`updateMemberRole` refuse to touch the owner, but look before they write, and
write by id: a transfer in between makes the member the owner, who is then
deactivated or demoted. An owner who is demoted can still hand the organization over (the
transfer looks at `ownerId`) but not delete it, since nobody holds the permission any more; one
who is deactivated can do neither.

Seen while modelling, without a run of its own. In organizations, boards and
accounts:

- `revokeInvitation` checks for `PENDING` and then sets `REVOKED` unconditionally
  (`organizations.service.ts:365-367`), so that an accepted invitation becomes
  revoked; an acceptance that notices an expiry sets `EXPIRED` the same way.
- The seat limit is asked for before the membership is written
  (`organizations.service.ts:327`, `:343`): two acceptances take one last seat.
  Two invitations of one address can both find none pending (`:242`).
- `moveColumn` numbers the columns from an order it read without a lock
  (`boards.repository.ts:158`) and undoes a concurrent move;
  `docs/CURRENT_STATE_AUDIT.md:82` counts ordered mutations among those with
  concurrency controls.
- `logoutAll` revokes the session the request came from as well
  (`auth.service.ts:167`); `docs/api.md:47`, `docs/architecture.md:79` and
  `auth.routes.ts:135` say that it stays.
- The slug of a personal organization is the part of the address before the @
  (`auth.repository.ts:112`). `ann@a.org` and `ann@b.org` cannot both register,
  and the second is answered 500, which the API does not document.

In the web client:

- Every tab fetches a CSRF token and keeps it, but they share one cookie
  (`csrf.ts:10-18`): the tab that fetched first is answered 403 from then on. Its
  refresh then signs the page out, and its logout ends in `hardLogout` with
  session and cookie alive. The answer to a logout clears whatever cookie there is
  when it arrives, which may be that of a login made since. `LogoutRevokes` names both
  as one accident ("mixed").
- A logout revokes the session of the cookie, which another tab may have replaced,
  not the one of the access token. A login with a wrong password, answered 401,
  first tries to refresh.
- A `hardLogout` during a refresh does not stop it: its answer signs the page in
  again ("cut").
- Two tabs whose tokens run out at once refresh with the one cookie they share: the
  second is taken for a thief, and the session of both ends ("raced").
- A refresh whose answer cannot be parsed leaves a page that is signed in as it is
  (`api.ts:272`), with its one-shot timer used up: nothing asks again until a call
  of the user is answered 401 ("garbled").
- Events of a subtask carry the subtask's id (`tasks.service.ts:175`, `:626-632`),
  while `docs/architecture.md:62` has realtime hooks reconcile events into the caches:
  a page that shows the parent hears nothing of its new child.
- A socket that reconnects, as it does whenever the access token is renewed, has
  lost what happened meanwhile, and nothing is fetched again, while
  `docs/architecture.md:89` has a client that "recovers after reconnect" and
  `docs/CURRENT_STATE_AUDIT.md:56` lists "reconnect recovery" among what works. A request that fails
  between its row and its event has changed what no page is told of. A mutation's answer
  that a fetch or the event has overtaken puts a row into the list twice or takes
  it back to an older state. A new checklist does not refresh the activity;
  changes of an organization's labels are announced to nobody.

In files, comments and presence:

- An upload whose row is committed while the answer of the database is lost deletes the
  file of an attachment that is listed (`task-attachments.service.ts:87-90`); a removal that dies
  between file and row leaves the same. An upload of an avatar whose row cannot be written leaves the file. Two
  deletions of one file make the second fail with 500.
- A list of mentions that names somebody twice violates a unique index, and the
  comment is refused with 500. A notification that fails makes the request
  fail although comment and other notifications stay; a retry makes a second one.
- `replyCount` counts deleted replies. The route of a deletion requires
  `TASK_COMMENT_MODERATE` (`comments.routes.ts:143-149`), so that authors without
  it cannot delete their own comments and the author check of the service never matters.
- Whether a user was online is read before the join and after the leave across
  awaits (`realtime.service.ts:132`, `:220`): two sockets of one user that come and
  go at once leave others with a wrong view. The page applies the answer to a
  subscription whatever project it shows by then (`use-project-realtime.ts:38-40`). A cleanup
  that cannot list the sockets of one project leaves out the others (`realtime.service.ts:174-181`).
  Subscriptions sent together all pass the test of the limit (`:118`).

What was looked at and holds although it looks fragile: the rotation of refresh
tokens (the unique index catches the race), resends of a link
beside claims and other resends (two at once may leave two links alive, never none), a worker that outlives its lease, totals of
tracked time, and tasks whose column disappears during a move.

## 7. Not modelled

Reads that decide nothing, formatting, validation of single requests (inputs are
those the shared schemas let through), activity and audit rows, translations,
and what pages render; together these are most of the repository's lines.
Cryptography is abstract: a token is its row.

Within modelled parts:

- Organizations and boards: teams, slugs and names; boards and projects
  themselves, subtasks, labels and assignees as rows; the order of checklist
  items; row locks *inside* a transaction of `Boards` (its updates are one step, a
  deadlock the database breaks is a failure). Positions of tasks carry no property
  beyond the type, because the code promises no more than an order with ties broken
  by creation time.
- Outbox: the order in which due mails are claimed.
- Realtime: the handshake, the limit of events per minute, signal events,
  Socket.IO's own recovery of a connection (`realtime.service.ts:42-45`), which
  would replay events to a socket that returns soon.
- Pages: those of labels and columns have their tables in `TaskPage` but the run
  instantiates the task page; uploads of attachments, which edit their
  cached list as checklists do, saved filters and forms are left out. A fetch of a CSRF token that fails, and
  with it the request that wanted the token before it was sent, is not an action of `Browser`.
- Files and comments: downloads, bodies, reading and marking notifications,
  members who join or leave while a comment is checked.

Whole parts: projects and teams, whose check-then-write form is that of
organizations and adds no question; rate limiting; startup and shutdown, where a
shutdown waits for open sockets until a forced exit cuts requests off
(`server.ts:293`); search, analytics, health and API documentation, which only read.

## 8. Plan

All modules have their proofs. What could be added, in this order:

1. Process life: requests and sockets at a shutdown, with the forced exit.
2. Rate limiting with Redis that fails and comes back; the order of checklist items
   with the ordering operators of `Boards`; teams and projects.
3. In the existing modules: two pending invitations of one address, row locks
   inside the transactions of `Boards`, unread counts of notifications.

## 9. Reading order and tools

Each component has `X.tla` (model and properties), `MCX.tla` with one or more
`.cfg` files (instances), and `XProofs.tla`; `TaskProofs` is about `Boards` and
`TimeTracking`, `RealtimeProofs` about `Presence` and `TaskPage`, `ContentProofs`
about `StoredFiles` and `Discussion` too. `tlc -config Outbox.cfg MCOutbox`
checks a run; `tlapm OutboxProofs.tla` checks proofs. Operators called `Mutant`
in a comment are plausible bugs, not used by the specification: replacing the
definition below them must make a named property fail, which shows that the
property can.
