# WorkSync in TLA+

WorkSync is a collaboration web application: a NestJS API over PostgreSQL, Redis and an S3 object
store, a worker process for background jobs, and a Next.js client. This directory holds TLA+ models
of the parts of it where several processes, requests, tabs or stores can disagree, the TLC
configurations that check them on small instances, and proofs that TLAPS checks for instances of any
size.

Paths below are relative to the repository; `backend` stands for `app/backend/src` and `frontend`
for `app/frontend/src`. `PROJECT.json` maps every definition to the lines it translates.

## 1. Inventory

### The system

The API runs as several interchangeable instances. They share nothing but PostgreSQL (rows and
transactions), Redis (rate limits, the job queue) and the bucket; each has its own clock. Everything
a request does between two `await`s is atomic with respect to its own process; anything can happen
in the stores meanwhile. Workers run the session cleanup as a background job; two operator commands
reconcile attachments and control the jobs. The browser keeps the session in memory, shares the
refresh cookie between tabs, and coordinates tabs with Web Locks and a broadcast channel; each
section of its user interface keeps a copy of some rows and reconciles it with late answers.

| Component | State it keeps | Operations | What is hard |
|---|---|---|---|
| Auth sessions (`backend/auth/services/session.service.ts`, `refresh-token.service.ts`, `guards/auth.guard.ts`) | `AuthSession` rows: token hash, absolute expiry, `lastUsedAt`, `revokedAt` | create, refresh (rotate, classify reuse, revoke a replay), logout, logout-all, guard | five awaits in one refresh, each decision taken on an older read; clocks of several instances; reuse by somebody else against reuse by a second tab |
| Session cleanup (`session-cleanup.service.ts`), background jobs (`jobs/`, `worker.ts`) | BullMQ queue in Redis, lock of the one pass that may run | schedule, manual run, deliver, renew, retry, watchdog, shutdown, operator commands | a worker that hangs or loses its lock while it deletes; redelivery |
| Signup, login (`auth.service.ts`, password services) | `User`, `PasswordCredential` | signup, login | unique violations inside transactions |
| Google OAuth (`google-*.service.ts`) | three transaction cookies, `AuthIdentity` | start, callback, exchange, identity resolution | two first sign-ins racing; tabs that share the cookies |
| Rate limits (`auth-rate-limit.service.ts`, `attachment-rate-limiter.service.ts`) | counters in Redis | consume two keys | window boundaries, Redis failing between the keys |
| Attachments (`backend/attachments/attachments.service.ts`) | `TaskAttachment` rows and private objects | reserve, upload, finalize, list, download, delete | two stores without a common transaction; crashes; retries with an idempotency key; quotas |
| Upload stream (`multipart-upload.ts`, `attachment-policy.ts`, `storage/s3-storage.service.ts`) | parser, file stream, inspection, storage upload | parse, pipe, inspect, store, clean up | four concurrent parties, any of which may fail before, while or after another ends |
| Attachment reconciliation (`attachment-reconciliation.service.ts`) | none | list stale rows, HEAD, re-inspect, promote, fail, drop, retry deletions | acts on rows as they were listed; overlaps with requests and with another run |
| Workspaces (`backend/workspaces/`) | `Workspace`, `WorkspaceMember` | create (slug candidates), add, change and remove members | roles read in one statement and used in another |
| Tasks (`backend/tasks/`) | `Task`: status, assignee | create, edit, assign, transition | assignee removed meanwhile; two transitions at once |
| Comments, notifications (`backend/comments/`, `backend/notifications/`) | `TaskComment`, mentions, `Notification` | create, mark read, mark all read, page | recipient removed meanwhile |
| Serializable transactions (`backend/database/serializable-transaction.ts`) | attempt counter | run with bounded retry | a retry starts from another snapshot |
| Projects (`backend/projects/`) | `Project` | create with a unique key, list, read, update | pages that shift under the reader |
| Browser session (`frontend/features/auth/`, `frontend/lib/api/`) | auth state, token, generations, locks, broadcast | bootstrap, refresh, login, logout, reconcile, one retry after a 401 | tabs racing with one cookie; outcomes that settle late |
| Sections of the user interface (`frontend/features/{notifications,tasks,attachments,comments,workspaces,projects}`) | pages of rows, pending flags, abort controllers, drafts | load, refresh, next page, filter, command, cancel, retry | answers that overtake each other or are lost; rows that others change between two pages |
| Health, configuration, error mapping, observability, controllers, DTOs, forms, markup, scripts | none of the application's own | | |

How they meet: login, signup and the Google callback call `SessionService.create`; `AuthGuard` reads the
session row on every request; the browser's coordinator is the client of refresh and logout;
`removeMember` writes tasks and notifications; `createComment` writes notifications; uploads,
deletions and the reconciler meet in the attachment rows and in the bucket; all cross-table
operations go through `runSerializableTransaction`; the cleanup job deletes rows that refreshes are
reading; the sections of the interface talk to the services through the API client, which obtains
tokens from the browser session.

### What makes each part correct

* **Sessions.** A refresh token is exchanged at most once. Only reuse is ever answered as reuse. A
  revocation for reuse hits the rotation it was judged on. A 401 means the session is gone, or
  within the second that `exp` is rounded by. The user is never locked out by rotation. Logout wins every race; revoked rows never come back; the absolute
  expiry is never extended. Every refresh is answered.
* **Cleanup job.** A worker deletes only while it holds the lock of its job; expired sessions go in
  the end, whatever crashes.
* **Accounts.** A Google identity opens only the account it came with or one whose e-mail Google
  vouches for; no account is left without a way in; a conflict that is answered exists.
* **Google round trip, rate limits, upload stream.** A code meets the verifier of its own start. A
  window admits its limit, two windows' boundary twice of it, and no counter stays for good. What is
  stored is the whole inspected file, and every upload is answered that the parser has begun to listen to.
* **Attachments.** An available row has its bytes; stored bytes are counted by some row; a row is
  removed after its object; a begun deletion is never undone; the four limits hold at all times, however
  reservations overlap; an upload answered 201 is the one that is stored.
* **Workspaces, tasks, notifications.** Tasks are assigned and notifications addressed to members
  only; there is exactly one owner, the founder; a removal is decided on the role the member has when
  it is removed; a status changes along the transition table.
* **Browser.** A tab shows the user its requests are made for; a session that was logged out is not
  shown; a login is not undone by what settles after it; no loading screen waits for nothing; lists
  lose nothing that was created, read or posted; a range of a draft reads as the mention it stands for.

`PROJECT.json` lists under "hazards" each line where this can go wrong and the property that would
notice.

## 2. The modules

| Module | Models | Proved in |
|---|---|---|
| `RefreshContract` | what the session endpoints promise, one step per request | |
| `SessionRotation` | the session rows and every suspended refresh, logout and logout-all handler; refines `RefreshContract` | `SessionRotationProofs` |
| `CleanupJobs` | queue, workers, passes and commands of the cleanup job | `ServicesProofs` |
| `Accounts` | signup, login and identity resolution, statement by statement | `AccountsProofs` |
| `GoogleSignIn` | the browser's round trip to Google and back | `ServicesProofs` |
| `RateLimits` | the counters of both rate limiters | `ServicesProofs` |
| `UploadStream` | one upload request: parser, stream, inspection, storage, handler | `ServicesProofs` |
| `Slugs` | `baseSlug` and the candidates of a workspace's slug, against what a slug is meant to be | |
| `AttachmentLifecycle` | rows and objects, upload, delete and reconcile handlers, faults | `AttachmentLifecycleProofs` |
| `WorkspaceIntegrity` | members, tasks, comments' notifications; requests as transactions at the isolation level the code asks for | `WorkspaceIntegrityProofs` |
| `BrowserSession` | tabs, auth stores, the shared cookie, Web Lock and broadcasts | `BrowserSessionProofs` |
| `PageCollection` | numbered pages and their reconciliation, as operators | |
| `NotificationCenter`, `TaskSection`, `AssigneePicker`, `AttachmentSection`, `CommentThread`, `CommentComposer`, `WorkspaceHome`, `ProjectSection` | one component of the interface each, with its requests and the server's list | `SectionsProofs`, `ScreensProofs` |
| `Screens` | `BrowserSession` and the components of the interface side by side | `ScreensProofs` |
| `MC...` | symmetry sets and constants for TLC; `MCServices` puts the small services side by side, `MCScreens` gives `Screens` an instance, `MCAttachmentHostile` puts two bounds on `AttachmentLifecycle` in one run | |

### SessionRotation

`sessions[s]` is the row of id `s` or `None`. `pc[r]` is the `await` at which request `r` is
suspended: `find` (the `findUnique` of `refresh`), `found` (its answer is there, judged when the event
loop resumes it), `rotate` (the `updateMany` that rotates), `reread`/`reseen` (`readObservedSession`),
`revoke` (the `updateMany` of `rejectStaleRefresh`), `revokeAll`; or the answer that was given.
`seen[r]` and `now[r]` are the local variables the handler goes on with. One action per await:

| Action | Code |
|---|---|
| `CreateSession` | `create`, called by login, signup, Google |
| `StartRefresh`, `FindSession`, `JudgeSession`, `Rotate` | `refresh`: `verify`, `findUnique`, the checks and the signing, the conditional update |
| `RereadSession`, `JudgeReread`, `RevokeReplay` | `readObservedSession`, `rejectStaleRefresh` and the loop over them |
| `Logout`, `StartLogoutAll`, `RevokeAll` | `revokeFromToken`; the guard, then `revokeAll` |
| `Cleanup` | one row of a batch of `SessionCleanupService` |
| `Tick` | time |

A token is its claims; the stored SHA-256 is represented by the token it digests, which assumes that
digests do not collide. A signed token cannot be made up, but any token that was ever returned may
be presented, by anybody and any number of times. `Skews` gives each request the clock of the
instance that serves it. `lastUsedAt` of a new row is a column default that either the database or
the client library fills in: both clocks are explored. `seen` keeps, besides the columns `refresh` selects, the whole row; only the selected columns are used.

A row expires at a tick, a token's `exp` is that tick rounded down to a whole second of `Second` ticks
(`WholeSecond`), and `verify` compares it with its own clock in whole seconds. `Issuable` is the check by which `issue` refuses to
sign a token that would have expired already: a sign-in then fails, and a refresh is answered 401. So a
session may still be live, by its row, when a request is told that it is not: but only within the
last second, which is what `UnauthorizedMeansDead` states.

`scope` is a history variable, used by properties only.

### RefreshContract

Each request is one indivisible step: `Exchange` a token for a successor, `TurnAway` (409 or 503),
`Punish` (close the session), `Refuse` (401), `LogOut`, and sessions that `Open` and `Lapse`.
`SessionRotation` implements it under the mapping at the end of that module (`Contract`, with
`Statuses`, `SpentTokens` and `Answered`): a row is `open`, `closed` when it is revoked or removed, and
`unused` before; a token is spent when a request that presented it was answered with a successor.

### CleanupJobs

`record[i]` is a job in the queue (the one of the schedule, the one an operator enqueues) with its
attempts, stalls, and the lock that a worker renews; `worker[w]` a process with the pass it runs;
`session[s]` a row, eligible or not. The pass reads the database's clock once (`ReadClock`), then
begins and commits batches until a batch is short, the budget is spent, or it is stopped
(`BeginBatch`, `DeleteBatch`, `Report`). A batch, a clock reading or a connection may fail or hang
(`AttemptFails`, `Hang`); a worker may crash, be stopped and drain, or be ended by its watchdog; a
record whose lock has run out is delivered again (`Stalled`), a failed one after its backoff.
`PauseOrResume`, `DisableSchedule`, `Enqueue`, `RetryFailed` and `RemoveRecord` are the commands of `control.ts`.

BullMQ is external: its lock duration, global concurrency of one and stall handling are modelled as
`jobs.runtime.ts` configures them. Time is counted in ticks of fifteen seconds from the start of the
pass: `Budget` 0 is the 13 s of the code, `LockTicks` 2 its 30 s lock. `BudgetAssumption` says what
the code's numbers satisfy: a transaction begun within the budget ends before the lock is lost.

### Accounts

`users` and `identities` hold what is committed; `job[j]` is a request between two statements of
`AuthService.signup`, `login` or `GoogleIdentityService.resolve`, with what its transaction has written so far. Transactions
run at READ COMMITTED; an insert that meets another transaction's uncommitted key waits, and fails
with P2002 once that row is committed (`Conflict`): the Google resolution is then retried once, a
sign-up is answered with a conflict. `Abort` is any other failure.

### GoogleSignIn

`tab[t]` is a page on its way through start, consent, callback and landing; `cookie` the transaction
in the three cookies, which all tabs share and which are set and cleared together. Number `n` stands
for the state, nonce and verifier of one start and for the code Google issues for it.

| Action | Code |
|---|---|
| `ContinueWithGoogle`, `GoogleLogin`, `Redirected` | the button, `begin` with its three cookies, the answer that sets them |
| `Consent`, `Visit` | Google; the browser opens the callback's address |
| `Validate`, `ExchangeCode`, `CallbackAnswered` | `validateState`, `complete`, the answer that clears the cookies |
| `Lose`, `Again`, `Return`, `CookiesExpire` | an answer is lost, a callback is opened once more, the landing page, the cookies' lifetime |

### RateLimits

`count` and `ttl` are the counters of the script in Redis; `recent` is a history of what was let
through, and `LetThrough(k)` the requests that it counts. A request (`Enter`) consumes its two keys one
after the other (`Consume`) and is let through when both allow it; `StoreFails` answers 503 whenever
Redis does not. Calls and answers may be lost, counters not: a Redis that is flushed or restarted without its data is outside of the model. `Elapse` is a tick. Time is relative, so nothing bounds it.

### UploadStream

`form` is the parser (the promises `ready` and `completed` of `parseAttachmentUpload`), `file` the
stream and the inspection it is piped into, `work` the handler and the storage client. A request
first waits for `AuthGuard`; only then does the parser listen to it (`Listen`), and a client that
leaves earlier is not heard by anybody (`LeaveUnheard`). The client
sends any parts and blocks in any order, stops (`BodyBreaksOff`) or ends; the handler checks the request
(`Decline` stands for every refusal before the transfer, during which the stream is paused), pipes,
and waits for both the storage and the parser (`Finish`, `GiveUp`, `Cleanup`). Ending of a part, of a
body and of the parser are busboy's events.

### Slugs

The pipeline of `baseSlug` and `appendSlugSuffix` is evaluated for every name of up to five
characters over letters and separators, with a short maximum: each result is a slug (words joined by
single hyphens, within the limit), a slug is left as it is, and candidates are told apart by their suffix.

### AttachmentLifecycle

`rows[s]` is the row of slot `s`: an idempotency key with its task and uploader (`TaskOf`, `CreatorOf`)
and the size its uploads declare (`Size`), all in one workspace; `objects[k]` what the bucket
holds under `k`. An object key is random per attempt, so the upload that reserved it names it; a
row's id is the upload that created it. `up`, `del` and `rec` are the suspension points of the three
handlers; the steps after the reservation each touch one store.

A reservation is a serializable transaction of two steps. `BeginReserve` takes the snapshot: it answers from the row
of the slot, or finds room under the four limits (`QuotaLeft`). `CommitReserve` writes the row. What another
reservation of the workspace has committed in between is not in the snapshot, while each of the two has counted
rows of the kind the other writes: PostgreSQL lets only one of them commit, so a commit empties
`current`, the set of the transactions that still may. An aborted one begins again, or gives up
(`GiveUpReserve`) when its attempts are exhausted or another request has created the row. Aborts are
possible at any time. An uploader's pending uploads in other workspaces count against its limit too and
are left out: they only make refusals earlier. The bytes of a set of rows are counted as a set with
one element for each byte (`Bytes`).

The faults are switched on by name in `Faults`, so that each run
says under which of them its properties hold.

The items of one reconciler run are treated one after the other in the code and concurrently here:
this allows an observation to be as old as the whole run, and adds behaviours, none of which a
property depends on. `Age` lets a row become stale for the reconciler: never under a request in
progress unless `slow_upload` is on, for the thresholds are an hour.

### WorkspaceIntegrity

`pc[r]` is `ready` when the transaction of request `r` has read and checked everything and has yet
to write; `authorized` between the statements of a READ COMMITTED request; `retry` while
`runSerializableTransaction` waits for its next attempt. A serializable request takes its snapshot
and makes all of its checks in `Begin` or `Retry`, and writes in the action named after it.
PostgreSQL is modelled by footprints: a commit dooms the transactions that would overwrite a row it
wrote, and those which form a cycle of read-write conflicts of length two with it. Dangerous
structures of three transactions are not detected by the model, which therefore commits
*more* than PostgreSQL does; and `Abort` may happen at any moment, because PostgreSQL also aborts
transactions that were serializable. READ COMMITTED requests (`addMember`, `updateMember`,
`transitionStatus`) act on the latest commit, with the guards their `where` clauses have and no
more. Refused requests change nothing and are left out.

### BrowserSession

`tab[t]` is what a tab shows and the access token it holds; `call[t]` its refresh or logout, queued for
the Web Lock, in flight or answered; `inval[t]` the validation (`/api/auth/me`) that a broadcast
invalidation starts, `again[t]` and `inbox[t]` the invalidations behind it; `login[t]` a session whose
answer is on its way. What runs in one turn of a tab's event loop, promise reactions included, is one
step. A session stands for all access tokens of it, and `fresh` says whether a refresh token still is
the one its session accepts. The API is what `RefreshContract` says it is: `StartReconcile` and
`Overtaken` are the generation check of `reconcileSessionInvalidation`. `LockTimeout` lets a waiting
tab give up while the holder goes on. `told` is a history: the sessions whose end a tab has announced,
but for those whose sign-in answer some tab still waits for.

### The sections of the interface

Each module has the same four variables: `server` (the rows, and requests that may still take effect
after the client aborted them), `view` (the component's state and refs), `net` (requests with their
answers, not yet delivered), `past` (history and bounds). `Serve...` is the API handling a request,
`...Arrives` the promise reaction in the component, `Fail` a lost or failed answer, `Elsewhere` what
other users do to the rows; the other actions are handlers of the user's events, with the guards that
the markup gives them (a disabled or absent button). A request whose answer the component can no
longer observe, because it was aborted or superseded, is forgotten at once.

* `NotificationCenter`: first page, refresh, older pages by cursor, marking one and all read; the
  revision that tells answers from before a command from those after it.
* `TaskSection`: status filter, pages by number, transitions with their awaited reload, the dialog
  that confirms a cancelation, the form that saves. The assignee filter reloads the list as the status
  filter does and is left out.
* `AssigneePicker`: typing, composition, debounce, search, pages. `AttachmentSection`: list, one upload
  with cancel and retry, downloads, deletion.
* `CommentThread`: newest page, older pages, posting. `CommentComposer`: a draft over three
  characters (at sign, blank, letter), composition, search, selection, trimming, posting, and what
  `comment-contract.ts` accepts.
* `WorkspaceHome`, `ProjectSection`: pages by number, refresh, creation, selection.

## 3. The runs

| Run | Instance | Shows |
|---|---|---|
| `SessionRotation` | 2 sessions, 2 requests, clocks that disagree by a tick, half a second, and 3 ticks | `UnauthorizedMeansDead`, `LogoutFinal`, `RevocationFinal`, `ExpiryAbsolute`, and the refinement `ImplementsContract` |
| `SessionRotationLive` | 1 session, 3 requests, grace window, fairness | `OneSuccessorPerToken`, `CurrentTokenUsable`, `OnlySpentTokensRejected`, `ReplayEvidence`, `RefreshAnswered` |
| `AttachmentLifecycle` | 1 key, 3 uploads, 2 deletions, 1 reconciler, limit 1; crashes, failing storage and database, tampered bytes | `AvailableHasObject`, `NoOrphanObject`, `CreatedMeansStored`, `RemovedMeansErased` |
| `AttachmentHostile` | every fault, and one of: 1 key, 2 uploads, 1 deletion, 1 reconciler; 4 keys of 3 tasks and 3 uploaders, 3 uploads, 1 deletion, a size of two bytes among those of one | `DeletionIsFinal`, `QuotaRespected` |
| `AttachmentTwoRuns` | 3 uploads, 2 reconcilers, a crash | counterexample to `AvailableHasObject` (finding) |
| `AttachmentLostAck` | 2 uploads, lost acknowledgement | counterexample to `AvailableHasObject` (finding) |
| `WorkspaceIntegrity` | founder and one user, 1 task, 1 comment, 2 requests, all operations | `OnlyMembersNamed`, `OwnerRemains`, `StatusLifecycle`, `RemovalRespectsRank` |
| `WorkspaceRoles` | 3 users, 2 role changes | counterexample to `UpdateRespectsRank` (finding) |
| `Services` | one of: 3 sign-ups and sign-ins over 2 subjects and 2 addresses; 2 clients sharing an address; 2 tabs, 2 starts, 2 callbacks; one upload of up to 3 blocks; 2 workers, 2 sessions | `LinkedByOwner`, `AccountReachable`, `RefusalIsReal`; `WindowBound`, `KeyReopens`; `CodeMeetsItsVerifier`; `UploadWhole`, `UploadAnswered`; `NoAbandonedWriter`, `EventuallyDeleted`; the assumptions of `Slugs` |
| `Screens` | one of: 2 tabs and 2 sessions; each section of the interface with 2 to 4 rows and pages of one | `SnapshotMatchesToken`, `EndedSessionsHidden`, `NewerLoginKept`, `NoSpinnerLeft`, `CreatedNotReplaced`, `ReadStateKept`, `OneRowPerFile`, `MentionsReadLabels`, `ThreadUnbroken`, `OfferedMatch` |
| `TaskFilter` | 2 tasks, 2 filters | counterexample to `CurrentFilterShown` (finding) |
| `CommentMentions` | 2 members, drafts of 6 characters | counterexample to `MentionsDisjoint` (finding) |

`Services` and `Screens` check independent state machines side by side: the initial state chooses one
of them, the variables of the others stay as they are, and no step belongs to two. This is a union of
runs, not a product. Their properties are those of the modules they instantiate. `AttachmentHostile`
is in the same way a union of two bounds (`Within`) on `AttachmentLifecycle`: `MaxHostileUploads` uploads of
the slots in `HostileSlot` beside the reconciler, or overlapping reservations of all slots, of which
`MaxReleases` fail, crash or are deleted, without it.

**Bounds.** Races of refresh need a winner, a loser that is delayed, and a third rotation that
outdates what the loser saw: three requests. Two sessions are what logout-all and the reuse of ids
need. Grace 1 with `Lifetime` 2 or 3 makes grace window, reuse after it, expiry, retention and the
ticks between them fit; `MaxClock` is past the expiry and retention of the first session. In
`WorkspaceIntegrity` two requests suffice for the two-transaction conflicts PostgreSQL's levels differ
in, any user other than the founder is as good as another, `Grants` keeps one role that may act on
others and one that may not, and `MaxRetries` 1 shows a retry and the exhaustion of retries (the code
has a longer list of delays; the proofs hold for any length). Attachments: three uploads of one key
are a first attempt, a retry and a retry of the retry, which is what it takes for a row to be reserved
under a key somebody does not expect; the limits are 1, so that refusals happen. In `AttachmentHostile`
keys 1 and 4 share a task, 2 and 4 an uploader, 1, 2 and 3 would be three pending uploads, and a stored 4
leaves one byte of three: each limit is the only one to refuse some reservation, and leaving any of
them out, or committing without regard to `current`, breaks the property. `Second` is 2 where 401 is
judged, so that an expiry may fall between two seconds, and 1 in `SessionRotationLive`.

Accounts: three requests are two that race and one that comes after them or between; the five kinds of
request meet on every unique constraint. Rate limits: a shared key with limit 2 and two own keys with
limit 1 make either of the two refuse; time is relative and unbounded. Google: two tabs with two
starts are what sharing cookies takes, and the second visit is a callback opened again. Uploads: three
blocks put the signature before, in and after a block that ends the body; one block more is too
large. Cleanup: a batch of one row and two sessions make a pass of two batches; `MaxFaults` and
`MaxControls` 1 put one crash, hang or failed attempt and one command at any place. The browser: two
tabs, one that signs in and out and one that works, two sessions with different users, one failure or
reload (`MaxFailures`), one invalidation waiting at a tab (`MaxInbox`). The sections: pages of one row, so that
two rows make a second page and three a gap between pages; `MaxEvents` and `MaxTroubles` count
what others do and what fails, and, in the task section, commands; `Filter` has one status in `Screens`, and two
where the finding needs them. A draft of five characters holds a mention with one-letter label, text around it, and the start
of another.

**Symmetry** is used with safety properties only: sessions, requests, users, uploads, and in
`Screens` the two tasks. `SessionRotationLive` and `Services`, which check liveness, use none.

**Deadlock** is not an error in any run: requests are finite in number and, once all are answered
and the bounds are reached, nothing is left to do.

**Fairness.** `SessionRotationLive` assumes weak fairness of `Handle(r)` for each request: the
database answers a pending call and the event loop resumes the handler. Neither clients nor the
clock nor the cleanup are fair. An API process that dies in the middle of a request leaves its
caller without an answer; that is outside of this property.

`EventuallyDeleted` assumes weak fairness of time, of the schedule becoming due (`Due`), of what
Redis does to a record (`Backoff`, `Stalled`), and of each worker's own steps: starting, going on with
its pass, and the watchdog. That a worker that has ended is started again is the restart policy of its
container (`docker/compose.app.yml`: `restart: unless-stopped`). Commands, crashes and hangs are not
fair, and the property excepts a queue that is paused and a schedule that is removed.

`UploadAnswered` assumes weak fairness of the request's own progress (`Progress`): the parser, the
inspection, the storage client and the handler go on when they can, and a client that stops sending
ends or disconnects (Node's default request timeout sees to it). The guard's call to the database is
answered (`Listen`). Sending more is not fair. The property excepts a request whose client left before the
parser listened, which the code leaves waiting.

## 4. Findings

1. `AttachmentTwoRuns`: `markFailed` of the reconciler names a row by id and status but not by the
   key it listed. With two overlapping runs a retried upload is failed under the feet of its handler,
   a second retry moves the row to another key, and the first handler then makes available a row
   whose object does not exist.
2. `AttachmentLostAck`: an update to `AVAILABLE` that commits and whose answer is lost is followed by
   the deletion of the object; the plan says that the row is retained and reconciled.
3. `WorkspaceRoles`: `updateMember` decides at READ COMMITTED on a role that may have changed when
   the row is updated by id, whereas `removeMember` is serializable: an ADMIN can so change an ADMIN.
4. `TaskFilter`: the reload after a transition (`task-section.tsx:228`) uses the filters of the render
   in which the transition was started and replaces the list of a filter chosen meanwhile; the plan
   says it reloads "with the current filters".
5. `CommentMentions`: the end of a composition (`mention-comment-composer.tsx:239`) opens the query of
   a finished mention again, which edits do not; selecting a longer candidate adds a mention over the
   first, and the API refuses the comment.

### Observations without a run

Where a document and the code differ in something no property is about, or where behaviour is worth
knowing:

* The grace window of a reuse is measured from a clock reading taken before the successor is signed
  and the rotation is written (`session.service.ts:145`, `:180`);
  `auth-session-concurrency-hardening.md:67-68` promises it from the rotation.
* `docs/api-design/authentication.md:54-56` (also `auth-workflow.md:102-104`,
  `security-model.md:68-69`) says that tabs validate a broadcast invalidation without a refresh. The
  validation publishes `loading`, on which the guard's `bootstrapAuth` starts a refresh beside it.
* Without Web Locks, `EndedSessionsHidden` does not hold: a refresh may be granted while another tab's
  logout is on its way. The runs have locks, and so has the theorem (`WebLocks`); the other theorems
  of `BrowserSession` cover both.
* A logout from all devices may end a session whose sign-in answer is still on its way to another tab.
  The announcement then reaches that tab before the answer does, and the tab shows the ended session
  until its next request is refused. `told` leaves such sessions out: `EndedSessionsHidden` speaks of
  the others.
* Two sign-ins with Google in two tabs overwrite each other's cookies, and the first callback's
  `clear()` (`auth.controller.ts:128`) makes the other fail; neither exchanges a wrong code.
* With three racing first sign-ins `IDENTITY_CONFLICT` may be answered for a second unique violation,
  although the account is there and one more try would sign in.
* A manual run of the cleanup is not enqueued while the record of the previous one is retained (as
  documented).
* An upload whose client leaves between the parser's readiness and the transfer is piped from a
  destroyed stream: the storage client waits on it for good, and only the parser's promise ends the
  request.
* A client that disconnects while `AuthGuard` is awaiting the session is never heard: the parser attaches
  its listeners afterwards (`multipart-upload.ts:110-112`), nothing settles `ready`, and the handler waits
  for good. It holds no reservation and no object by then.
* Within the last second before its expiry a session is refused to refresh although its row is live
  (`refresh-token.service.ts:29-34` rounds `exp` down, `session.service.ts:151` compares milliseconds).
* A PUT that was aborted but is applied after the HEAD that found nothing (`late_put`) leaves an
  object without an object-bearing row: no document claims otherwise, so `NoOrphanObject` is checked
  without that fault, and no other property would notice.
* `docs/api-design/attachments.md:45-50` omits the retry FAILED -> PENDING that `reserveUpload` performs.
* Notifications: an older answer may put back the unread count (`notification-center.tsx:349`; the
  read state itself is kept); an older page requested during a refresh may leave a gap, or show a
  notification unread that was marked while it was not listed.
* Tasks: a next page takes over the abort controller of a reload; a reload takes the open form off
  the page; a task that leaves the filter between two pages shifts the next page past another one.
* Attachments: a list requested before a deletion may show the deleted file again.
* Comments: a letter typed directly before a mention makes a draft the API refuses
  (`comment-contract.ts:46-48`); candidates of the previous query stay until the next answer, and can be chosen while a
  post is pending; a post whose answer is lost and that is sent again is stored twice.
* Projects: "Refresh projects" removes the create form and aborts its request, which the API may
  have carried out. Picker: `select()` keeps its candidates, so that "load more" may append to them.

## 5. Proofs

Each `...Proofs` module proves its theorems for every value of the constants that satisfies the
named assumptions of the module it extends. None assumes anything else, except where the statement
says so: four theorems of `AttachmentLifecycleProofs` begin with `ASSUME OneRun, Benign`, `ExpiryIsAbsolute`
with `ASSUME SkewWithinRetention` and `EndedSessionsAreHidden` with `ASSUME WebLocks, MaxInbox # 0`. Every
safety property that a passing run checks, invariant, action property and refinement alike, is the
statement of a theorem.

### SessionRotationProofs

`TypeCorrect`, `SingleUse`, `OnlyReuseIsRejected`, `RevocationHasEvidence`, `UnauthorizedIsDefinitive`,
`NoLockout`, `LogoutWins`, `RevocationIsFinal`. All follow from one inductive invariant `IInv`, since
the properties alone say nothing about handlers that are still suspended:

* `TokensOwned`: whatever is presented was issued, and a successor's `jti` names the request that
  minted it, which has been answered. So tokens minted by different requests differ.
* `ClaimsMatchRow`: a token states the owner of its row and its expiry rounded down to a second, neither
  of which changes; `WholeSeconds` and `LastSecond` say what the rounding may take away.
* `OneCurrentToken`: the hash of a row is an unspent issued token of that session; every other token
  of it is spent. This carries `SingleUse` and `NoLockout`.
* `ReadsArePast`: what a suspended handler has read bounds what the row can be now: a missing row
  stays missing, a revoked one revoked, a superseded token spent.
* `HandlerKnows`: what each suspension point has established (the classification that led to
  `revoke`, the number of lost revocations).
* `ScopeKnown`: the sessions a logout has to cover belong to the user it will revoke.

Each part has a lemma of its own, over `WhoMoves` (a step changes at most one request, and how) and
`RowSteps` (what a step can do to a row).

`ExpiryIsAbsolute` assumes that no instance's clock is behind the database's by more than the retention
(`SkewWithinRetention`): the cleanup judges by the database's clock, and an instance further behind
would still take a removed session for live.

`ImplementsTheContract` is the refinement: every step of `SessionRotation` is, under the mapping of
`Contract`, a step of `RefreshContract` or a stutter. A request that comes is `Present`; it is `Exchange` where its
conditional update commits, `Punish` where the replay is revoked, `Refuse` or `TurnAway` where it is
judged; the other reads, the re-reads and time are stutters. `Awaited` (a suspended request is unanswered, and its token was
issued) and `SpentStays` (only a rotation spends a token) are what most steps rest on.

### WorkspaceIntegrityProofs

`TypeCorrect`, `OnlyMembersAreNamed`, `OneOwner`, `TasksFollowTable`, `RemovalsRespectRank`, again from
one inductive invariant. The properties speak of rows; what keeps them true is what suspended requests
may still do:

* `OpsKnown`: a request ready to write names existing tasks, never the founder, and a transition
  that the table allows from the status that was seen.
* `FootprintsKnown`: the footprints of two operations that must not both commit on one snapshot meet
  in both directions. A removal reads the tasks and the inbox of the member and deletes the
  membership row; an assignment or a mention reads that row and writes into what the removal read.
* `SnapshotHolds`: a serializable request whose commit would succeed saw what is still the case: the
  assignee and the mentioned are members; the removed member has the role it was judged by, and all
  of its tasks and notifications are in the write set.

`Steps` sorts the steps into private ones, which change no row, and commits; `HoldsAfterCommit` shows
for every kind of commit that each other request either keeps what it saw or is doomed (`RowDooms`,
`CycleDooms`). That nothing is assumed of the commits' order is why the result holds for any number
of requests.

### AttachmentLifecycleProofs

`TypeCorrect`, `DeletionsAreFinal` and `QuotasAreRespected` hold under every fault and any number of
reconciler runs; they follow from `Typed` (types, and what a handler knows of the item it holds) and,
for the quotas, from `OpenHasRoom`: a reservation that may still commit has room under all four limits, because no other has committed
since its snapshot and every other step only takes from what the limits count (`CountsKept`).
`ReservedFits` counts what the commit adds. `Bytes` makes the sum of the declared sizes the size of a set, which
needs no induction (`BytesMore`).

`AvailableIsStored`, `ObjectsAreOwned`, `CreatedIsStored` and `ObjectsGoFirst` assume one run of the
reconciler (`OneRun`) and none of the three faults under which the code makes a row available without
its object (`Benign`; the findings show why two runs and lost acknowledgements break it). Their invariant `IInv`
says of every suspended handler what it may rely on:

* `FreshOK`, `UniqueOK`: an attempt's id and key are new until it has reserved, and in one row afterwards.
* `UploadOK`: a running upload owns its pending row, not yet old enough for the reconciler; what it has sent is stored.
* `RowOK`: an available row has its object; a failed one has none.
* `DeletionOK`, `ItemOK`: whoever erases an object holds a row that is being deleted; whoever promotes,
  fails or drops a row has seen an object, or its absence, that still is the case.

### AccountsProofs

`LinksAreOwned`, `AccountsAreReachable`, `RefusalsAreReal`. The invariant has, besides the types and the
three properties, `JobOK` (what a request at each statement knows of committed rows), `Exclusive` (two
open transactions never hold rows with one key, which is what the unique constraints do) and
`LinkersDone` (an identity was linked by a request that is over).

### ServicesProofs

* `NoAbandonedWriterHolds` (cleanup). While a pass runs, the lock of its job is its worker's and no
  older than the pass, and the pass is no older than the budget and the transaction it began
  (`LivePass`). With `BudgetAssumption` this keeps a second delivery from coming before the pass is over.
* `KeysReopen` and `TwiceTheLimit` (rate limits). A counter exists exactly while it has an expiry
  (`Clocked`). For the bound, `Windowed` cuts the last `Window` ticks where the current counter began:
  what was let through since is at most what was counted, and what was let through before belongs to
  an earlier counter and is within the limit too. `WindowBound` counts a set of requests instead of
  summing their numbers, which needs no induction: a tick is an injection of the later set into the
  earlier (`StretchElapses`), and a request that passes adds one element (`StretchGrows`).
* `CodesMeetTheirVerifiers` (Google). A transaction whose answer has not reached the cookies is known to one tab
  (`KnownToOne`), and the cookies never hold one whose callback's answer the browser has got (`Unsettled`).
* `UploadsAreWhole` (uploads). `Spoiled` says what can never become a whole body again, whatever
  the client sends; one conjunct each for the parser, the inspection, the rejections and the handler says what
  they have established.

### BrowserSessionProofs

`TypeCorrect`, `SnapshotIsTheTokens`, `NewerLoginIsKept`, `LoadingTabsAreAnswered`, for any number of
tabs, with and without Web Locks. `Consistent` adds to the properties that a tab which is signed in
while a validation is under way has signed in since it began, so that the validation's outcome is
discarded.

`EndedSessionsAreHidden` needs more (`LInv`): only the holder of the Web Lock has a request in flight
(`LockHeld`), so that a refresh which was granted is of a session that is alive until its tab hears of it
(`GrantedAlive`); a sign-in on its way is never of an announced session (`LoginsOpen`); and a validation that is about to
show its session again has an invalidation behind it if the session has ended since (`Confirmed`).

### SectionsProofs and ScreensProofs

One inductive invariant per component, for any page size, any sets of rows, filters, queries and
members, drafts and labels of any length, and any bounds on what others do. `ScreensInv` puts them side by side, and the
seven theorems follow: `SpinnersAreAnswered`, `CreatedStaysShown`, `ReadStaysRead`, `FilesAreStoredOnce`,
`MentionsReadTheirMembers`, `ThreadsAreUnbroken`, `OfferedMembersMatch`. What each invariant adds to its
properties is what an answer on its way may still do:

* `HomeInv`, `ProjectsInv`: a request in flight is the one its flag waits for, a refresh and a creation
  exclude each other, and what was created is in the server's list until somebody removes it.
* `SectionInv`, `FilesInv`: keys and files stand for each other in rows, in requests that the server may
  still apply, and in the attempt the section shows; no two rows have one key.
* `TasksInv`: a loading screen has a request of its own in flight, and a form's save is sent only
  while the list is shown.
* `PickerInv`: whatever a search in flight can still find matches the text in the field.
* `PanelInv`: an answer that shows a notification as unread which a command has read is one whose
  merge keeps the read state (`PanelAnswer`).
* `ThreadInv`: an answer is a stretch of the thread without gaps that ends below its cursor, and the
  cursor is the oldest comment shown.
* `ComposerInv`: a query is a range of the text, none is open during a composition, and the ranges of
  the draft and of a post on its way read as their members' labels. The lemmas on `Cut` and on joined
  texts say what an edit leaves in place.

The assumptions on constants are those of `Screens`: sizes are naturals and the sets of rows finite
(`SizesAssumption`), a search finds some of the members that the empty search finds
(`SearchAssumption`), labels are texts (`LabelAssumption`), a new task is in BACKLOG
and a task can be canceled (`StatusAssumption`), and `None` is not a request (`NoneAssumption`).

### Model-checked only

`RefreshAnswered`, `EventuallyDeleted`, `UploadAnswered`: liveness under fairness is beyond the prover.
The assumptions of `Slugs` are evaluated by TLC; what their folds compute for every name would need induction
over names. The five properties of the findings are false.

## 6. Not modelled

* Password hashing, JWT signatures, digests, file names and header values: functions of one
  request's data; an outcome (valid or not) is an input of the models.
* Listing, reading and downloading on the server: they change nothing; what a list answers is part of
  the interface's models.
* The loop over slug candidates and the refusal of a project key in use: one unique violation each.
* The readiness probe of the worker, its shutdown deadlines, and the pause of a queue with more than
  ten waiting jobs. A process that is frozen for longer than its lock and wakes up is not modelled
  either: its watchdog runs on its own clock.
* Creation of the bucket.
* The loss of the rate limits' counters, and an uploader's reservations in other workspaces.
* Limits on the length of a draft and the number of its mentions; they are far from what bounded
  checking reaches.
* Health, configuration, logging, error mapping, DTO validation, the login and signup forms, markup,
  scripts.

## 7. Plan

Done: sessions, accounts, Google, rate limits, uploads, attachments, workspaces, the cleanup job, the
browser session and the sections of the interface, with a theorem for every safety property that holds.

What would add most next: a composition of `BrowserSession` with a section, for commands that are sent
again after a 401; the readiness probe and the shutdown deadlines of the worker; `AvailableHasObject`
under several reconciler runs, once the code names a row by the key it has listed.

## 8. Running it

In this directory, `tlc -config <run>.cfg <module>` for the pairs in `PROJECT.json`, and
`tlapm <module>.tla` for the `...Proofs` modules. Every run ends within three minutes on two cores;
`Screens` is the longest.
