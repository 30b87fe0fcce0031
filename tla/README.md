# A verification project for outlook-agent

outlook-agent is an MCP server (Go) that lets an AI agent work on a mailbox
through Microsoft Graph, OWA or EWS. Its promise is that nothing risky happens
to the mailbox unless exactly that operation was dry-run, confirmed and, where
the operator asks for it, approved by a human on the host. This directory
states that promise in TLA+, checks it with TLC on small instances and proves
its core with TLAPS for all instances.

## The system

| Component | State | Operations | Interacts with |
|---|---|---|---|
| Policy engine (`internal/policy`) | none | `Evaluate`, `EvaluateConfirmed` | asked by the MCP handlers |
| Confirmation store (`internal/confirm`) | token -> fingerprint, expiry | `Generate`, `Consume` | dry runs fill it, confirm calls empty it |
| Approval store (`internal/approval`) | challenge -> binding, expiry; the policy of the runtime | `Issue`, `Validate`, `Consume`, `RequireApproval`, `ValidateLegacyToken` | dry runs fill it, the host signs, confirm calls validate and later consume |
| MCP handlers (`internal/mcpserver`) | locals of each call | `action_dry_run`, `action_confirm`, `raw_action`, typed tools | all stores, the transport, the audit log |
| Cursor store (`internal/cursor`) | cursor -> link, expiry; leases | `Issue`, `LeaseScoped`, `CommitLease`, `RollbackLease` | `mail_search`, `mail_search_next` |
| Manifest store (`internal/manifest`) | manifest -> ids, expiry | `Issue`, `Get` | message mutations, body audit |
| Audit log (`internal/audit`) | a file | `Record` | every handler |
| OWA transport | a cached session | login, invalidate, service calls | secret store, provider |
| Graph transport | a cached token; device codes being polled | refresh, enrolment, requests | secret store, provider |
| EWS, fake transport | none / a fake mailbox | requests | provider |
| Setup (`internal/setup*`) | files of the agents it configures | plan, diff, apply | file system, the user's edits |
| OWA discovery | pages read so far | `owa discover-actions`, `discover-action-context` | OWA server |
| Calendar planning and find-time | none | `FindSuggestions`, `calendar.find_time` | calendars of organizer and attendees |
| OWA calendar changes | none | `calendar.create_meeting`, `delete_event`, `cancel_meeting` | OWA server, its other clients |
| Secrets, config, CLI | files, key chain | read and write | everything at start |

Requests run concurrently, one goroutine each. They share the stores, whose
operations are atomic (a mutex each), but a handler makes several store
operations and provider calls in a row and other handlers run in between.

What is hard about it:

- *Interleaving.* Several confirm calls race for a token, a challenge or a
  cursor. An approval is validated in one step and consumed in a later one.
- *Staleness.* The item under review changes at the provider between the dry
  run and the confirmation; some handlers ignore an error of their own review.
- *Time.* Tokens, challenges, cursors and leases expire in the middle of a call.
- *Failure.* The provider's answer is lost, so nobody knows whether the
  operation took effect; the random source, the audit sink or the provider
  fails half-way; the server restarts and its stores are empty; of several
  messages or files some succeed.
- *Others.* Other clients move the messages and change the events that a call is
  about, the user edits the files that setup writes, pages link in cycles.

`PROJECT.json` lists the hazards one by one, with the properties that watch
them.

## Modules

| Module | Models |
|---|---|
| `Policy` | the two decision tables and the high-risk classes |
| `ConfirmStore` | `internal/confirm`: the operations of the token store |
| `ApprovalStore` | `internal/approval`: the operations of the challenge store, the approval policy |
| `ConfirmGate` | the handlers of `internal/mcpserver` that dry-run, confirm and execute, with host, provider edits, clock and restarts; composes the three above |
| `OneShotGrant` | abstract: something offered once, spent once, performed once |
| `CursorStore` | `internal/cursor`: cursors and leases |
| `SearchPaging` | `mail_search` and `mail_search_next`; composes `CursorStore` |
| `OwaSession` | `internal/transport/owa`: the cached session, logins and their retries, the second attempt of a service call |
| `GraphToken` | `internal/transport/graph`: the token cache, the refresh under its mutex, the credential in the secret store, its rotation by the provider, enrolments |
| `ManifestStore` | `internal/manifest`: issue and get |
| `BulkMutation` | mutations of several messages by Graph and OWA, their manifests, and the audits of bodies by manifest; composes `ManifestStore` |
| `SetupApply` | `internal/setup`, `internal/setupopencode`: plans and how they are applied |
| `DeviceCode` | `oauth_device_code.go` of the Graph transport: the enrolment until the credential is stored |
| `Discovery` | `discovery.go` of the OWA transport |
| `FindTime` | `internal/calendarplan`, and `calendar.find_time` of OWA and Graph around it |
| `CalendarEvents` | the changes of the OWA calendar, beside other clients |
| `Activities` | composes the last five, which the program's dispatch chooses from |
| `Null` | the constant that those five share |
| `Selection` | what a loop that keeps some elements makes of a sequence; used by `BulkMutation` and `FindTime` |
| `MCConfirmGate`, `MCSearchPaging`, `MCOwaSession`, `MCGraphToken`, `MCBulkMutation`, `MCActivities` | instances for TLC |
| `ConfirmGate_proofs`, `SearchPaging_proofs`, `OwaSession_proofs`, `GraphToken_proofs`, `BulkMutation_proofs`, `SetupApply_proofs`, `Activities_proofs`, `Selection_proofs` | theorems |

Definitions that a comment calls a seeded fault are no part of the model:
`PROJECT.json` names, for each property, the fault that must violate it.

### ConfirmGate

A call is a member of `DryRun` or `Confirm`; `pc` says which step it took last,
and its locals (`offered`, `request`, `pending`) last until it ends. Each store
operation and each provider call is one step, so any two calls interleave
wherever the code allows it. `BindingOf(c)` is what `confirmationBindingFor` and
`approvalBindingFor` fingerprint: operation (action, payload and profile),
unsafe mode and review.

| Code | Action |
|---|---|
| `dryRunHandler`: refusals; review and policy; `Generate`; `Issue`; answer | `DryRunRefuse`, `DryRunReview`, `GenerateToken`, `IssueChallenge`, `DryRunFails`, `DryRunRespond` |
| input checks of the executing tools | `RejectInput` |
| `dryRunReviewFor` in a confirm call | `ReviewAgain`, `ReviewFails` |
| `policy.Evaluate` in `raw_action` and single-message mutations | `EvaluateDirectly` |
| `validateExternalApproval` | `ValidateApproval` |
| `confirm.Store.Consume` | `ConsumeToken` |
| `consumeExternalApproval` | `ConsumeApproval` |
| `confirmedActionDecision` and the confirm event | `AuthorizeExecution` |
| `Transport.Execute` | `Execute` |
| the execute event and the answer | `RecordExecution` |

The handlers differ in which of these steps they make: `ChecksReviewError` and
`RechecksPolicy` name those that stop on a failed review and those that ask the
policy again. `OpInfo` gives, per operation, what the gate reads in it: the
safety class, the handlers that can execute it, whether its review looks at the
item at the provider, whether the target is explicit and whether the payload is
well formed.

Abstractions. A token is the dry run that made it, since 256 random bits do not
repeat and cannot be guessed; a fingerprint is the binding it is the hash of; a
signature is the id of the challenge signed, which nobody but the host makes. An
agent presents any token and challenge it was answered, spent or not, together
with any signature the host made.

What the gate cannot see is an edit between the confirm call's own review
(`ReviewAgain`) and `Execute`: neither the code nor the provider compares the item
again, so `HighRiskIsConfirmed` and `HighRiskIsApproved` are about the item as it
was at that review. The model has such edits (`RemoteEdit` at any time).

### SearchPaging

`mailSearchHandler` is `BeginSearch`, `ProviderAnswers` / `ProviderFails`,
`SearchFails`, `IssueCursor` / `IssueFails` and `Answer`;
`mailSearchNextHandler` is `LeaseCursor` / `LeaseIsRefused`, the same provider
steps, `RollBack` or `Commit`, and the same end. `FetchTime` is the assumption
about the provider: how long a reader may be between its lease and its commit.

### OwaSession

A call is a probe (`Authenticate`), a typed service call or a raw one. The mutex
is a record of the login that holds it (when it read the clock, how often it has
posted the password), because `login` holds `Transport.mu` from its look at the
cache until the session is stored, through secret, posts and back-off.

| Code | Action |
|---|---|
| `login`: cache hit; miss; secret | `TakeCachedSession`, `StartLogin`, `ReadSecret` |
| `loginWithRetry`, `loginOnce` | `LoginSucceeds`, `LoginFails`, `BackOff` |
| `executeServiceOnce`, `executeRawServiceOnce`, by outcome | `ServiceAnswers`, `ServiceFails`, `ServiceRefuses`, `LogonPageIsAnswered` |
| `invalidateSession` and the second attempt | `InvalidateAndRetry` |

A session is a number; the server forgets any of them at any time, and may refuse
a request whatever session it comes with. A request whose answer is lost may or
may not have been applied.

### GraphToken

A task is a call of `bearerToken` or an enrolment; a process owns the cache and
the mutex of its tasks, all share the secret store. Of a credential the model
keeps the refresh token (0: none), the one it was granted for, the `expires_at`
that the code wrote and the time the token really dies. The provider rotates
refresh tokens in one of three ways: it sends none (`keep`), a new one while the
old stays good (`rotate`), or a new one that ends the old (`one_time`).

| Code | Action |
|---|---|
| `bearerToken`: cache; lock; store | `TakeCachedToken`, `LookAtStore`, `StoreFails`, `ReadBareToken`, `ReadUnexpired`, `ReadExpired` |
| `refreshTokenCredential` | `Refresh`, `RefreshFails` |
| storing, caching and answering the new credential | `Persist`, `PersistFails` |
| `EnrollDeviceCode`, from the answer that ends the sign-in | `Enrol`, `PersistEnrolment`, `PersistFails` |

A restart of a process empties its cache and loses the tasks that were running.

### BulkMutation

A message has one current id, a pair of the message and a number; moving it
makes the next one current and ends the old, so an id that an agent or a manifest
holds may be out of date. `report` is what the transport has learnt
(`bulkMoveResult`, or the result of OWA).

| Code | Action |
|---|---|
| a handler past its gate | `Begin` |
| `moveMessages`, `patchMessages`, one message after the other | `GraphAnswers`, `GraphFails`, `GraphIsDone` |
| `moveItemResult`, `moveToDeletedResult`, all messages in one request | `OwaAnswers`, `OwaFails` |
| `attachMutationManifest` and the answer | `Respond` |
| `mailAuditManifestBodiesHandler`, `fetchBodies` | `BeginAudit`, `FetchBody`, `AnswerAudit` |

A request that fails may have been carried out and its answer lost. OWA matches
response messages to ids by index; `OwaReport` is that loop. An answer of OWA has
a message for each of the first so many ids, or for none at all, and the class of
a message may be missing: the provider is only assumed not to say `Success` of
what it has not done. Where it says nothing, the code reports a success. That is
what the history variable `silent` keeps, and `SuccessIsReal` promises nothing of
those messages: whether they were moved is for the provider to know. Another one,
`named`, keeps the messages whose new id an answer told. Graph and OWA may leave
the id out of any answer, and the manifest then lists the others only, which
`ManifestIsHonest` demands exactly. No action reads the two variables.

### SetupApply

A file is a set of entries: those of the user and `Ours`. A config is merged, all
else replaced. `BuildPlan` is everything until the plan is confirmed, with the
refusals; then each operation of the plan is done in as many steps as the file
system sees: `SkipOp`, `LookForSecret`, `MoveAside` (the backup's rename), and
`WriteAtomically` (a temporary file, renamed) or, for `opencode`, `Truncate` and
`Fill` (`os.WriteFile`). `Fail` ends the command at any of these, by an error or
with the process, and `Edit` is the user between any two of them. Setup commands
are assumed not to overlap each other; temporary files that are left behind, and
deletions by the user, are left out.

### DeviceCode

Time is in ticks. A request takes up to `Delay` of them, and the provider acts
on it somewhere in between; only requests and sleeps take time. `RequestCode`,
`CodeArrives` and `CodeIsRefused` are `requestDeviceCode`; `Poll`, `GiveUp`, the
answers (`IsPending`, `IsToldToSlowDown`, `IsDeclined`, `IsExpired`,
`IsGranted`, `PollFails`) and `Wake` are the loop of `pollDeviceCodeToken`;
`Persist` ends the enrolment. Where the provider names no interval, the code
waits 5 seconds (`OrDefault`), and `PollsKeepDistance` demands nothing.
`GraphToken` has what happens when that races with refreshes.

### Discovery

The loops of the code's recursion are a sequence of targets, `agenda`: `Drop`,
`Load`, `LoadFails` and `Abort` treat its first, and a page's links are put
before the rest of it. A redirect is where a URL `lands`; as in the code a page
is remembered by the URL that was asked for. Redirects that leave the origin are
errors of loading. `ReportIsComplete` compares the result to the set of URLs
reachable by links, which is defined without any order.

### FindTime

`ResolveName` is `resolvePersonEmail`; `ReadOwnPage` and `TooManyPages` read the
organizer's calendar (in pages from Graph), `ReadAttendee` everyone's
availability; an error inside an answer ends the search only if it is about an
attendee, as the OWA code does not look for one in the organizer's calendar and
reads no events then (`ReadOwnPage`). `Suggest` is `FindSuggestions`, with the slots of the code and its
`MergeIntervals`, written as a recursive function: the interval that starts last
(`Latest`; of several, any, as `sort.Slice` promises no more) is merged into what
the others give. `SuggestionsAreFree` is the reference definition, over moments
of time instead of merged intervals. As in the code, an answer about an attendee
that has no items counts as free.

### CalendarEvents

The server numbers the versions of an event (`ChangeKey`) and is assumed to
refuse a removal by another version than the current one. Creating is
`BeginCreate`, `InviteAddress` / `InviteByName` / `CannotInvite`,
`EverybodyIsInvited`, `CreateEvent` / `CreateIsRefused`, and when the answer has
no id `Verify` / `CannotVerify` (`recoverCreatedMeetingEvent`). Removing is
`BeginRemove`, `Locate` when no version was given, and `RemoveEvent` /
`RemoveIsRefused`. Whatever became of a removal, an answer of HTTP 200 that has no
response message, or one without a class, is reported as a success; `unsaid`
keeps that this was so, and `AnswersAreTrue` then only promises that no other
version was removed than the one given. `OtherCreates`, `OtherEdits` and
`OtherRemoves` are the other clients. An answer of HTTP 200 that refuses a creation in its body has no id
either, so the code looks for the event, and an equal one that somebody else made
is then answered as created; `AnswersAreTrue` allows that, since it promises an
event like the one asked for, and the very one only if the call made one.

## Runs

| Run | Instance | Shows |
|---|---|---|
| `gate_race` | 2 dry runs and 2 confirm calls of one rule change by `rule_set_enabled`, required mode, one edit of the rule, tokens expire after 1 tick, symmetry | one effect per token and per challenge under every race, expiry and restart; what takes effect is what the dry run reviewed, what the confirm call found when it reviewed again, and what the host signed; the log is ahead of effects; challenges are not lost to wrong calls; tokens implement `OneShotGrant` |
| `gate_kinds` | 1 dry run, 1 confirm call, 9 operations over all handlers and review kinds, both unsafe modes, 5 approval policies, a failing audit sink, fairness | effects stay within the policy; rejections have none; every confirm call is answered |
| `gate_recheck` | as `gate_race`, 1 call each | *violated*: see Findings |
| `paging_race` | 1 search of 3 pages, 3 readers, a lease of 1 tick, fetches and cursors of 3, fairness | each page is answered once; a cursor is spent only by the reader of its page; nobody joins a reader whose lease is good; cursors implement `OneShotGrant`; every lease is given up |
| `paging_replay` | fetches longer than leases | *violated*: see Findings |
| `owa_calls` | a probe, a typed and a raw call, 2 attempts per login, fairness | a request is applied at most once, a retry never meets the session it was refused with, calls share logins, a reported success is real, and every call ends and frees the mutex, while sessions die and a late refusal throws out somebody else's new session |
| `token_shared` | 2 calls of one process and 1 of another, stored credentials of every kind, restarts, tokens kept or rotated | an answered token is still accepted; no call of a process has a refresh token redeemed that another already replaced |
| `token_kept` | the same and an enrolment, tokens kept or used once | the store, or a task about to write it, always has a refresh token that the provider accepts |
| `token_external` | the same with a store that cannot be written | *violated*: see Findings |
| `bulk` | a move and a patch by Graph or a move by OWA of 2 messages, ids given twice, one message that other clients move too, an audit of 1 body, a restart, manifests of 1 tick | what is reported to have succeeded has been done, unless OWA said nothing of it; a manifest lists exactly what was reported, or for a move what a new id was told of, under current ids; an audit reads messages of one mutation only |
| `bulk_blank` | a move by OWA with a blank id | *violated*: see Findings |
| `activities` | 2 setup commands and 2 edits; codes of 3 to 5 ticks, intervals of 1 to 2; 3 webs of 3 pages with cycles, limits of 1, 2 and 5; 4 requests and 7 calendars; 2 events, 2 versions and 2 calls; fairness | what the user wrote is in its file or a backup; success is complete; no wrapper without its secret; polls keep their distance and notice an approval in time; reports are complete; suggestions are free; answers about events are true; everything ends |

Why the bounds are enough. A race for one token needs two calls, and mixing up
tokens, challenges and signatures needs two of each. Every expiry needs one tick
beyond a time to live, and `MaxClock` leaves room for one after any step. One
edit separates "as reviewed" from "changed". A lease taken over needs two
readers, and a third to page on behind either. A stale invalidation needs a call
that is refused, one that logs in and one that profits; a session is refused
once per call, so the runs reach every order of two logins. `Skew` is twice
`Hold`, as the margin of five minutes is more than twice what the secret store
(10 seconds a command) and the provider (30 seconds a request) may take, and
`Life` leaves time in which a token is fresh; two processes suffice
for one to store what the other is about to redeem. The first credentials are on
both sides of the margin. `gate_race` races one handler with all its steps; what
distinguishes handlers is which of the steps they make, and `gate_kinds` has all
of them.

A report of a bulk mutation goes wrong by position, so two messages and one id
that occurs twice suffice; the shared message may move before, between and after
the requests. A second setup command meets what the first has left behind at any
point, and needs backups of its own; one edit comes before and one during a
command, or both. The clock of 20 ends every enrolment: codes of at most 5 ticks
and intervals grown by one or two slow-downs. The pages link in a cycle, to
themselves and elsewhere, a limit cuts them off or not, and any but the first may
fail to load. The calendars have intervals inside each other, that touch, that
overlap either end of the window and that are empty, with every status.
Verification after a creation needs an event of another client beside the one
created. The five activities share no state but the dispatch, so the run chooses
one of them: to interleave them would only multiply the states.

Fairness. `FairSpec` assumes only that a call or command that is running goes on:
stores never block, requests to the provider end with the HTTP client's timeout,
and sleeps end. Agents, hosts, users, other clients and restarts owe nothing, and
the clock only where a sleep or a request waits for it (`EnrolFairness`). In
`OwaSession` it is weak fairness of each call's own steps: requests, secrets and
the back-off end by timeouts. Weak fairness is enough although a call waits for
the mutex, because each call logs in at most twice, and so the mutex is finally
free for good. Deadlock is checked unless a configuration says otherwise, as it
does where all calls happen once and the system then really stops.

## Findings

- `docs/SECURITY_MODEL.md` says that "confirmed actions are rechecked before
  transport execution". `mailRuleSetEnabledHandler` and
  `mailMoveToDeletedItemsHandler` are not (`gate_recheck`). It does no harm:
  their token is bound to the operation and the unsafe mode that the dry run's
  decision was about, which `EffectIsAllowedByPolicy` shows.
- `docs/SPEC.md` says that concurrent reuse of a cursor fails before the
  provider's continuation is replayed. A lease lasts two minutes, and nothing
  bounds a fetch by that: each HTTP request has a timeout of 30 seconds, but the
  wait for the token mutex behind other callers' refreshes has none. Then a
  second reader fetches the same page (`paging_replay`); still only one answers.
- `docs/OPERATIONS.md` and the repository's `README.md` recommend `external:`
  secret stores where refreshed credentials have to be kept. That store has no
  `Put`, so `bearerToken` skips storing a refreshed credential; a provider
  that lets a refresh token be used once then refuses the one that is still in
  the store, and the user has to sign in again (`token_external`).
- `moveItemResult` and `moveToDeletedResult` of the OWA transport drop blank ids
  from the list they match the provider's answers with, but not from the request.
  With a blank id in front, a message that the provider refused is reported as
  moved, and one that it moved as failed (`bulk_blank`). `bulk` therefore gives
  OWA no blank ids. It shows that repeated ids and missing messages shift nothing,
  as long as the provider answers by position, one message per id at most and none
  left out in the middle.

Two more things came up that no run is about:

- A success of an OWA move, delete or cancellation may rest on silence (see
  `BulkMutation` and `CalendarEvents` above). For `calendar.delete_event`,
  `docs/superpowers/specs/2026-06-03-outlook-calendar-mutation-contract-design.md`
  asks for more, "Post-delete verification rereads the target window or item id";
  `calendarDeleteEventResult` reads nothing again. In `CalendarEvents`,
  `RemoveIsRefused` can end in "ok" while the event is in the calendar.
- `RequestIsAppliedOnce` rests on a refusal meaning that nothing was applied; the
  code takes any answer that mentions `auth/logon.aspx` for one.

## Proofs

Every invariant, action property and refinement that a passing run checks is
proved. The base case and the step of each inductive invariant are lemmas or
steps of their own, and the step has a case per action.

`ConfirmGate_proofs` proves, for any sets of calls, operations and policies, any
time to live and any bounds, from the assumptions named in `ConfirmGate` (the two
kinds of calls are disjoint, `None` is no record, `OpInfo` is well typed):

- `TypeCorrect`: the state stays well typed. `TypeInv` adds to `TypeOK` that a
  running call has its request and an offered token its binding.
- `TokenHasOneEffect` and `HighRiskTakesConfirmation`, from `TokenInv`.
- `HighRiskTakesApproval` and `ChallengeHasOneEffect`, from `IInv`.
- `EffectsAreAllowedByPolicy`, from `PolicyInv`: what a dry run offers, and what a
  call without a token begins, is well formed and was let through by the policy.
  With `TokenInv` that covers the handlers that do not ask the policy again, as
  the token they consume is bound to what the dry run offered.
- `RejectionIsFinal`, from `RejectedIsRefused`: a call logged as rejected is
  refused, and has been kept from executing.
- `EffectsAreLoggedAhead`, from `StepsAreLogged`: with a sink that works, a call
  past its confirm event has its line, and so has each dry run that answered.
- `ChallengesAreSpentWithTokens`, an action property, from `SpenderIsAccepted`.
- `TokensAreOneShotGrants`: `Spec` implements `OneShotGrant`. The mapping reads
  the state of a token off the store and the calls (`Fresh`, `Open`, `Spent`,
  `Performed`); expiry and a restart make grants void.

None of these is inductive by itself. `TokenInv` says what the stores must
contain for it: a record holds what its dry run offered; an accepted token is
gone from the store, and no two calls in possession of their requests had the
same one accepted; every call past the token store was accepted or needs no
token, and then its class is not of high risk. `IInv` adds that a call holding
an approval presents a challenge that the host signed for its binding, and that
once it is past consuming it the challenge is gone. They were checked by TLC
before they were proved. The proof that a step keeps them goes by frames (what a
step of one call leaves alone) and outcomes (a confirm call is gone, begins, or
makes one of six moves).

`SearchPaging_proofs` proves, for any searches, readers, pages, lifetimes of
cursors and leases and durations of fetches, all the safety that `paging_race`
checks:

- `PagingTypeCorrect` and `PagesAreAnsweredOnce`, from `PagingInv`. Its parts are
  `ReadingInv` (what a call reads and was sent with it), `ReaderInv` (a reader
  reads what an answered call was sent the link to), `StoreInv` (a cursor in the
  store is the link of the call that issued it, and no reader that has its page
  finds it there) and `PageInv` (no two calls that have a page, or will get it
  for sure, have the same). Two pages are the same only if the pages before them
  are, which is why `PageInv` is about all calls and not only the answered ones.
- `LeasesShutOthersOut`, from `LeaseInv`: who fetches holds a lease, unless that
  has run out or the cursor is gone.
- `CursorsAreSpentByReaders`, an action property.
- `CursorsAreOneShotGrants`: `Spec` implements `OneShotGrant`. Every step is
  mapped to an offer, a spending or a performance of one grant, or it makes some
  grants void or leaves all alone (`VoidsOrNothing`, `MovesOne`).

`OwaSession_proofs` proves, for any calls, attempts and times, `TypeCorrect`,
`AppliedOnce` and `RetriesWithNewSession`, from `CallAssumption` and
`ConstantAssumption`. The first property needs `AppliedInv` (a call that may still
send its request has had nothing applied). The second needs to know why the
cache cannot give the refused session back: `SessionInv` (the cached session
exists, so a new one is another), `RetryInv` (whoever seeks a session after a
refusal finds the cache empty or with a later session than the refused one) and
`MutexInv` (only one call logs in). `SuccessIsApplied` needs `AppliedInv` only.
`LoginsShared` is an account of logins: each is paid for by a call that was
refused or by the life of a session that passed (`Covered`). `LoginInv` says how
the account stands: the cached session is paid for by the time it will expire, a
login that is under way is not counted yet and began when the account was even,
and an empty cache that nobody fills leaves it even. The clock is part of that,
so it holds for any lifetime of sessions, any number of calls and any delay.

`GraphToken_proofs` proves `TypeCorrect` and, for a store that can be written and
starts with a refresh token the provider accepts, `SignInStaysKept`. Calls of
other processes read old credentials from the store, and enrolments overtake
them, so the invariant is about what nobody else knows: `SoleInv` says that the
refresh token which a task is about to store is neither in the store nor held by
another task, unless the provider keeps tokens; hence none can redeem it before
it is stored, which is `LiveInv`. `GrantedInv` (known tokens have been granted)
makes a new one new, and `LockInv` says who holds the mutex. Moreover:

- `AnswersAreAccepted`, if twice `Hold` fits into `Skew`, new tokens live longer
  than `Hold`, and the first credential is no exception to what the code writes:
  its `expires_at` is at most `Hold` after the token dies (`InTime`). The two
  comparisons are about constants of the code: `expired` leaves a margin of five
  minutes, and a call holds the mutex for a secret command (10 seconds), a
  request (30 seconds) and another command. `TimeInv` says that whoever holds the
  mutex has not done so for longer than `Hold`, that every credential that is
  stored, cached or about to be is in time, and that a new one outlives the call
  by `Life`. One `Hold` of the margin is for `expires_at`, which counts from the
  arrival of the answer, one for the call itself.
- `ReplacedTokensStayUnredeemed`, for a store that can be written and whose first
  credential replaced none. A call redeems what it reads in the store, so a
  refresh token is safe once it cannot come back there: `Retired` says that it is
  not stored and that no task is about to store it, and `RetiredInv` that this is
  so of all that were replaced by what has been stored, cached or answered.

`SetupApply_proofs` proves, for any files and any number of commands and edits,
`SetupTypeCorrect`, `WrapperIsUsable`, `SuccessfulSetupIsComplete` and
`NothingGetsLost`. `SetupInv` adds to the types `PlanIsGood` (what a plan may
consist of: each file once, an update only with a backup or by force, the secret
ahead of the wrapper), `PendingIsKnown` (of the files whose turn has not
come: one to be created holds no entry of the user that is not in `unseen`, one
to be updated is still there, one to be skipped still holds what it should),
`DoneStaysDone` and `WrapperHasSecret`.

`BulkMutation_proofs` proves, for any calls, targets and other clients,
`BulkTypeCorrect` and, if OWA is given no blank ids, `ReportedSuccessIsReal` and
`ManifestsAreHonest`. The condition is `OwaHasNoBlanks`, and it is needed: without
it the first of these is refuted by `bulk_blank`. (`Mutation` must also have a
member, since an audit reads the messages of one.) `MutationInv` has a part for
each thing that can come apart:

- `AskedOnce`: different ids in a request are of different messages, and an id is
  out of date once the call has moved its message; so a second mention of it in
  a move fails.
- `OwaIsAsked`, `NothingYet`, `GraphReports`: how far a report has come. For
  Graph it is about the first `Tried` ids; for OWA there is none before the only
  answer, and `OwaReport`, which walks ids and answers by index, then puts each
  message where it belongs, be the answer as short or as silent as it likes
  (`Answer` is what the provider may say of what it has done).
- `Counted` and `ReportIsReal`: each id is reported once; what is reported to have
  succeeded was applied, or is one of the messages in `silent`; what a move has
  listed is exactly what is in `named`, all of it applied and reported.
- `ListedIsCurrent` and `ManifestIsListed`: the ids that a manifest may list are
  the current ones unless the message has been changed since.

`AuditInv` says that what an audit has asked for and read is part of what one
mutation applied, which stays so after the manifest is gone.

`Selection_proofs` has what these loops have in common: `SelectFacts` says that
`Select` returns the elements at the chosen indices, all of them, each once and in
order, and other lemmas what it makes of sequences that increase. The arguments
by induction in it, and in the modules that use it, go by the least
counterexample (`LeastNatural`).

`Activities_proofs` has the other activities.

- *Enrolment*: for any intervals, lifetimes and delays, `EnrolTypeCorrect`,
  `ApprovalIsSeen` and `PollsAreApart`. `EnrolInv` (`IntervalIsLongEnough`,
  `DistanceIsKept`, `PollsKeepUp`, `ApprovalIsRecent`, `ExpiredIsLate`,
  `ApprovalIsNoticed`) relates the clock, the end of what is waited for, the last
  poll and the deadline: a poll was sent no longer ago than the interval and the
  time of a request, until the deadline.
- *Calendar*: `CalendarTypeCorrect` and `AnswersStayTrue`. `CalendarInv` says that
  the call's own event, if it made one and nobody touched it, still is what was
  asked for (`CreatedIsThere`, `CallIsItsOwn`), so that it is among those that
  verification finds, and the only one if there is just one; and that an address
  that was given is invited (`AddressesAreKept`). Of a removal it says that nothing
  was removed before the provider is asked, so a success of which the answer said
  nothing is about no other version.
- *Discovery*: for any web and any limits, `DiscoverTypeCorrect` and
  `ReportsAreComplete`. `DiscoverInv` has the two halves of reachability, for each
  start URL so far. `OnlyReachable`: any set that has the start, and with a page
  that was read its links, has all that was read and all that is on the agenda.
  `AllLinks`: below the limit, the links of what was read have been read or are on
  the agenda. At the end the agenda is empty (`EndIsReached`), and what was read
  is the least closed set. `AllNames` says that no name found on the way is lost.
- *Find-time*: for any calendars whose answers are finite, `FindTypeCorrect` and
  `SuggestionsStayFree`. `IntervalsAreHeld` and `CalendarsAreRead` say whose
  calendars the intervals are from. The rest is about the pure functions. What
  `MergeIntervals` has merged covers the same moments as the intervals it was made
  of (`Covers`), by induction over their number: the last one starts no earlier than
  all the others, so it either touches the end of the last merged one or lies
  behind everything. `FindSuggestions` then leaves out no free slot before the
  last one it returns (`FirstOf`).
- *Composition*: `ActivityTypeCorrect` and `ActivitiesAreSafe`. A step of the
  program is a step of one activity and a stutter of the others, so each
  activity's specification holds of it (`ActivitiesAreTheirOwn`), with all that
  was proved from it.

Only model-checked is liveness, which is out of the prover's reach:
`ConfirmIsAnswered`, `LeaseIsGivenUp`, `CallEnds` and `ActivityEnds`. Safety holds
for every value of the bounds in the guards (`MaxClock` and the like), so what
these cut off in a run is covered by the theorems.

## Not modelled, and the plan

Modules to extend: the wait that the token mutex imposes on a reader of
`SearchPaging`, which now is the constant `FetchTime`; what a call does with a
cached token that the provider has revoked (`graph/transport.go:1798` uses it
until it expires).

Left out for good:

- The EWS transport, and the actions of OWA and Graph that are not named above,
  translate one call to one request and back. They have no state and no order of
  steps; their failures are the provider's failures of the other modules.
- Direct reads and drafts of the MCP server pass one call on and redact the answer.
- Time zone tables, redaction and logging formats: TLC would only repeat the code.
- The rest of the CLI and the configuration: flags, files and output, read or
  written once.
- Secret stores below "written atomically, with an error, or not at all".
- The fake transport, which is a test double.
- Memory: tokens, challenges, cursors and manifests that nobody presents stay in
  their stores after they expire, which no state of the models says.
