# Verification of the Mobser / Wasel platform

TLA+ specifications of the parts of this repository whose correctness depends on what happens
between two statements, two requests or two processes: browser-agent runs and the workers that
execute them, the page that follows a run, the takeover of its browser, background tasks that must
not repeat a side effect, signup, sessions, and the controller that deploys releases. TLC checks
them on small instances; TLAPS proves the most important results for every instance.

Paths below are relative to the repository. `services.py`, `tasks.py`, `views.py` and `models.py`
alone mean those of `backend/product/browser_agent`.

## 1. Inventory

| # | Component | State | Operations | What is hard | What makes it correct |
|---|---|---|---|---|---|
| 1 | Agent runs (`backend/product/browser_agent`) | rows of AgentRun and BrowserProfile, Celery deliveries, LangGraph thread, heartbeats | create, cancel, answer; claim, execute, pause, complete; reap | autocommit: every function that reads and later saves a row races with the others; worker deaths; redelivery | a profile is open once, a run is executed once unless two claims of it overlap, ends are final, questions and answers match, every run that still has a delivery comes to rest |
| 2 | Live takeover (`live.py`) | control lease, lock and input batches in the cache | request, release, push input, drain, hand over | get-then-set on the cache, lost batches, idle timeout | the agent and the user never drive at once, inputs are applied in order and only after the grant, the browser comes back from a viewer who has gone |
| 3 | Task framework (`backend/apps/common/tasks`) | lock in the cache, TaskExecution, FailedTask | guard enter and exit, retry, dead letter, purge | late acknowledgement, expiry of the lock, failure of each write | one execution of a key at a time, suppressed only if done, nothing lost while the retry or the dead letter can be written |
| 4 | Messaging, notifications (`backend/apps/messaging`, `notifications`) | OutboundMessage, Notification | send a code, send an email, notify | lost answers of the provider | sent once unless it could not be known |
| 5 | Sessions and tokens (`backend/apps/accounts/services/authentication.py`, `frontend/src/lib/token-refresh.ts`) | AuthSession generation and revocation, token version; refresh cache of the frontend | issue, rotate, revoke, validate | concurrent refreshes, a lost answer of a rotation | a revoked session stays revoked, a used refresh token revokes its family, an honest client is not logged out |
| 6 | Accounts (`backend/apps/accounts/services`) | users, challenges | sign up, verify, resend, reset, change phone, delete | challenges are read, checked and saved without a lock | a used challenge stays used, a replaced code does not come back, a patient person gets in; five attempts per code are claimed and do not hold |
| 7 | Billing (`backend/apps/billing`) | subscriptions | sync, charge | retries of charges, grace window | charged once per period |
| 8 | Webhooks (`backend/apps/integrations`) | received events | receive, process | duplicates, a lost delivery after the commit | processed once |
| 9 | Organizations, audit | memberships, invitations, log | invite, accept, expire | expiry against acceptance | an expired invitation is not accepted |
| 10 | Agent engine (`backend/product/browser_agent/engine`) | policy, middleware | classify a tool call, stop repetition, trim | pure functions over the agent's messages | risky calls are asked about |
| 11 | Deploy controller (`deploy/controller.py`) | state file, Docker operations, lock | deploy, rollback, resolve-quarantine | signals, timeouts and kills at any point, also in a handler or a state write | no overlap with what a dead process left, no false "healthy", no replay |
| 12 | Frontend (`frontend/src`) | the page of a run, input queue, forms, token cache | poll, cancel, answer, send input, sign up, refresh | replies out of order, failed polls, requests given up after 10 s | no event missed or shown twice, an answer reaches its question, the end is shown; with 2, 5 and 6 |
| 13 | Settings, telemetry, infrastructure | none | none | none | none |

The components meet in the database (rows), in Redis (broker, cache, locks) and in the HTTP API:
the API writes a row and publishes a delivery after the commit (1, 4, 6, 8); a worker receives it,
under the guard where a side effect may not be repeated (3), and writes rows back; Celery beat
starts the reaper and the sweeps; the frontend polls rows and sends inputs through the cache.

## 2. Modules

| Module | Models | Runs | Proofs |
|---|---|---|---|
| `RunLifecycle` | what the status of a run promises to the rest | followed by `AgentRun` in `agent_liveness` | `AgentRunProofs` |
| `AgentRun` | component 1 | `agent_runs`, `agent_liveness`, `agent_deaf_wait` | `AgentRunProofs` |
| `RunView` | component 12: the page of a run, over `RunLifecycle` | `run_view`, `run_view_stuck` | `RunViewProofs` |
| `LiveControl` | component 2, with the page, the API, the cache and the worker | `live_control` | `LiveControlProofs` |
| `DeployController` | component 11 | `deploy` | `DeployControllerProofs` |
| `GuardedSend` | components 3 and 4 around one verification message | `guarded_send` | `GuardedSendProofs` |
| `AuthSession` | component 5, backend, with what writes the account row | `auth_session` | `AuthSessionProofs` |
| `TokenRefresh` | component 5, one browser and the frontend's server, composed with `AuthSession` | `token_refresh` | `TokenRefreshProofs` |
| `Signup` | component 6, signup: the form, the challenge and its codes, their messages | `signup`, `signup_guesses` | `SignupProofs` |

Each `MC...` module and its `.cfg` files are the instances TLC checks. `PROJECT.json` maps every
definition to its lines of code.

### AgentRun

Every ORM statement is an action, since Django runs in autocommit here: a function that reads a
row and saves it later is at least two actions, with anything in between. Row fields are kept where
a decision depends on them (status, cancel flag, pending question, answer, heartbeat, recoveries);
event rows are reduced to whether a worker's numbering is still in order, and the agent to the
stage of its LangGraph thread and the number of questions it has asked. An answer is the number of
the question the person was looking at, any that has been asked: the request names none, and may be
late or a second one.

| Actions | Code |
|---|---|
| `Admit`, `Insert` | `AgentRunViewSet.perform_create`: the limit is checked, later the row is saved and the task published |
| `Cancel`, `EndWait` | `cancel`: the flag is set, then `cancel_waiting_run` |
| `Answer` | `answer`, with any answer |
| `Receive`, `TakeProfile`, `Refuse`, `Save` | `_claim`, one action per statement |
| `Start`, `Superstep`, `Consume`, `Ask`, `Fail`, `Timeout`, `CloseBrowser` | `execute_run` |
| `Beat` | `_keep_beating` |
| `Reread`, `Write`, `Release` | `_pause` and `_complete`: `refresh_from_db`, `save`, freeing the profile |
| `Scan`, `Reap`, `Free` | `reap_stale_runs`, which goes through what it selected one by one |
| `Crash`, `GoSilent` | a worker dies, or its task ends by an exception; its heartbeat gets old |
| `SendFails`, `ReaperStops` | `delay_on_commit` does not get through; the reaper dies or raises half way |

What can go wrong (`MaxFaults` bounds how often), and what becomes of the delivery:

- A worker dies. Its delivery is queued again: at once when a child process is lost
  (`CELERY_TASK_REJECT_ON_WORKER_LOST`), after the visibility timeout of 3600 s when the host is
  (`core/settings/base.py:235-240`). The reaper, which runs every 10 minutes (`base.py:304-306`) and takes
  a run with a heartbeat older than 180 s, has published another delivery long before. The model has no
  clock between the two: either may come first, both may wait, and both may be received at once.
- A task ends by an exception, or at its hard time limit, without a redelivery: `run_agent` has
  `autoretry_for=()` and `max_retries=0`. During execution that leaves the row running, for the reaper. In
  `_claim` it is not like a death: the row stays queued, nothing is left to deliver it, and the reaper
  looks at running rows only.
- A delivery is not sent after the commit. That leaves a queued row, too. If it was the reaper's own call,
  the exception ends its loop, and the profile of that run is not freed.

Three variables remember what the properties have to except; each is reached in the runs.
`stranded`: runs that lost a delivery, or a claim to an exception, since they were claimed last. `twice`:
runs that a worker claimed while another was claiming them; `_claim` reads the status in one statement and
writes it in another, so two deliveries that both read "queued" give the run two workers, against "None if it
was cancelled or already picked up" (`services.py:66`). A run with a profile is saved from that by the
conditional update of the profile, whose loser then fails the run; one without has two workers.
`misfit`: runs that were given an answer to another question than the open one, against "returns the answer"
(`engine/human.py:24`).

One constant names what the code relies on time for. `Timely`: a live worker's heartbeat (every 30 s) is never
180 s late, so the reaper takes only the dead for dead. All runs assume it, and so do the theorems, but for
`TypeCorrect` and `NeverForgotten`. Without it the reaper gives a live worker's profile away, and TLC finds
the profile open twice; the release in `_finish` and `_pause`, which does not look whose the profile is
by now, is exercised only beside dead workers.

Two facts that no property states. A worker that dies between taking the profile and saving the row
leaves `in_use` set with nobody to free it: the redelivered run, and every later one of the profile,
is failed because "another run" has it. And a run is admitted in two statements (`Admit`, `Insert`),
so requests at the same time overrun the limit of active runs.

- `agent_runs`: two runs that share one profile, two workers, one recovery, one question, two faults.
  That is enough for the races between pairs: a run and its second execution, the reaper and a worker, two
  runs and one profile.
- `agent_liveness`: one run, with a profile or without, two workers, one recovery, two questions, two faults:
  a death and a late redelivery beside the reaper's delivery, an answer to the first question that arrives for
  the second.
  `SharedOnlyIfClaimedTwice`: two workers execute the run only if it is in `twice`. `QueuedHasDelivery` and
  `RunsEnd` hold for runs that are not `stranded`, `AnswerFitsQuestion` for those neither in `twice` nor `misfit`.
  `FollowsLifecycle`: every change of a status is one that the abstract module `RunLifecycle` has
  (`status <- [r \in Runs |-> row[r].status]`), although rows are written back whole from older copies; a
  run in `twice` may move otherwise, and does: the second worker can write "failed" over "succeeded".
  Fairness is on what the deployment keeps running: worker steps and the run's timeout (`asyncio.wait_for`), the
  reaper, which the beat starts every 10 minutes, and requests already accepted. Users, questions and faults
  have none.
- `agent_deaf_wait`: a cancel request between the worker's last look at the flag and its pause is
  lost, and the run waits with its flag set, deaf to answers. No fault is needed.

### DeployController

The process goes through `pc`; `disk` is the state file and `mem` the process's copy, since a
write may fail before or after the new file is in place. `Stage` is `Controller.stage`, and says
for every write where its exception goes. A Docker operation is `op` while its client waits; when
the client is killed, by a signal, a timeout or the death of the process, it becomes one of the
`orphans`, which the daemon may finish or drop at any time. An error, as opposed to an
interruption, means that the operation is over. `Mixed` is what the containers run while they are
being changed. `ready` and `migrated` remember which releases were ready, and migrated to.

Releases are their order, `[run_number, attempt]`, as one number; what `verified_release` checks is
abstracted to success or a refusal before anything changes. An administrator resolves a quarantine
when no rollout is under way, as `docs/deployment.md` demands; a migration left behind is
removed by `cleanup_migration`, which is modelled.

- `deploy`: three releases, commands in any order, every failure at every step. Three are needed to
  have a current, a previous and a new release. The state space is finite without any further bound.

### GuardedSend

One key of the idempotency guard, which is one code of one challenge: the lock in the cache, the
TaskExecution row, the OutboundMessage row, the deliveries by number of retries, and the workers.
Every cache call, statement and provider call may fail. The provider may have sent a message whose
answer is lost. The ghosts `sent` and `forgotten` count what the provider sent, and what of it was
never written down. `ExpireLock` assumes what `core/settings/base.py:272` states: the lock (900 s)
outlives the hard time limit (300 s), so it does not expire under a live worker.

- `guarded_send`: two workers, two retries instead of five, two deaths: enough for a death, a
  redelivery and a second death, and for a delivery with no retries left. `Ends` assumes that
  workers keep working, nothing else.
  `NeverLost` ends where the code's own means end (`dropped`): `_record_dead_letter` catches what goes wrong when
  it writes the row and only logs it (`common/tasks/base.py:95`), and a retry whose message the broker does not
  take is gone likewise. Then the message is neither sent, nor delivered again, nor dead-lettered. It also excuses a dead-lettered message by a failure or a death. Both do happen without any
  provider refusing it: a lost answer makes the retry send a second message under a key that has
  reached the provider, and a worker that dies in the guard leaves a lock of 900 s on which the
  redelivered task uses up its retries (155 s at most).

### AuthSession

One account, its `AuthSession` rows, and requests that run in parallel; a step is a statement of
the database. A token's claims `sid`, `token_version` and `scope` are columns of its session that
nothing updates, so a refresh token is session, generation and jti, and an access token its session.
Any token that was issued may be presented, at any time. What a request has read stays in `req`
(`row`, `seen`) and is what it decides on: the lock of `rotate_refresh_token` is a guard of those
who would change the row, and without it (mutant `Locked_Never`) the copy gets stale.

| Actions | Code |
|---|---|
| `Login`, `SocialLogin`, `Resolve`, `Confirm`, `Activate`, `Issue` | `authenticate_user`, `authenticate_with_social_provider`, `VerificationConfirmView`, `issue_tokens_for_user` |
| `Rotate`, `Rejected`, `Reused`, `Rotated` | `rotate_refresh_token` |
| `Logout`, `Expire` | `revoke_refresh_token`, `expires_at` |
| `Authenticate`, `Validate` | `VersionedJWTAuthentication.get_user` |
| `SignReset`, `Reset`, `Write` | the password reset, `change_password`, `change_email`, `confirm_phone_change` |
| `Open`, `Submit` | the admin's form of an account, which has `token_version` among its fields |

The right password, code or token is an input. `deletion_pending` is not a status of the model:
no view calls `confirm_account_deletion`, and `assert_account_eligible` treats it as blocked. The
flag `is_active` is left out for the same reason.

- `auth_session`: two requests at a time, one session, three tokens, three versions: two rotations
  of one token, a logout or a write beside a rotation, and a version that goes up twice and back.
  What two sessions of an account have in common is the account row alone; the theorems hold for
  any number of them.
  `EndedStaysUnlessTorn` holds up to the first write of the account row that overtakes another.
  After one, `token_version` may go back (`password.py:97` saves the version it read plus one,
  without a lock; the admin's form saves the version it was opened with), and sessions of that
  version are valid again. Also, a confirmed signup saves `ACTIVE` over what the account has become
  (`Activate`).

The run stops at its bounds (`Sids`, `Jtis`, `MaxVersion`), hence no deadlock check. There is no
liveness: a request takes a bounded number of steps and waits for nothing but a lock held for two.

### TokenRefresh

One browser, logged in once, between its session cookie and the backend: `B == INSTANCE AuthSession`
gives the backend's variables and its rotation (`B!Rotate`, `B!Rotated`, `B!Reused`, `B!Rejected`),
and this module the `jwt` callback of `lib/auth.ts` and the `Map` of `lib/token-refresh.ts`.

| Variables and actions | Code |
|---|---|
| `cookie`; `Send`, `Deliver`, `Drop` | the session cookie; `getSession()`, or `update()` after a 401 (`must`), and its reply |
| `pages`; `Keep`, `Join`, `Call`, `CallExpired` | the callback: no refresh needed; a rotation of the token is shared; it is the first |
| `calls`; `Rotate`, `Refuse`, `Break`, `Receive`, `Lose` | `authApi.refresh`, the backend's answer to it, an answer with an error of another kind, its return, its timeout |
| `rotations`; `Forget` | the `Map` and its 60 s |
| `old`; `Age` | access tokens from 60 s before their expiry |
| `Expire`, `Revoke` | the session ends for reasons outside this browser |

A pair that the backend rotates is presented once, as long as every reply comes back and none puts
an older pair into the cookie (`slipped`). Both happen: a page that is closed before its reply
(`Drop`), a call that times out after the backend has committed (`Lose`), an error 429 or 5xx taken for
a refusal (`Break`), and, with nothing lost, a reply with the older pair that arrives after the one
with the new pair and is still in the cookie when the cached rotation is 60 s old (`Deliver`, `Forget`).
Without the exception for `slipped` TLC shows that last behaviour in 14 steps, also with
`MaxLosses = 0`; the session is then revoked and the user logged out.

- `token_refresh`: three requests of the browser at a time, so that two share a rotation and a third is
  late or carries another pair; two calls, as many as there are pairs to rotate; one loss.

Time is in three steps, as late as the code allows; one assumption orders them: a request of the
browser is over within the 60 s after the rotation that it needed began (`Forget`; the call itself
takes 10 s at most). The run stops at its bounds, or when the browser is logged out.

### RunLifecycle and RunView

`RunLifecycle` is the status of a run as its users may rely on it: created, claimed, refused, asking,
answered, recovered, ended, and final once ended. `AgentRun` follows it but for a run that two workers
claim at once (`FollowsLifecycle`), and `RunView` is written over it (`L == INSTANCE RunLifecycle`): the page
does not depend on how workers come to their writes.

`RunView` is the page of one run between the API and its user. A request is two steps at least, what
the server reads or does and what the page makes of the reply, with everything else in between. An
event is its number; a question is its number, and `post` keeps which one an answer was meant for.

| Actions | Code |
|---|---|
| `Open`, `Close` | `useRun` is mounted, and its effect's clean-up |
| `GetRun`, `GetEvents`, `GetFiles`, `Show` | a tick: three requests one after the other and one `setState` |
| `Fail`, `Miss` | a request of the tick fails (again in 6 s), or answers `not_found` (no more ticks) |
| `ClickCancel`, `ClickAnswer`, `Deliver`, `GiveUp` | the buttons, `cancel` and `answer` of `useRun`, the client's timeout |
| `Flag`, `EndWait`, `Answer`, `Refuse`, `Read` | `AgentRunViewSet.cancel` and `answer`, statement by statement |
| `Record`, `WriteFile`, `Ask`, `End`, `GiveUpRun`, `Recover`, `Move`, `Leave` | what the worker, the reaper and the organization do to what the page reads |

- `run_view`: replies of one event with two events stand for replies of 500, so that a reply can be
  full; two questions, so that an answer can meet the next one; one failure of any kind (a failed
  request, one given up, a dead worker, a second visit, a membership that ends). Fairness is on the tick
  alone: timers of an open page fire and its polls are answered. Users, the run and posts have none.
  Checked with larger bounds too: two posts at a time, and two failures.
- `run_view_stuck`: without any failure, the reply to a cancel request that was read before the end and
  arrives after the last tick leaves the page at "running" for ever.

Two properties name an exception, and both happen. `NothingMissed`: a run with more than 500 events
that is opened after its end shows the first 500 only (`views.py:140`; the tick stops at a final
status, however full the reply was). A lead-generation run of some 250 steps has as many.
`AnswersWhatWasShown`: an answer carries no question, so one that is sent twice (after a timeout, or
a page that was stale) can answer the next question.

Abstractions: the last reply of a tick is shown when it is read; the check and the save of `cancel`
are one step; `succeeded` stands for the final statuses a worker sets; one file for all.

### LiveControl

The viewer's page, its requests in the API, the keys in the cache and the worker. Every cache call is a
step. The worker is one event loop, whose coroutines change places at awaits; its cache calls run one
after the other (`sync_to_async` has one thread), which orders the lock task's read of the head before
the write of the state that tells the viewer.

| Actions | Code |
|---|---|
| `Poll`, `Click`, `Make`, `Flush`, `GiveUp` | `useLive`, `control` and the heartbeat, `push`, `flush`, the client's timeout |
| `CheckRunning`, `RequestControl`, `ReleaseControl` | `control` |
| `Accept`, `Refuse`, `Number`, `Store`, `Peek` (and `RequestControl`) | `input` and `push_input` |
| `Sync`, `Forget`, `Replay`, `Skip`, `Publish` | `_loop`: `_sync_control`, `_drain_input`, `_publish_state` |
| `Grant`, `ReadHead`; `GiveBack` | `_take_lock`; `_give_back_lock` |
| `StartTool`, `EndTool`, `AskForUser`, `NobodyCame` | a tool under `session.lock`; `wait_for_user` |
| `Stop`, `StopTold`, `StopCleared`, `Park`, `Resume`, `Crash` | `stop()`, the row, the next execution, the death of a worker |
| `Quiet`, `ExpireState`, `ExpireHead`, `ExpireBatch` | `CONTROL_IDLE_TIMEOUT_S`, `STATE_TTL_S`, `INPUT_TTL_S` |

The variables `last`, `early`, `blind`, `lost` and `expired` remember what the properties speak of: the input
the browser got last, those numbered when control was granted, whether the head could not be read then,
whether the grant has ended, whether a key has expired. Any call of the cache may raise (`Break`,
`BreakTick`, and in `ReadHead`).

- `live_control`: two requests at a time (a release beside an input, an input beside the next one), two
  clicks, two inputs, one fault out of: a cache call that raises, a batch given up, a key that expires, an
  execution that ends or dies. `HandsBack` assumes fairness of the worker's loop, its lock task, the end of a
  tool, and time (`Quiet`). The bound on clicks is what makes the viewer go: one who sends heartbeats
  for ever keeps the browser, which is intended. The viewer's own requests have no fairness.

What the code does and no property excludes. `_take_lock` sets control to the user before it reads the head
(`live.py:191-193`). If that read raises, the task is over but control is the viewer's: the loop dispatches from
the number it had, and inputs made before the grant reach the browser, against the comment at line 192; in a
new worker, which begins with the first batch, also ones older than some the browser has had. `InOrder` and
`SinceGrant` except it (`\/ blind`). The state key lives for 15 minutes and is written when it
changes: a viewer who drives for longer is refused their inputs until they take control again
(`RefusedForCause` excepts it). The counter of batches and the batches themselves are keys too: once
a counter has expired, numbers start again at 1, and a batch stored under two minutes ago may be found
under its old number. `InOrder` and `SinceGrant` except that (`\/ expired`); with four inputs instead of
two, three clicks and one request at a time TLC shows that they must. `push_input` renews the claim by a read and a write, so a release in
between is undone, for two minutes. A batch that is numbered and stored more than 2 s later is skipped.
`hand_over_to_user` gives up after 10 minutes also while the user is driving. A claim that has got old
is deleted even if it was renewed since it was read.

Abstractions: replies to polls are shown as they are read, and correct themselves at the next poll;
merged text and wheel events are one input; one tool stands for those the agent calls at a time, which
queue for the lock; frames and the reason for help are left out.

### Signup

One person, the form, the API, the row of the SIGNUP challenge and the messages of its codes. A request
reads the row, decides, and saves the fields it names; nothing is locked, so requests overlap. Codes
are numbered in the order in which they are saved.

| Actions | Code |
|---|---|
| `Submit`, `Confirm`, `Mistype`, `Resend`, `Deliver`, `GiveUp` | `SignupForm` and its handlers; the client's timeout |
| `SignUp`, `Queue` | `signup_user`: account and challenge in one transaction, the task after its commit |
| `ReadConfirm`, `Wrong`, `Right`, `Activate` | `verify_challenge_code`, then the account in `VerificationConfirmView` |
| `ReadResend`, `Mint`, `Queue` | `resend_verification_challenge`, then the task |
| `Send`, `Lose` | `send_verification_message`, in any order; `GuardedSend` is one of these messages in detail |
| `Expire`, `Cool` | five minutes; sixty seconds |

- `signup`: three requests at a time (two confirmations and a resend), two wrong codes per code instead
  of five, all five resends, two misfortunes out of: a typing error, an impatient resend, a lost message,
  a lost reply, a server that stops, an expiry. Fairness: the server serves, tasks run, time passes,
  and the person types a code that came and asks for another when there is none to try. Two resends per
  misfortune are needed: a code of an older message that arrives last, and its replacement.
  `NothingUndone` speaks of the use of the challenge and of its code only.
- `signup_guesses`: of two confirmations that read the row before either saved, one increment is lost
  (`verification.py:80-103`), so more codes are compared with the saved one than `max_attempts`, which line 77
  claims to enforce. `guesses` counts the comparisons. With two requests at a time and a limit of two TLC
  finds three. `resends` loses increments in the same way, and a wrong code that was read before a resend
  writes its count over the reset. The row's own counters stay in their ranges all the same, which is
  part of `TypeOK` and says nothing about guesses.

`GetsIn` excepts a server that stops between using up the challenge and activating the account
(`CutShort`): no code and no resend is accepted any more. Before the form has the challenge's id there
is no way on at all if the reply to the signup is lost or the page reloaded: the address and the phone
are taken, login answers that the phone has to be verified without naming a challenge, and the
password reset needs a verified phone.

## 3. What is proved

From the assumptions on constants stated in the modules (`...Assumption`), for any number of runs,
workers, profiles, releases, deaths, retries and recoveries:

- `AgentRunProofs`: all safety properties of `agent_runs` and `agent_liveness`.
  - `TypeCorrect`, without any assumption on time.
  - `NeverForgotten`, likewise: `QueuedHasDelivery` is inductive over the types, since every step that makes a run
    queued sends a delivery or strands the run, and every step that takes one has a worker claim the run,
    finds it not queued, or puts it back.
  - `ProfileIsExclusive` under `Timely`. `ProfileExclusive` alone is not inductive:
    whether a worker may open a profile depends on who else has a claim to it. A *holder* is a worker
    between taking the profile and giving it back; a *row claim* is a run that is running, selected by
    the reaper or about to have its profile freed. `HoldInv` says that holders and row claims of
    different runs never name the same profile, that `in_use` is set for all of them, and, with
    `Timely`, that the reaper selects only runs without a holder. Most actions touch neither holders nor
    claims: lemma `QuietKeepsHold` deals with them at once.
  - `OneWorkerUnlessClaimedTwice`, `AnswersFit` and `LifecycleFollowed` rest on one argument about custody, under
    `Timely`, for the runs that are not in `twice`. `Apart`: two workers never have such a run in hand, claiming
    or executing; deliveries, on the other hand, may be any number. `WorkerFits`: the place of the worker tells the status of the row
    and what its copy of the row says. `RunFits`: how far the agent's thread has got, and which question the
    row and a waiting answer belong to. A second delivery finds a row that is not queued and is dropped, or
    finds it queued with nobody at it; the only other case is a claim that overlaps another, and it puts the run
    into `twice`. Whole rows are saved from older copies, but by the one worker that has the run, so every such
    write is a step of the lifecycle.
- `DeployControllerProofs`: all properties of the run. `DeployInv` says what a place in the program
  means: which command can be there, which operation is in hand (`OpInv`), what memory and state file
  agree on (`MemInv`), that something left behind implies an uncertain stage on disk and a process
  that is not past its checks (`OrphanInv`), and which releases were migrated and ready
  (`ReleaseInv`, `RunningInv`). `ReplayRejected`, an action property that is proved only (deploy starts no release
  older than one it has accepted), needs, on top, that a process past its checks works for the highest
  release accepted (`ReplayInv`).
- `GuardedSendProofs`: all safety properties of the run, and two that are proved only: what is
  suppressed was sent (`SuppressedIsSent`), and after the log says sent nothing is (`SentStays`). `LockInv` (who is in the
  guard has the lock) gives exclusion; `LogInv` and `CountInv` say that what was sent is what is
  in the log, about to be written there, or forgotten. `NothingLost` (up to `dropped`) needs `CareInv`: as long as nothing
  has failed and nobody has died there is just one token, a delivery or a worker that has not yet
  acknowledged one, so that no lock is ever found taken and no retry is used up without a failure.
- `AuthSessionProofs`: all properties of the run, and two that are proved only: a revoked session
  stays revoked and issues no token (`RevokedForever`), and a session is opened to an account that is
  eligible at that moment (`OpenedRight`). `LockInv` says that a rotation in flight is the
  only one of its session and has read the row as it is; `OneCurrentToken` is preserved because
  the next generation is above all others. `VersionInv` (no session is of a version the account has
  not reached, until a write tears) gives `EndedForGood`, and `RevokedMade` the theorems about
  revocation.
- `TokenRefreshProofs`: all properties of the run. The places of a pair in the frontend (`cookie`,
  pages, calls, the `Map`) are tied to the chain of the backend. `Lock`: a call that has no answer yet is the one
  rotation in the backend. `Flight`: a call has its entry in the `Map`, its own refresh token, and a page
  that waits for it. `Fresh`: what the browser may present is the newest pair, or its rotation is at
  hand, so nothing else is ever sent (lemma `NoReuse`). `Reach`: a pair is replaced only after the cookie has reached it,
  so the cookie is at most one pair behind; `Owed`: when it is, a reply with the next one is on its way,
  and therefore `Forget` cannot drop that rotation too early. All but `Lock` hold up to the first slip.
- `LiveControlProofs`: all safety properties of the run.
  - `NeverBothDrive`. `LockInv`: the lock is with the viewer just while they drive and
    with the agent just while it is in a tool; an execution that has ended drives nothing, and no other one
    starts before (`~running => live.at = "off"`), or the new one could take a lock the old one still has.
  - `ViewersInputsInOrder` and `NothingFromBeforeTheGrant`, from `InputInv`. The page waits for one batch at
    a time (`OneAwaited`), which has its latest inputs (`AwaitedIsLatest`); the queue's are later still. Every
    number stands for an input that was made (`Numbers`), and for a viewer who drives what is
    numbered from the next number on is in order and after the grant (`Coming`). Most steps bring no input
    further: lemma `NothingNewKeeps`.
  - `ViewerRefusedForCause`, from `Told`: whoever holds inputs was told to drive, and the state says so until
    there is a cause.
- `RunViewProofs`: all safety properties of the run.
  - `EventsInOrder`. `NoGapNoRepeat` alone is not inductive: `EventInv` adds that the page
    has just the events before its next number, and that a tick about to show some asked from there on
    (`Appending` is the fact about sequences it rests on).
  - `NothingLeftOut`, from `Settled`: a tick that has read a final status reads the rest after it, and by then
    nothing is recorded and no file is written any more.
  - `AnswersReachTheirQuestion`, from `Seen` (no row that was read is of a later question) and `Answers` (the
    questions that are answered, and the answers on their way, come from as many answers of the user), so
    an answer that reaches a later question than it was meant for is one too many.
- `SignupProofs`: `SignupTypeCorrect` and `NothingComesUndone`. A request that read the row before another saved
  brings neither the use of the challenge nor an old code back, because each save names its fields and codes are
  numbered as they are saved. (It does lose increments; no theorem says that the limits hold.) `ReadInv`: what a
  request has read allowed what it is about to do, so the row's attempts and resends are counted up from below
  their limits and stay in their ranges; `AccountInv`: there is no code before there is an account, and only one signup makes it.

A proof attempt that failed for a reason changed the model in four places. In `Signup` two cases of
what the form shows overlapped, and in `LiveControl` a definition read differently from its layout. `InOrder` claimed too
much: it held in the run, and fails after a key has expired with more inputs than the run has. And
`TokenRefresh` did not say that the words "none" and "expired" are no pairs.

Only model-checked: the liveness properties `RunsEnd`, `Ends`, `HandsBack`, `ShowsTheEnd` and `GetsIn`,
which the proof system does not cover; and the properties of the three runs that expect a violation.

## 4. Not modelled

- Loss of a run's delivery inside the broker: it is taken to be reliable once it has the message.
- Events of a run that were checkpointed and not yet recorded when a worker dies (`services.py:372`): they are missing
  from the history the user sees. Rows of events are abstracted in `AgentRun`.
- Failures of single statements of the API in `AgentRun`: a request that fails between two of its statements
  is one whose second never comes, which safety covers (no action has to happen).
- Docker operations before the migration (pull, db and redis): a kill there leaves no trace in
  the state file, but nothing that differs between releases either.
- Expiry of TaskExecution rows (7 days): no code lives that long.
- Frames of the live view, one key that the newest overwrites, and the dispatch of events to Chrome.
- In the frontend: lists that are fetched once and rendered, the forms for login and a forgotten
  password, the landing pages, and `lib/api/generated.ts`, which is generated from the schema.
- Billing, webhooks, organizations, the engine's policy: no module yet.
- For good: telemetry, generated schema, migrations, container files (no state machine), the
  language model and the browser (external).

## 5. Plan

Done: `AgentRun`, `RunLifecycle`, `DeployController`, `GuardedSend`, `AuthSession`, `TokenRefresh`,
`LiveControl`, `RunView` and `Signup`, each with its run and its proofs; every safety property of a
passing run is a theorem.

1. Shorter proofs where lemmas are shared.
2. An abstract `AtMostOnce` that `GuardedSend` implements up to forgotten messages.
3. `Webhooks`, with subscription sync and invitations.
4. The password reset with its form, over the challenge of `Signup`.
5. Policy classification and middleware of the engine as operators against a reference definition.
