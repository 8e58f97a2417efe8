# hy2: formal models

hy2 runs a Hysteria 2 server for a small group of users next to two proxies
with file-backed accounts (Xray and TUIC), and adds what those programs lack:
user records, an authentication backend with device limits, quota accounting,
rotation and revocation of credentials, a web panel, alerts and deployment
scripts. This directory holds TLA+ models of that control logic, translated
from the Python sources, TLC configurations that check them on small instances,
and TLAPS proofs. Line numbers are those of the modelled commit; `PROJECT.json`
lists for every definition the lines it stands for.

## 1. Inventory

### Processes and what they share

| process | code | runs as |
|---|---|---|
| panel | `hysteria/subscription_service.py` | threaded HTTP server, plus one revocation worker thread |
| limiter | `hysteria/traffic_limiter.py` | systemd oneshot, started by a timer every 90 s, killed after 75 s |
| auth service | `hysteria/auth_service.py`, `auth_backend.py` | HTTP server with a bounded pool, asked by Hysteria at every connection |
| deployment helper | `scripts/hy2-deploy-recovery.py` | called by `deploy.sh`, by a boot unit and by a watchdog, one at a time under the deployment lock |
| reload unit | `xray_config.py`, `tuic_config.py` (`_run_reload_worker`) | transient systemd unit, one per reload |
| Hysteria, Xray, TUIC | external | `systemctl`, and the API of Hysteria and Xray (counters, online, kick) |

They talk through files and locks, never through memory:

- `usage_lock`: one lock for users, usage and static plan. The limiter holds it
  for the accounting half of a tick, the panel for the committing half of a
  request, the worker for the deletions and rotations it redoes. Kicks, reloads
  and alerts happen after it is released, and that is where most of the
  hazards are.
- `users.json` (accounts, credential generations, `disabled`, personal rules),
  written with an atomic replacement whose directory sync can fail separately.
- `usage_daily.json` (the ledger quotas are computed from), `usage.json`.
- `credential_revocations.json`: the write-ahead queue of revocations;
  the receipt store of users' own rotations beside it.
- the generated Xray and TUIC configs, each with a config lock, a
  `.reload.pending` marker and a `.fail-closed.pending` marker.
- the device admission ledger and `online.json` with its capture time.
- `alert_state.json`: what has been reported, with claims of senders.
- the two session files of the panels, the template with its lock and the pinned
  snapshots of it.
- the deployment journal: manifest, snapshots, staged candidates.

### Components

| component | state | operations | what makes it correct | module |
|---|---|---|---|---|
| static proxy reload | config, reload marker, fail-closed marker, service | plan, save, schedule, restart, probe, acknowledge, stop fail closed, recover | a running proxy whose config is outdated is never forgotten; a stopped one comes back | `StaticReload` |
| rotation, deletion, revocation | `users.json`, queue, leases, sessions | prepare, commit, sync, kick, record, claim, redo, discard, edit | nobody stays connected with a revoked credential; history goes only with the account; a deletion is not forgotten | `Revocation` |
| authentication, device admission | ledger, online count, snapshot | verify, read online, reserve, recheck, answer; edit, kick | no more devices than allowed; nobody back in on a revoked record | `Authentication` |
| auth HTTP service | two semaphores, two executors, deadlines, PBKDF2 leases | accept, submit, serve, reject, expire, close | permits are neither leaked nor doubled; every connection ends; shutdown returns | `AuthService` |
| accounting, enforcement, alerts | counters, two ledgers, `disabled`, plan, dedup | collect, save, plan, kick, claim, dispatch, finish; reset, disable, pause, enable | no byte lost or doubled; a user over quota ends with no way in and it is reported | `QuotaEnforcement` |
| billing calendar | settlement day, length, anchor, retained days | tick, next day, configure | cycles tile the calendar; the quota sees every day of its cycle | `BillingCycle` |
| rotation receipts | receipts bound to browser sessions, intent, session file | sign in, look up, prepare, queue, commit, mint, bind, answer, expire | a repeated rotation does not rotate twice, and its token can be had again | `RotationReceipts`, `IdempotentRotation` |
| panel sessions, login limiter | session files, attempts, slots, hashes | log in, use a link, log out, change, reset, disable | a visitor has a budget of guesses; old sessions end with the password | `PanelSessions` |
| templates and rules | template, revisions, snapshots, personal rules | add, delete, replace, apply a pack, pin, follow | no edit is lost or repeated; a pinned user is served | `TemplateEdits` |
| subscriptions | none | profile, transport policy, overlay | what is served is complete, ordered and allowed | `SubscriptionRender` |
| deployment recovery | journal, snapshots, tree, units | prepare, snapshot, before, rename, after, complete; preflight, quiesce, restore, verify, resume, clean up | after any crash the tree is the old or the new one | `DeployRecovery`, `AtomicDeploy` |
| HTTPS activation | phases, saved files | activate, roll back | the same, for the web server's config | left out (section 5) |
| cost calibration, TUIC meter | baselines | estimate, delta | bounded steps, no negative traffic | left out |
| dashboards, charts, CSS, JS | none of their own | render | - | left out: text |
| backup, port hopping, MSS scripts | none | - | - | left out: straight-line shell around `tar`, `git`, `iptables` |

### Hard behaviours

`PROJECT.json` lists them at their lines under "hazards". In short: state read
without a lock and used after another writer has moved (reload token, online
count, a verified hash, a page rendered earlier); crashes between two durable
writes; saves that are visible but not durable; kicks that race with an
authentication already accepted; two actors recording results on the same task;
claims and leases of dead processes; answers that are lost and requests that are
repeated; bounds (queue, pools, session files, remembered sessions) at their
limit; calendars whose alert keys and cycles do not coincide.

## 2. Modules

Every module describes one proxy service, one user name, one browser, one
template or one calendar where the code treats them independently: the interesting
interleavings are those of several actors on one of them. `MC*.tla` give constants
to TLC and define nothing else. Beside some definitions stands a variant of it
with one plausible error (`WorkerDeleteAny`, `ClaimStays`,
`PreflightForgetsPending`, ...); no specification uses it. `PROJECT.json` lists under
"mutants" which property catches which variant.

### StaticReload

The lifecycle of one generated config and its service. `disk`, `marker`,
`failClosed` are the three files, `svc`/`loaded` what systemd runs and what it
read. A caller (the limiter or a panel thread) goes through `Plan`,
`MarkReloadPending`, `SaveConfig`, possibly `RecoverStop`/`RecoverStart`/
`RecoverProbe`/`RecoverClear`, `Release` and `ReloadAsync`; a reload unit through
`WorkerRestart`, `WorkerProbe`, `WorkerAck`. The token is read by `ReloadAsync`
without the config lock, as in the code. Every failure (`ApplyFails`,
`RecoverFails`, `ReloadFails`, `WorkerFails`, `StateError`) leads to
`FailMark`/`FailStop`; crashes of a process, of the service and of the host are
actions too. A process crash hits all its threads: the panel's callers die
together, the limiter alone. What the configs contain is one of a set of
`Plans`; native validation is a success or a failure.

### Revocation

One user name, any number of numbered operations. A request runs `Begin`
(under `usage_lock`), `Prepare` (task into the queue), `Commit` (users.json) with
its two failures (`CommitFails`: nothing written; `CommitUncertain`: replaced but
not synced), `Sync` (static configs, history purge), and after the lock `Effects`,
`RequestKick`, `RequestRecord`. The worker claims a due task and redoes a
deletion (`WorkerDelete`), checks a rotation (`WorkerRotate`: an intent that never
committed is kept until it expires and is then discarded), syncs, kicks and
records; when it cannot read or write users.json (`WorkerFails`) it releases the
claim and may stop the static proxies. `Edit` changes a field of the account that
is not its credential: the deletions queued for the record are then bound to
another revision (`bound`). `Authenticate`/`Connect` are Hysteria's side: acceptance
and session are two steps, which is why one kick is not enough. `durable` is what a
host crash would leave of users.json; `history` is the usage history on disk: none, the
account's own, or that of an account whose addition a host crash took back (`lost`:
nothing in the code purges it, since no deletion was ever asked for). `rushed` is a
history variable: some task left the queue without two kicks that both followed its
commit with a delay between them (`kicks`, which starts again at 0 when a host crash takes
the commit back).

### Authentication

One user, several devices, worker threads. Ages are counted in ticks. A request
is `Begin`, `Verify`, `ReadOnline` (or `ReadSnapshot` when the API fails), `Reserve`/
`Refuse`/`ReserveFails` under the ledger lock, `Recheck` for the second read of
users.json, and `Accept` when the answer leaves; `Reject` ends it at any point. The
record can change between any two of these (`Edit`), and the revocation of the change
then kicks twice with a pause (`Kick`, `KickFails`): a kick closes the sessions Hysteria
has, not one whose answer is still on its way. The clock is read before the ledger lock is taken (`waited`), so
a reservation is stamped, and others expire, as of that moment. `Tick` lets time pass
only while no request is beyond its deadline: the service aborts it
(`REQUEST_DEADLINE_SECONDS`). The history variable `exact` says that so far no request
applied an online count read before another request applied a later one.

### AuthService

The HTTP bridge in front of it. `GetRequest`, `Acquire`, `Submit` are the accept
thread: register the deadline, take a permit of the capacity semaphore or one of the
overload responder, or drop the connection; hand it to an executor (which may refuse:
`SubmitFails`). `PickUp` ... `Finish` are a worker, with the PBKDF2 lease of the
password fallback (`TryAcquire`, `Verify`); `RejectOverload` the responder; `Expire`
the watchdog, which shuts a socket down and lets its owner notice. `Interrupt` and
`Stop` are `server_close`. A client may send its request or leave (`ClientActs`), or do
nothing for ever.

### QuotaEnforcement

One metered user, two proxies, two billing cycles. A tick is `Begin`, `Collect`
(which clears the proxy's counter), `SaveDaily`, `SaveUsage`, `ApplyPlan` under
`usage_lock`, then `Kick`, and `NoAlert` or `ClaimAlert`, `Dispatch`, `Finish`. The
panel's requests are `ResetUsage` and `SetDisabled` (disable, pause, enable) and the
steps after it, with the order of the handlers (the lock is released before the kick,
and a failing sync skips it). How a changed config comes into force is left to
`StaticReload`: here it serves from the moment it is written.

### BillingCycle

Days, months, the settlement day, the anchored blocks of `cycle_start_for`, the
retention of `prune_daily` and the month key used to deduplicate alerts.

### DeployRecovery and AtomicDeploy

`hy2-deploy-recovery.py`, whoever calls it. A deployment is `Prepare`, `Capture`
(units), `Snapshot`, `SnapshotDone` (the journal becomes active), then for each artifact
`Before` (check the generation, journal the candidate), `Rename`, `After`, and finally
`Complete` or `Abort`. A recovery is `RecoverPreflight` (read-only: every artifact must
be at its original or at a journaled generation), `StopUnit`/`Quiesced`, `MarkRestoring`,
`RestoreCheck`/`RestorePut` in reverse order, `RestoreRuntime`, `VerifyRestored`,
`Resume`, and `CleanupFile`/`CleanupDir`, which remove the journal file by file in any
order. `Kill` ends the holder of the lock anywhere, `HostCrash` also takes back the
renames no manifest write has made durable, `RecoveryFails` and `PreparingFails` are
errors with the restarts the code attempts (`Restarted`), `SystemdStart` is a unit
started from outside, `OtherWrites` somebody else changing an artifact.

`AtomicDeploy` is what is promised: a version that changes in one step (`Install`) or
not at all (`Rollback`), not while an artifact is `dirty`. `Write` is somebody else's
write, of several artifacts at once: a host crash can bring back at one go the foreign
generations that two raced renames had overwritten. The mapping reads the version
of an artifact as its original while the journal is in force and as the tree otherwise,
which makes the durable "complete" the point of no return and the durable
"restored" the point of rollback.

### RotationReceipts and IdempotentRotation

A user's own rotation. The browser's session belongs to a token or to the panel password
(`Password`), from the beginning or after a `SignIn`; a page of either (`OpenPage`) carries
the token in force, and `SessionAllows` lets both start a rotation, as
`_rotation_session_allows` does. Then `Send`, `FirstLookup`, `PrepareReceipt` (under
`usage_lock`: second lookup, receipt bound to the browser's session), `QueueTask`,
`Commit`, `Mint` (sessions replaced), `Bind` (the new session added to the receipt, the oldest pushed out),
and the answer, which arrives (`Arrive`) or is lost (`Lost`). A repetition takes the
same steps: it finds the receipt and its token, queues the intent again, and saves the
same token once more, or, overtaken by another rotation, discards both (`Conflict`). The
worker judges an intent whose commit it does not find (`TaskJudged`) and drops it later
(`TaskDropped`), with anything in between.
`AdminRotates` is the administrator's rotation, `Expire` the receipt's lifetime.
A receipt is plain text in a file of mode 0600; it keeps digests of the sessions it is
bound to, and is found for those only (`Lookup`). `Refuse` is always possible without a
receipt: sessions that end, changed passwords, disabled and expired accounts are not
tracked.

`IdempotentRotation` knows one current credential, the one each page was rendered with
and the one each request made of it: `Rotate` once, `Answer` only with that one, `Undo`
for a host crash that loses commits and `Redo` for the repetition after it, `Forget` for a
credential that is not in force and whose receipt is gone. `issued` is that relation in
`RotationReceipts`. It forgets a token when its receipt goes (it expires, it is discarded
after a conflict, the host crash that undid the token leaves no durable receipt of it) and
the token is not in force: such a request may make another one.

### PanelSessions

`req[w]` is what worker `w` is doing. A login is `Login`, `BeginLoginAttempt` (slot),
`VerifyLogin` (reads the hash; `/login` has read it before), `FinishLoginAttempt` (slot
back, failure recorded or forgotten), `CreateSession`; a link goes to `CreateSession`
directly. A password change is `ChangeRequest` (session seen), `ChangePassword` (under
`usage_lock`, password compared there) and `ReplaceSessionsWithNew`; the administrator's
forms (`ResetPassword`, `DisableUser`, `EnableUser`, `RotateToken`) carry the revision of
the record their page showed and end in `DeleteSessionsFor` where the code does. Session
files are sequences, oldest first, with the two caps of `_create_session`. Files that
fail (`UserReadFails`, `SessionStoreFails`) and a restart of the panel, which forgets
limiter and requests but not sessions, are actions. A stored hash is the version of the
password it was made from; a session carries the generation it was minted for and, as
history, the version that was proved (`proof`).

### TemplateEdits and SubscriptionRender

`SubscriptionRender` holds the pure functions: the profiles (game, work, lowdata, safe), the
transport policy that withholds TUIC, rule packs, the user's overlay, and their order in
`RenderSubscription`. A config is its proxies, groups, rules, fake-IP filters, tunnel
exclusions, and whether its text parses and has proxies of the right shape: a step that
raises an exception answers with the text it got. A rule is the sequence of its
comma-separated fields, because the code validates fields without their blanks and
rewrites them with. `TemplateEdits` puts them under concurrent edits: administrator pages (`page`)
and user pages (`upage`) keep the revision they were rendered with; each handler under one
lock is one action, pinning (`SnapshotCurrentTemplate`, then `SetUserTemplateModePinned`)
is two. Every stored edit may be answered with a fresh page or not at all, so that
the same form is sent again. `HandEdit` replaces the file without the panel. A conflict renews the small forms' page; the editors keep
draft and old revision (`DraftConflict`). `wanted` and `uwanted` are history: the rules
that were stored and that nobody has since removed on a page that showed them.

## 3. Runs

| run | instance | checks |
|---|---|---|
| static | limiter, one panel thread, 2 units, 1 token, 1 failure of 8 kinds, fair | TypeOK, NoLostReload, PendingReloadAcknowledged, FailClosedRecovered |
| static_ack_race | the same, 2 tokens, no failure; expected to be violated | AckedGenerationLoaded |
| revocation | 1 request thread and the worker, operations up to number 3, queue of 1, 1 failure of 10 kinds, fair | RevokedWhenDone, HistoryFollowsAccount, CommitIsCovered, DeletionRedone, QueueDrains |
| auth | 3 devices for 2 slots, 2 threads, 1 edit, 1 failure of the API, the ledger or a kick | NeverOverAdmitted, KickedForGood |
| authservice | 4 sockets used again and again, 2 workers, 1 overload permit, 1 PBKDF2 lease, fair | PermitsBalanced, ConnectionEnds, CloseTerminates |
| quota | 2 cycles, 3 units, quota 2, 2 panel requests, 1 failure of 7 kinds, fair | UnitsConserved, DailyCoversUsage, ShutOutForGood, OverQuotaReported |
| cycle | 4 short months, all lengths up to the maximum 5, 1 change of settings | QuotaSeesWholeCycle, CyclesTile |
| cycle_rearm | the same without the change; expected to be violated | RearmedByNewCycle |
| deploy | 2 artifacts, 2 units, 3 generations, 1 kill, crash or failing recovery, fair | SnapshotsCoverJournal, NoServiceOnHalfRestoredTree, UnknownNeverOverwritten, RollbackRestoresUnits, TransactionResolved, ImplementsAtomicDeploy |
| receipts | 2 threads, 2 pages, 3 tokens, 2 sessions, 1 failure | RotationCovered, TokenRecoverable, ImplementsIdempotentRotation |
| templates | 2 administrator pages, 1 user page, 3 edits | NoLostEdit, RetriesHarmless, PinnedServed, PersonalRulesFirst, SubscriptionSound |
| panel | 2 workers, 2 visitors, 2 users and the administrator, 3 requests, 1 failure | LoginBudget, SlotsReturned, UsableSessionsCurrent, SessionFilesBounded |

The type invariant of each module is a conjunct of one of its invariants (of TypeOK
itself in `static`). What a run shows is said in its "about" in `PROJECT.json`.

### The violated runs

**static_ack_race** states the docstring "Restart xray and ACK only the exact config
generation it loaded" (`xray_config.py:470`). `reload_async` reads the marker without the
config lock. Called while another writer is between marker and rename, it schedules a
unit with the token of a config that is not on disk yet; the unit restarts the old
config and acknowledges the new marker. No failure is needed. NoLostReload says what
holds all the same: that acknowledgement, recorded in `earlyAck`, is the only way to lose
a reload.

**cycle_rearm** states "New cycle, new dedup row, alerts re-arm automatically"
(`CONTEXT.md:111`): a cycle seen over quota is one that was alerted about. `check_alerts`
deduplicates by `month_key` (`traffic_limiter.py:728`), the month of the last settlement
day. With a cycle shorter than a month (1 to 90 days are accepted) the second cycle of a
month to cross the quota finds its row taken. The settings do not change in this run.

### Exceptions the properties name

Where the code does less than a comment or a document suggests, the property that
passes states the exception, by a history variable or a disjunct, so that it is exact:

- *Two kicks without a pause* (`rushed`, RevokedWhenDone). "two spaced successful kicks
  complete revocation" (`revocation_queue.py:258`, `CONTEXT.md:93`). The request records
  its own kick without a lease; the worker may have claimed the same task and kick at
  the same moment. Two successes are counted, nothing lies between them, and an
  authentication accepted before both connects after both. The count is also kept when
  a host crash takes back a deletion whose directory sync had failed: the worker redoes
  the deletion, and the kick from before the crash is one of the two.
- *Online counts applied out of order* (`exact`, NeverOverAdmitted). The count is read
  before the ledger lock (`auth_backend.py:1003`) and applied after it; a request that
  applies a count from before a client connected, after another request has retired that
  client's reservation, admits one device too many ("rather than admitting more than
  max_devices concurrent clients", `auth_backend.py:680`).
- *A deletion and an edit* (`bound`, DeletionRedone). A queued deletion is bound to the
  whole record (`subscription_service.py:2116`). If its own save failed and the record is
  edited before the worker comes, or a tick ends a pause in it, the worker takes it
  for "a same-name replacement" and drops the deletion.
- *Writes between check and rename* (`raced`, UnknownNeverOverwritten,
  ImplementsAtomicDeploy). Somebody who writes an artifact without the deployment lock in
  the window between the helper's generation check and its rename is overwritten.
- *Receipts at their limits* (TokenRecoverable, RotationCovered). A receipt remembers
  four sessions, so that as many answers lost in a row push out the browser's cookie; two
  rotations under way at once, or a sign-in while a page is open (`crossed`), replace its
  cookie. A token counts as seen (`Shown`) also when a page opened later carries it: a
  host crash can put it back in force when another request, from a password session, has
  meanwhile been answered with a cookie its receipt does not know, and then the page is
  all that is left of it. A receipt that
  expires between the lookup and the prepare of one request (`late`) is made anew while
  the intent keeps its older time and may be dropped although the token is committed. The
  other cause of `late`: a host crash undoes two rotations in a row, the worker takes the
  second one's intent for overtaken (the token in force is older than the one it starts
  from) and drops it although both requests may still be repeated.
- *A slot that is not given back* (`leaked`, SlotsReturned). When users.json cannot be
  read, `/user/login` ends at `subscription_service.py:7017` with its "short-lived
  reservation" (1285) still counted against the address, until the panel restarts.
- *Sessions without a generation* (`purged`, UsableSessionsCurrent), written by an older
  release, outlive a password change that dies before it replaces the sessions.
- *The global cap* (SessionFilesBounded). `_replace_sessions_with_new` does not apply
  `SESSION_MAX_GLOBAL`; the users' file can exceed it by one entry per other account.
- *Groups of TUIC alone* (SubscriptionSound). `validate_template_config` accepts groups
  whose members do not exist or are all TUIC; the first stay as they are, the second are
  served empty to a user who does not get TUIC.
- *Rules the safe profile misses* (SubscriptionSound). "`safe` proxies everything except
  LAN/private traffic" (`README.md:121`), yet the profile looks for `,DIRECT` in a rule's text
  (`subscription_profiles.py:500`) and replaces its third field (401). `validate_clash_rule`
  strips the fields (`subscription_service.py:4782`), so `DOMAIN-SUFFIX,x, DIRECT` is stored, is
  not found and stays direct. In a logical rule the third field is part of an operand: it is
  overwritten, the action stays. The user's own rules are meant to survive.
- *Spoilt templates* (SubscriptionSound, PersonalRulesFirst). A rendering step that raises
  an exception answers with its input (`subscription_profiles.py:382`, 571, 588): a template
  edited by hand into a shape a step cannot process is served without the profile and with
  TUIC. One that does not parse is served as it is, without the overlay. The forms store
  no such template, and none is ever pinned (TypeOK).

Two further observations no property is about: a session minted for a login that
finishes after the account was disabled stays in the file and counts again once the
account is enabled; and a template save whose directory sync fails is answered with
"服务器未修改模板" although the file was replaced (`subscription_service.py:4707`, 8006), so
that the repeated form is a conflict with itself (RetriesHarmless shows that it is
never applied twice).

### Bounds, and why they are enough

- StaticReload: two units are needed for one to acknowledge what the other
  restarted, one failure for each recovery path. The proof removes the bounds for the
  safety half; the violated run needs two tokens, for a marker to be replaced while a
  unit carries the older one.
- Revocation: operations up to number 3 (2 and 3 after the initial generation 1) give
  delete-then-add under an old task; a queue of one makes a further request meet a full
  queue. One request thread is what the liveness property leaves room for: it runs beside
  the worker on the same task. The four safety properties hold as well with two request
  threads and one queued task, and with one thread and two tasks (a million states each,
  not among the runs), and are proved for any number of both.
- Authentication: three devices for two slots is the least instance in which the
  limit matters and a reservation is shared. A request and a connection take up to a tick
  each, an answer arrives in the tick it leaves. `AdmissionTTL` 5 is one tick more than
  twice all that; with 4 the limit is broken also when requests are served one at a time.
  The real values are 20 s against 6 s and twice the rest, so the code is safe for clients
  that are answered and connect within 7 s. KickedForGood needs an answer and a connection
  to fit into the pause between the kicks (`AnswerTime` + `ConnectTime` < `KickDelay`, 1
  against 2; with 1 it is broken): an assumption on Hysteria and its clients, which the
  code does not enforce beyond the deadline of the request.
- AuthService: four sockets on two workers and one overload permit let one wait, one be
  refused politely and one be dropped; `MaxPending` 0 makes the semaphore and the pool the
  same size (the queue fills between submit and pick-up all the same).
- QuotaEnforcement: a unit over the quota, so that usage can pass it as well as
  reach it; two cycles for a tick or a reset to straddle the change; two panel
  requests for disable-enable and reset-during-tick.
- BillingCycle: the retention depends on the maximum cycle length only through
  its difference to the length in use, and 5 days on months of 3 to 5 days has all
  orders of cycle, month and settlement day.
- DeployRecovery: two artifacts for a tree that is half one version; one unit active
  before and one not; three generations for the original, a replacement and a foreign
  write. Failing deployments and refused recoveries are free, so that one fault is a
  fault on top of them; a second one multiplies the states beyond a quick run.
- RotationReceipts: two remembered sessions instead of four; three tokens for the user's
  and the administrator's rotation; two threads let requests overtake each other, and one
  failure is a lost answer or a crash at any step. A third session, which pushes the first
  out of a receipt, and two failures in a row, as a lost answer that is lost again needs,
  are too many states for a run; the theorems cover them, and an instance with one thread,
  three sessions and two failures passes too.
- TemplateEdits: three edits let two pages cross and one be repeated; the other body
  has a group of TUIC alone and a member that does not exist, the two texts edited by hand
  are the two ways of being unusable, and one rule list has the three rules the safe
  profile's search gets wrong; a personal limit of 1 is reached by one rule.
- PanelSessions: three requests for two logins of one address and a reset or change
  between their steps; `MaxIps` 1 with two visitors makes the limiter drop an address;
  caps of 2 and 3 are reached by logins on top of the session of an older release the
  initial state may have. Four requests without failures pass as well.

TLC's symmetry is used only in runs without liveness, over threads, pages, devices or
users, which are interchangeable.

### Fairness

- The limiter's timer starts a tick again and again (`OnUnitActiveSec`), and
  `TimeoutStartSec` ends one that hangs; locks are taken with timeouts and held for
  bounded work. Hence strong fairness of starting a tick (`Begin`, `Plan(Limiter)`)
  and fairness of its steps. Nothing forces the panel to begin anything.
- The revocation worker loops for the life of the panel, and the panel is restarted
  by systemd; `claim_due` picks the task due longest, so every due task is claimed
  (strong fairness of `Claim`), and delays, leases (`Elapse`) and the expiry of an
  intent that never committed (`Expire`) are clock driven.
- An alert claim gets old, its process dead or not (`CLAIM_TTL`, `ClaimExpires`).
- An accepted authentication becomes a session: the conservative choice, since a
  client that never connects cannot violate anything.
- PendingReloadAcknowledged and FailClosedRecovered assume in addition (strong fairness
  of a unit's steps) that units are not disturbed for ever while they restart or probe: a
  recovery's stop and a unit's probes can make each other fail closed. The timer's
  period is longer than a unit's restart and probes, which is what justifies it.
- AuthService: the accept thread, workers, responder and watchdog run and deadlines
  pass. Clients owe nothing: ConnectionEnds holds although none ever sends.
- DeployRecovery: the boot unit, the watchdog and the next deployment run the recovery,
  and one that runs goes on (weak fairness of `Recovery`). A deployment owes nothing.

Deadlock is checked for StaticReload, Authentication, QuotaEnforcement and DeployRecovery.
The others stop when their operations, edits or requests are used up, at the end of the
calendar, or (AuthService) when the server is closed.

## 4. Refinements and proofs

Two modules are shown to implement an abstract specification: `DeployRecovery` implements
`AtomicDeploy` and `RotationReceipts` implements `IdempotentRotation`, both by TLC and by
proof (safety; what must eventually happen is TransactionResolved).

The proofs hold for every value of the constants: any number of threads, requests,
connections, artifacts, units, operations and failures. Each proof module extends its
component and has the same shape: the parts of an inductive invariant `IInv`, facts about
the operators, one lemma or step per action that `IInv` is preserved, and the theorems.
Every `IInv` was checked by TLC as an invariant of the component's instances before it
was proved.

| theorem | states | module |
|---|---|---|
| `StaticTypeOK`, `StaticNoLostReload` | TypeOK, NoLostReload | `StaticReloadProofs` |
| `UnitsAreConserved`, `DailyLedgerCoversUsage` | UnitsConserved, DailyCoversUsage | `QuotaEnforcementProofs` |
| `SnapshotsAlwaysCover`, `ServicesStayDown`, `UnknownIsKept`, `UnitsAreRestored`, `DeploymentIsAtomic` | SnapshotsCoverJournal, NoServiceOnHalfRestoredTree, UnknownNeverOverwritten, RollbackRestoresUnits, ImplementsAtomicDeploy | `DeployRecoveryProofs` |
| `PermitsAlwaysBalanced` | PermitsBalanced | `AuthServiceProofs` |
| `CredentialsAreRevoked`, `HistoryAlwaysFollows`, `CommitsAreCovered`, `DeletionsAreRedone` | RevokedWhenDone, HistoryFollowsAccount, CommitIsCovered, DeletionRedone | `RevocationProofs` |
| `PanelTypeOK`, `BudgetKept`, `SlotsKept`, `SessionsCurrent`, `FilesBounded` | TypeOK, LoginBudget, SlotsReturned, UsableSessionsCurrent, SessionFilesBounded | `PanelSessionsProofs` |
| `ReceiptTypeOK`, `RotationImplements`, `Covered`, `Recoverable` | TypeOK, ImplementsIdempotentRotation, RotationCovered, TokenRecoverable | `RotationReceiptsProofs` |

and in each module the theorem that `IInv` always holds (`StaticInductive`,
`LedgersInductive`, `JournalInductive`, `PermitsInductive`, `QueueInductive`,
`PanelInvariant`, `ReceiptInvariant`).

The assumptions are those named in the modules: kinds of constants (`QuotaAssumption`,
`RevocationAssumption`: bounds are naturals, the free lock and the worker are no
requests), `StaticAssumption` (the limiter is a caller, the locked plan is a plan, there
is at least one probe), `PanelAssumption` (limits, lifetimes and the login window are
positive, the administrator is no user), `ReceiptAssumption` (a receipt remembers at least
one session, "nobody" is neither a request nor a thread), and finiteness where something
is counted or enumerated: the connections (`ServiceAssumption`), the artifacts
(`DeployAssumption`; the allowlist in the code is a literal tuple), the users and the
panel's workers (`PanelAssumption`).

### StaticReload

NoLostReload is not inductive: an acknowledgement removes the marker, and
nothing in the property says that the acknowledging unit's restart read the
config on disk. `IInv` adds what the code relies on:

- `TokensFresh`: a minted token is new, so a unit in flight never carries the token of
  a later save by accident;
- `SaveProtected`: between marker and rename the config lock is held, the marker stays,
  and whoever reads the token then is known to be early;
- `RestartCovers`: a unit past its restart that carries the marker's token and was
  not early probes a process that loaded the config on disk. A save changes the
  disk, but it has minted a new token before, so no such unit is left;
- `ProbesCounted`, for the types: a probing caller or unit has a probe left.

### QuotaEnforcement

UnitsConserved and DailyCoversUsage are about states between the steps of two actors that
each read a ledger, change it and save it in two files. `LedgersLocked` (whoever is
between reading and saving holds `usage_lock`) makes the two exclude each other,
`LedgersOrdered` says what is true while only one of the two files is saved: the limiter
has already put into `usage_daily.json` what it is about to add to `usage.json`, and the
panel has already zeroed `usage.json` when it zeroes the other. `Balance` is the equation
of UnitsConserved. The sum over the cycles is a recursive function; that it exists, and
what it is after one entry has changed, is proved by induction (`SumsExist`,
`SumsExcept`).

### DeployRecovery

`Stage` says where the holder of the deployment lock can be for each state of the journal,
`Journal` that snapshots precede the first mutation and that every mutation was announced,
`Services` that the units are down from the first restored artifact on, `Runtime` what
"restored" knows of the units, `Foreign` which generations others wrote, and `Undoable`
what a host crash can take back. The refinement maps an artifact's version to its original
while the journal is in force, so that all renames, restores, kills and most crashes are
stutters; `Install` is the durable "complete", `Rollback` the durable "restored", and
`Foreign` and `Undoable` are what shows that everything else is `Write`. The order in
which mutations are undone is a recursive function again (`LatestFirst`).

The proof found one step of the refinement that TLC's instance is too small for: after
two raced restores a host crash brings back two foreign generations at once, where
`AtomicDeploy` allowed one at a time (five generations are needed). `Write` now takes a
set of artifacts.

### AuthService

`Permits` relates each semaphore to the number of connections in the states that hold one
of its permits, with equality while the server accepts and inequality after an interrupt,
which may strand a permit of the connection being accepted. `Queues` adds that the
executors' queues list exactly the connections in the waiting states, each once; without
it a pick-up could serve a connection that holds nothing. How the counts move is
`HoldingStep`, from `CountChange`.

### Revocation

- `Locks`, `Holders`: operations are numbered in the order of their commits, and a request
  that is about to commit has its task in the queue, bound to the visible generation;
- `TasksOlder`, `ClaimCopy`: tasks are bound to older generations, and the worker's copy
  agrees with the task as long as that is queued (both become unbound in one `Edit`);
- `ClaimSettled`, `CountSettled`: no actor counts a kick for a deletion before its account
  is gone or is another one. This is what makes a drop safe, and what lets the worker's
  redone deletion find its own task in the queue;
- `HistoryKept`, `AbsenceOwned`: while the account is absent and either the absence is not
  durable or its history is not purged, some queued deletion has not been handled yet;
- `KicksCount`, `GoodAtRecord`: after one counted kick and the delay no old credential
  is on its way in, after two none is connected. Kicks that are made but not yet recorded
  count as well, because the request and the worker may both be at work on one task;
- `Coverage`, `NobodyIsZero`: every replaced generation in use is covered by a queued task.

DeletionRedone follows from `WhoDrops` (three actions take tasks out of the queue),
CommitIsCovered from `WhoReplaces` (four actions and a host crash change the generation).

The proof attempt found two cases that need two failures, which the run's instance does
not have: the success counted before a host crash that takes the deletion back, and the
history of an account whose addition a host crash takes back. The first is one more way
of being `rushed`, the second is `history = "lost"`. The corrected model passes also with
two failures of all ten kinds and one request (9.7 million states, not among the runs).

### PanelSessions

`Scalars`, `RequestsOK`, `FilesOK` and `LimiterOK` are the shapes, and with them what a
request has proved: a request in `verified` with `ok = "yes"` guessed the hash it has read,
and a session carries the generation that was proved or is one of an older release whose
user was not purged. UsableSessionsCurrent follows from these.

- `Slots`: `inflight` is the number of requests between `_begin_login_attempt` and
  `_finish_login_attempt` of an address, plus the slots that were leaked;
- `Budget`: LoginBudget speaks of the wrong passwords that were verified, the limiter of
  the failures it has recorded. For every moment of the window, failures since plus slots
  in use are within the limit, and every wrong verification since is recorded or belongs
  to a request that is about to record it. A login that is admitted takes a slot before
  its failure is known, which is what keeps the sum within the limit.

The caps of a file are kept by removing all but the last to expire of an account's entries.
What such an operation leaves is stated by its result (`Only`: the entries that pass a
test, in their order) and not by a fold, so that it can be reasoned about without
induction over the file. `RankBijection` (in a finite total order the number of elements
before one is a numbering without gaps) shows that this result exists and keeps exactly
those entries, and that at most the cap of an account's sessions, the ones that expire
last, have a rank below it.

### RotationReceipts

Every action is first shown to be a step of one of twenty-two kinds (`Steps`), which say
what happens to each request and each thread; the invariants are shown for the kinds.

- `Basics`: the types, who holds `usage_lock`, and that a receipt, an intent and a thread
  of a request start from the token of its page and carry a later one that was made;
- `Disjoint`: no token belongs to two requests, wherever it is kept: in the receipts, on
  the disk, in an intent, in a thread. `TokenStep` shows that a step gives a request at
  most one new token, which nobody has;
- `InForce`: a token in force that belongs to a request is the one it has issued;
- `Agreed`: while a rotation that a crash has undone can be repeated, the receipt, its
  durable copy and the threads of that request all name the token it had issued;
- `Answering`: a thread past its commit carries the token its request has issued;
- `Undoable`: a crash would put back the token of a page.

These six (`Core`) carry the refinement. A commit is a stutter, `Rotate` or `Redo`
(`CommitFacts`, from `Agreed`), an answer is `Answer` (from `Answering`), the rotation of
an administrator is `Other`, a host crash is `Undo` (from `Undoable`), or a stutter if
nothing was lost (from `Agreed`).

`Cover` adds what RotationCovered needs: a request that is about to commit has its own
intent in the queue (`SameIntent`, `Queued`), and the intent the worker is about to
discard is one nobody needs any more (`Condemned`), although commits happen in between.

`Recover` adds what TokenRecoverable needs: a request under the lock has a receipt, also on
the disk, that opens for the session it came with (`Secured`); a host crash puts back
the token of a page (`Undoable`), which was shown, so that it never brings back one that
nobody saw without its receipt; a request that came with a cookie
the browser has replaced by now was answered or ran beside another (`Outdated`, and
`Overtaking`, `Crossing`, `MintedFor` for the cookies on their way); and a receipt has one
session and those bound later (`Counted`), so that only as many bindings as it remembers
can push one out.

The proof found that the history variables were only right within the run's bounds: with
two faults a host crash can undo two rotations in a row, after which `issued` named a token
whose receipt was gone, and the worker's verdict on the second intent was not among the
causes of `late`. Both are corrected. With one thread and three faults (20 million states,
not among the runs) TokenRecoverable holds too, and would fail if only answers counted as
showing a token: rotate and lose the answer, rotate on from the password session's page, and
lose that rotation in a host crash.

### CommonLemmas

Facts the proofs share: the least element of a set of naturals and induction stated for
a set (`SetInduction`; the library's induction theorems take an operator, which the
installed provers cannot instantiate), sequences without repetition and what `Head`, `Tail`,
`Append`, `\o` and `SetToSeq` make of them, and the cardinality of a set that one element
may have entered or left (`CountChange`).

### Only model-checked

All liveness (fairness and `ENABLED` are outside the prover's reach): QueueDrains,
PendingReloadAcknowledged, FailClosedRecovered, ShutOutForGood, OverQuotaReported,
ConnectionEnds, CloseTerminates, TransactionResolved. `TemplateEdits` and
`SubscriptionRender`, whose properties are about what folds make of rendered sequences:
that needs induction over data. `BillingCycle`, whose properties are about recursive sums
over days and the calendar's arithmetic, and `Authentication`, whose counts of devices
depend on the ages of reservations and snapshots; TLC checks both exhaustively within
their bounds.

## 5. What is left out

Components:

- *HTTPS activation* (`hy2-enable-https.sh`): a transaction in shell around certbot and
  nginx with a rollback of its own. The second candidate for `AtomicDeploy`.
- *Cost calibration* estimates with floating point numbers, out of TLC's reach; *TUIC
  metering* is a difference of two firewall counters for a chart no decision reads (a
  counter that was recreated and has passed its old value looks like one that went on,
  `tuic_meter.py:192`).
- Dashboards, charts, CSS and JS are text; the backup and host scripts are straight-line
  shell; which unit systemd starts after which is data of the unit files.

Within the modules:

- Texts and formats: HTML, YAML and JSON layout, logs, masks, HTTP parsing.
- Credential hashing; in AuthService the PBKDF2 rates per source are a refusal that may
  come at any time, only SIGINT's shutdown path is modelled, and a thread pool's own
  start-up is one step with the pick-up.
- In Authentication, validation of user records (`user_compat.py`) is the verdict
  `active`, and the kicks of one change are spaced; that a request and the worker may
  kick at the same moment is the subject of Revocation (`rushed`).
- In QuotaEnforcement the hourly and per-protocol files, which no decision reads,
  the zeroing of `usage.json` on the settlement day (a display figure: quotas come
  from `usage_daily.json`), and several users in one tick. A manual reset between a
  tick's commit and its alerts clears the deduplication, and that tick reports from its
  memory once more (`traffic_limiter.py:1102`): a superfluous alert, which no property
  forbids.
- In Revocation the user's own rotation (it is in RotationReceipts), and the length of
  delays: they pass or have not passed. The worker works from the copy of the task it
  claimed, as in the code; a static service recorded meanwhile is seen at the next claim.
- Xray and TUIC share `StaticReload`; where their code differs (unit names,
  validation commands, formats) the difference is data.
- DeployRecovery assumes a journalling file system (a synced manifest makes the
  renames before it durable). The retry of a snapshot whose source changed while it was
  copied is left out; sysctl values and the log directory go with the enable state; the
  helper's own unit and journald, which it never stops, are not among `Units`.
- RotationReceipts: a host crash ends all connections; one browser with one cookie; sessions
  never end, and a password's generation never changes (PanelSessions has both).
- TemplateEdits: a template's rule that names TUIC, or a group the template does not have,
  is not followed (no step looks at it); a hand edit that falls between a handler's
  revision check and its rename is overwritten, as it takes no lock; rule packs may take a user past
  `USER_CLASH_RULE_MAX_COUNT`, as in the code; other client formats than Clash are left out.
- PanelSessions: expiry of an account and `disabled` are one flag; origin checks, cookies'
  attributes and form parsing are left out.

## 6. Plan

What remains, in the order of its worth:

1. Authentication: KickedForGood from the ages of what is under way, and as much of
   NeverOverAdmitted as the arithmetic of ages allows.
2. BillingCycle: CyclesTile, as a lemma about the arithmetic of blocks.
3. TemplateEdits: NoLostEdit and RetriesHarmless, which do not depend on what rendering
   makes of a template.
4. A model of the HTTPS activation against `AtomicDeploy`.
