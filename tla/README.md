# Linux PAM Lite: TLA+ verification project

Linux PAM Lite hands out time-boxed SSH and sudo access: a user requests access
to a server, somebody approves it, the backend opens an account on the server
over SSH, and a scheduler takes everything away again when the time is over.
This directory holds the models of that program, the TLC runs that check them,
and the TLAPS proofs. Paths below are relative to the repository root; backend
paths leave out `backend/app/`.

## 1. Inventory

| Component | State | Operations | Talks to |
|---|---|---|---|
| Requests and grants (`routes/access_requests.py`, `routes/access_grants.py`, `services.py`) | `access_requests.status`, `access_grants` rows | create, approve, reject, revoke, expire | executor, policy engine, RBAC, gateway |
| Executor (`executor.py`) | on each server: `authorized_keys`, `/etc/sudoers.d/<account>`, `.bashrc` hook, password lock | grant/revoke SSH and sudo, configure and remove hooks, disable | Paramiko, vault (for the admin key) |
| Scheduler (`scheduler.py`) and start-up (`main.py`) | the APScheduler job, process up or down | `tick`: import logs, enforce gateway sessions, rotate secrets, expire grants | everything below |
| Database (`database.py`) | one SQLite file (default `sqlite:///./pam_lite.db`), one writer at a time | session per request, flush, commit, rollback | all handlers |
| RBAC (`rbac.py`, `routes/access_groups.py`) | memberships, role/group/user permissions, group constraints | permission decision, membership and server changes, revocation on loss | grants, sessions |
| Servers (`routes/servers.py`) | `servers.enabled` and inventory data | update, archive | grants |
| SSH gateway (`gateway/`) | connections, sessions, recordings; a separate process over the same file | key validation, session start, input, finish, enforcement | grants, policy, scheduler |
| Web/VNC sessions (`routes/protocol_sessions.py`, `protocol_lifecycle.py`, `providers/`) | session rows, runtimes in memory, browser permits | launch, stream, heartbeat, logout, monitor, terminate | grants, Playwright, VNC target |
| Vault (`vault/`, `routes/secrets.py`, `routes/secret_rotation.py`) | secrets, versions, rotation jobs | create, update, read, rotate, activate, revoke, disable | executor, scheduler |
| MFA (`mfa/`, `routes/mfa.py`, `routes/auth.py`) | challenges, failure counter and lock, recovery codes, step-up sessions | login, verify, generate codes, step up | approvals, secrets, recordings |
| Log import (`session_monitor.py`) | offset per grant and file, sessions, commands | import, finalise, deduplicate | scheduler, revocation |
| Registration and wizard (`server_registration.py`, `wizard_service.py` and their routes) | idempotency keys, drafts, submissions | register, save draft, submit | servers, groups |
| Server templates (`routes/server_templates.py`, `seed.py`) | templates with default and allowed groups, host key policy, fingerprint | create, change, seed at start, use by a registration | registration, groups |
| Policy, risk, alerts (`policy/`) | policies, risk events, alerts | evaluate, record, acknowledge | all decisions |
| Identity (`identity/`) | external ids on user rows | authenticate, synchronise | auth |

What is hard here:

- FastAPI runs synchronous handlers in a thread pool, the scheduler runs in its
  own thread, the gateway in its own process. There is no `SELECT ... FOR
  UPDATE`, no version column, and `autoflush=False` (`database.py:13`). Every
  check is a read without a lock, and SQLite's single write lock is taken by the
  first flush only, so every check can be stale when it is used.
- A handler changes a server over SSH, call by call, before its transaction
  commits. A lost call, a raised exception or a crash rolls the rows back and
  leaves the server as it is.
- Accounts are shared. `sanitize_linux_username` is not injective, and all grants
  of an account share one sudoers file, one hook and one lock.
- A row is loaded once per request and not refreshed; an `UPDATE` writes the columns
  that differ from what was loaded. Two handlers of one row therefore leave a mixture of
  both, and what relates two columns or two tables is at risk.
- `tick()` is one sequence of jobs without isolation, and it also runs inside the
  API's start-up.

## 2. Plan

| # | Module | What it models | Theorems | State |
|---|---|---|---|---|
| 1 | `AccessLedger`, `GrantLifecycle`, `GrantLifecycleProofs` | requests, grants, hosts, lock, tick, crash; what grants promise of a Linux account as an abstract specification | type invariant, five safety invariants, the refinement | done |
| 2 | `GatewaySessions`, `GatewaySessionsProofs` | login check, session start, input, enforcement, finish, recording | type invariant, recording sealed, rows agree | done |
| 3 | `BrowserCustody`, `ProtocolSessions`, `ProtocolSessionsProofs` | web sessions: launch, monitor, permits, runtimes, logout; what becomes of browsers and permits as an abstract specification | type invariant, one owner per context, permits balance, the refinement | done |
| 4 | `LogImport`, `LogImportProofs` | shell logs, offsets, truncation, duplicates, final import, revocation in the middle of an import | type invariant, nothing skipped, final import complete, ended shells have closed rows | done |
| 5 | `Vault`, `VaultProofs` | versions, rotations, activation, the executor's second session | type invariant, one active version, copies agree, revival is seen | done |
| 6 | `Onboarding`, `OnboardingProofs` | registrations and their decisions, manual creation and editing, identity rows and idempotency keys, the wizard's drafts and completions | type invariant and four properties | done |
| 7 | `AccessGroups`, `AccessGroupsProofs` | groups, members, rules, overrides, templates of permissions, accounts, and how grants and requests follow | type invariant and three action properties | done |
| 8 | `ServerTemplates`, `ServerTemplatesProofs` | templates, their two lists of groups, seeding, use by a registration | type invariant, defaults allowed, servers pinned | done |

Two modules of an earlier plan were dropped. MFA handlers read and write back columns of one
user's rows without any lock: what relates two of them (failures counted, a recovery code used
once) does not survive two handlers at once, and the rest would restate assignments. The policy
engine is off by default; its decisions are a free choice in the modules that ask it.

Every module takes its parameters as CONSTANTS with a named ASSUME, has one action
per step between two points where other threads may run, and uses no RECURSIVE
operator, so that it can be proved about. There is one run per module and instance, with all
the properties that instance can decide.

Some modules define an operator marked "Mutant" before the one it would replace: the form a
plausible mistake would give that definition. `PROJECT.json` names for each property the mutant
that breaks it, so that every property is known to be about the code.

How the modules meet: `GrantLifecycle` takes a decision as a free choice, `AccessGroups` says what
it is made of; `LogImport` is the inside of the import that `GrantLifecycle` has as one step;
`Vault` is the inside of an SSH call's authentication; `Onboarding` and `AccessGroups` share
the servers that `ServerTemplates` puts into groups. Each keeps of the others what its
own properties can tell apart.

## 3. GrantLifecycle

### State

| Variable | Code |
|---|---|
| `request`, `grant`, `due`, `member`, `enabled` | committed rows: `AccessRequest.status`; `AccessGrant` (status, request, access mode); grants with `valid_to` in the past; memberships that give access; `Server.enabled` |
| `keys`, `sudo`, `hooks`, `locked` | what `executor.py` leaves on the servers: key lines in `authorized_keys`, the level in `/etc/sudoers.d/<account>`, the hook in `.bashrc`, `usermod -L` |
| `task` | per thread: the handler in progress, what it read, what it has changed on hosts (`dirty`) |
| `writer` | holder of SQLite's write lock |
| `phase` | API process down, in its start-up tick, or up |
| `faults`, `tainted` | bound on disruptions; history of accounts that a rolled-back handler had changed, or on which a host command failed silently |

Rows inside an open transaction live in `task` until the commit moves them to the
database, because no other session can see them before.

### Actions

A handler is cut where another thread can act: after its unlocked reads
(`BeginCreate`, `BeginApprove`, `BeginReject`, `BeginRevoke`, `BeginRevokeUser`,
`BeginArchive`), at its first flush (`OpenGrant`, `LoseMembership`, `TakeUp`),
at each SSH call (`InstallKey`, `InstallSudo`, `InstallHooks`, `RemoveKey`,
`RemoveSudo`, `RemoveHooks`, `DisableUser`; `LeaveLocked` and `LeaveUnhooked` are calls that
return although a command of their script failed), and at its commit (`Submit`,
`CommitOpen`, `CommitReject`, `CommitClose`, `CommitArchive`). The scheduler's tick
is `StartTick`, `ImportLogs`, `SelectDue`, then the same closing steps as a
revocation. `Refuse` is a step that is certain to raise, `LoseCall` an SSH call
that fails, `GiveUp` a 4xx answer or SQLite's busy timeout, `Crash` and `Restart`
the process. All four ends of a failed handler are `Rollback`: the rows are as before, the
hosts are not.

Facts of the code that shape the model:

- `approve_request` accepts an already approved request (line 162), and the UPDATE
  of the status is emitted only if the value read differs (`CommitOpen`).
- `revoke_grant` checks the status of the object it loaded, before the lock, so a
  second revocation of a closed grant runs in full (`TakeUp` has no status guard).
- The other grants of an account are counted by name on every server (`SameName`).
- `grep -vxF` exits 1 when it prints nothing, and `&&` then skips the `mv`
  (`SoleLine`, `RemoveKey`).
- `_run` refuses a disabled server, for revocations too, and asks the `Server` object that the handler has loaded, which
  may be older than the lock (`LoadedAs`): a handler may work on a server that was disabled meanwhile, or refuse one that was
  enabled. All calls of a handler ask the same object, so the refusal is decided at its first call (`Refused`) and the later ones have none.
- `usermod -U ... || true` (executor.py:177) and the hook script, which has no `set -e` (239-252), exit 0 when a command fails: the
  account stays locked (`LeaveLocked`) or loses its hook (`LeaveUnhooked`) and the handler commits. Such accounts are in
  `tainted`, as those of a rollback are. `RemoveHooks` may leave the hook in the same way, which no property minds.

Abstractions: policy and risk are a free choice (deny, ask, grant; direct or
gateway); a membership is access or no access; a key is its user; final log import
needs the server enabled and has no other effect (what it does is `LogImport`); approver identity, MFA and
auditing have no state here except that an audit row is a flush.

### The abstract specification

`AccessLedger` says what grants promise of the Linux accounts they open, without handlers, calls, locks or
clocks. It has a ledger of the active direct grants, for each account what its host lets users do, and for each account
whether it is settled, in the hands of a transaction, or lost. `Work` changes one account's host and takes it in hand, or loses it when a command failed without a sign; `Commit`
ends the transaction: entries are made and struck only for accounts in hand, and each of these must then show what the
ledger has for it (`Shows`: no key and no sudo level without an entry, monitoring while there is one). `Fail`
leaves the ledger as it was and the accounts lost. Lost accounts say exactly what the code gives up when a handler raises or a script hides a failure.

`ImplementsLedger` is the refinement: `ledger` is the set of active direct grants (`Book`), `access` what an administrator
sees on the host (`Seen`), and an account is lost when it is `tainted`, held when some thread has it in `dirty`
(`Custody`). Reads, waiting, gateway grants, decisions, servers and memberships stutter. It says more than the
invariants together: that no handler changes the host of an account outside a transaction, that what a commit opens or closes are
grants whose accounts it has worked on (a grant on a disabled server, for one, is not closed in the database alone: the
mutant does that), and that the accounts of one handler settle or are lost together.

### Runs

Two users whose names map to one account, sudo levels that differ, one
server, two grants. Two grants are the smallest number with an "other" grant,
and no guard tells three from two; two API threads plus the scheduler is the
smallest set with every pair of handlers; `MaxFaults = 1` puts one lost call, silent failure or crash at
every point.

| Run | Instance | Shows |
|---|---|---|
| `GrantRaces` | 2 API threads, 2 users, no faults, no membership is lost, 2.3 million states | `SudoNeedsGrant`, `GrantNeedsApproval` hold under all interleavings |
| `GrantFaults` | 1 API thread, 1 fault, server may be disabled, a file may have one key line only, 1.07 million states | `TypeOK`, `KeyNeedsGrant`, `ActiveIsMonitored`, `HostChangesAreLocked`, `ImplementsLedger` hold; accounts left in `tainted` are the price |
| `GrantLive` | 1 API thread, 1 fault, every file has a foreign key line, no server is disabled | `DueGrantsEnd`, `ApiComesBack` |
| `LastKey` | 1 API thread, fair | a due grant never ends because its key is the last line |

Deadlock is checked in every run: with `StartTick` and `Restart` the system always
has a next step. `LastKey` is a disagreement between documentation and code, quoted in
`PROJECT.json` under `findings`. The other reads
that can be stale when they are used (the membership at approval, the active grants when
a server is archived) are separate steps of the model too; they are listed under `hazards`.

The condition of `GrantLive` is exactly what `LastKey` drops: `GrantLive` is
about behaviours where nothing but a transient fault stands in the way of expiry.
A second condition, that no server is disabled, is needed as well: section 11 says why.

### Fairness

`FairSpec` assumes weak fairness of: each thread's next step or refusal (the operating
system schedules threads, an SSH call returns or times out), the scheduler's own
steps (APScheduler fires every `scheduler_interval_seconds`), and `Restart`
(`Restart=on-failure` in the unit that `install.sh` writes). No request, decision,
revocation or repair by a person is assumed to happen.

## 4. GatewaySessions

### State

| Variable | Code |
|---|---|
| `grant`, `late`, `enabled` | `access_grants.status`; grants with `valid_to` in the past; servers enabled for the gateway |
| `login` | `context.grant_id` of an SSH connection, set by `validate_public_key` |
| `chan` | the open channel of a session and the client behind it |
| `row` | one session: `gateway_connections` (status, reason), `sessions` (status, reason), `gateway_recordings` (size at which the checksum was taken) |
| `lines` | lines in the session's JSONL file |
| `idle`, `long` | sessions past `idle_timeout_seconds` and `max_session_seconds` |
| `task` | per thread: the ends it has planned and will write at its commit |
| `faults` | bound on crashes and lock timeouts |

### Actions

The gateway is a process of its own. Its callbacks are synchronous inside one event
loop, so one runs until it returns (`LoopFree`), but the API and the scheduler
commit at any point in between. A connection is ended by six paths: `ChannelLost`
(the client leaves), `BeginRevoke`, `TerminateConnection`, `BeginTerminate` with
`QueryConnections` (one session, or all of a user), `Enforce` and `ExpireDue` (the tick),
`InputRevokes` (a critical command with automatic revocation). They have the same shape:
read the connection as active, take the checksum of the file as it is, and write
at `Commit` whatever the rows are by then. `finish_gateway_connection`'s guard is
on the loaded object, so the last commit wins. `LoseMembership` is different: it ends the session
rows with a bulk update and leaves connections alone. Nothing but the
client closes a channel, so `Input` needs an open channel and no status.

A session starts in a task that `shell_requested` creates (`gateway/server.py:90`), not in the callback. If the channel is
lost before the task has run, `connection_lost` finds no connection and returns (145), and the task starts a
session that has no client from its first moment. `StartSession` therefore chooses whether the client is still there.

`LoseMembership` and `InputRevokes` are single steps because each flushes before
it reads what it ends, and holds the write lock from then to its commit. The other paths
read first.

Abstractions: username and key matching, MFA and the policy decision are a
free choice of client and grant; a grant is looked up by id where the code takes
the earliest of several; a recording is its number of lines and its checksum the
number it was taken at; recording is switched on; sessions created as a mock with
a grant, events and audit rows are left out.

### Run

`GatewaySessions`: 1 API thread, the scheduler and the gateway, 1 session, 1 fault, automatic
revocation, membership may be lost, 365 000 states, under `FairSpec`.

`SealIsExact` speaks of recordings ended by the client only. In the others a client may
write more lines after the checksum. It holds although commits overwrite each
other, because `connection_lost` runs in the same loop as `data_received`: nothing is
appended between the last checksum and the end of the channel. The mutant lets the loop
serve the channel until the rows are committed, and the property fails.

`RowsAgree`: session rows and connection rows part only after a removed membership.
`StraySessionsEnd`: a session that started on a grant which had ended since the key check is
ended by a tick. `OrphansEnd`: so is one without a client, which a gateway that died left behind, or a `connection_lost` whose
commit timed out, or a client that was gone before its session started.

Bounds: paths meet on one row only, so one session shows every order of their reads and commits;
what a second one would add are handlers that end several, and the theorems cover any
number. `MaxLines = 1` tells "sealed before" from "sealed after" a line. A handler, the
tick and the gateway are every pair of different paths. `Ageing` says which sessions
may grow old.

Two more things show in the model and have no run: the number of active sessions is counted
at login only, so several channels of one login exceed the group's limit; and the tick
writes `grant_expired` for a session whose grant was revoked.

### Fairness

`FairSpec` assumes weak fairness of the tick (APScheduler), of the gateway's commit
and of each handler's next step, and that time passes for a session whose client
is gone. Nothing is assumed of clients and administrators. Both timeouts are taken as
positive, as their defaults are (900 s in `config.py` for idle time); at zero the code never ends an orphan by age.
The tick is taken to reach `enforce_gateway_sessions`: an exception in a job before it keeps it from
that (section 11), and what holds here holds only while that is ruled out.

## 5. ProtocolSessions

A web session is a browser context on the server. Launches, the lifecycle monitor and an
administrator's termination are coroutines of one event loop, each with its own transaction;
logout and bulk termination are handlers in threads.

### State

| Variable | Code |
|---|---|
| `row` | committed `sessions.status` |
| `launch` | how far `launch_session` is: configuration being checked, waiting for a permit, permit taken, context open, over |
| `testing` | connection tests of the access wizard that hold a permit |
| `due` | sessions whose grant, token, idle or absolute time is over |
| `runtimes`, `permits`, `healthy` | `web_provider.runtimes`, the value of its semaphore, `healthy()` |
| `browser` | contexts open in Chromium, of sessions and tests |
| `task` | per terminator: rows loaded, the session whose context it is closing, rows sealed and not committed |
| `writer` | holder of SQLite's write lock |
| `lost`, `leaked`, `doubled` | history: contexts an exception left open, permits it did not return or will return twice |

### Actions

A coroutine runs from one await to the next, so an action of one requires that no
terminator is between awaits (`LoopFree`); threads may commit at any point. A launch is
`Insert` (row flushed, lock taken), `Check`, `Acquire`, `Open`, `Register`, with one failure for each
part of the code that fails differently: before the `try` (`PrepareFails`), before the runtime
exists (`OpenFails`), after it (`PageFails`), and when the last event cannot be
written (`RegisterFails`). `TestStarts` and `TestEnds` are the wizard's connection test and its discovery of a
login page, which take a permit of the same pool. `Navigate` is any callback of the page: it commits the launch's
own transaction. A pass of the monitor is `BeginPass`, then for each row `Keep`, `Seal` (no
runtime) or `Pop` followed by `Close` or `CloseRaises`, then `Commit`; a raised exception is
`Abort`, which rolls back all of the pass. A termination by an administrator is the same with one row.
`Logout` leaves a row to the monitor, `EndRowOnly` (bulk termination, a lost membership) ends
it and nothing else.

Facts of the code that shape the model:

- The runtime is popped before the first await of `terminate_session` (web.py 298), which
  alone keeps two terminations from closing one context; `PopLate` is the code without it.
- The `finally` at web.py 317 returns the permit whether or not the lock can be had.
- `launch` flushes its row before it awaits the semaphore, so it waits with the write lock.
- `mkdir` is between `acquire` and `try` (113-117): a failure keeps the permit (`leaked`).
- A failing `add_event` (203) releases the permit of a runtime that stays registered
  (`doubled`): the permit is returned again when it is terminated.
- The `except` of `launch_session` (206-209), the `finally` of the wizard's tests
  (wizard_service.py 222, 240) and the `except` of `_guarded_web_context` (189-190) close the context *before* they
  release: a `close()` that raises, as it does when the browser has died, keeps the permit
  (`leaked`). In a failed register it keeps the runtime's permit where it belongs, by luck.
- `PermitsBalance` counts what `leaked` and `doubled` hold, so it says that no other step misplaces a permit.

Abstractions: VNC (a socket, no pool) is left out, as are the stream's input and downloads,
and event numbers; `test_connection` of the provider (80-105) has no caller; a test that gets no context
returns its permit and is no step, and what a test reads of the vault, with the lock, is an `OtherTakes`; rows
are inserted in the order of their ids, as SQLite numbers them; terminated and failed rows are both `ended`; the ways for time to run out are
one set, of which only live rows are members, because nothing else is looked up in it, and a heartbeat that puts off the idle timeout is not a step (it only delays);
closing a context and writing its event are one step; a stop of the API is a crash.

### The abstract specification

`BrowserCustody` says what the provider promises of its browsers, without rows, locks, pages or an
event loop: for each context (of a session or a test) a set of owners, and a number of free permits. A launch takes a
permit (`Take`), hands context and permit to the registry (`HandOver`) or gives them
back (`GiveBack`); one terminator claims them from the registry (`Claim`) and returns the permit once (`Return`);
a restart empties everything (`Crash`). A test is a launch that never hands over. The two ways in which the code misplaces a permit
are actions of their own (`Leak`, `HandOverTwice`), so that there can be no third.

`ImplementsCustody` is the refinement: `owners` of a session is the set of those who hold it in
`ProtocolSessions`, of the launch, the registry of runtimes and the terminators (`Owners`), and `free` is
the semaphore. The owners are a set so that a state with two owners has an image, and the
abstract actions, which only pass a session from one hand to another, refuse it. Row writes,
the lock, page events, time and the passes of the monitor that find nothing stutter.
`RolesAreNoTerminators` keeps the names of launch and registry apart from the terminators'.

### Runs

| Run | Instance | Shows |
|---|---|---|
| `ProtocolSessions` | 2 sessions, 1 connection test, 1 permit, monitor and 1 administrator, 1 fault, 84 000 states, fair | `TypeOK`, `ContextHasOneOwner`, `PermitsBalance`, `ImplementsCustody`, `SessionsEnd` |
| `EarlySeal` | 1 session, no fault | a row is sealed while its browser is open |

Two sessions and one permit make one launch wait while the other is ended; one
administrator and the monitor are every pair of terminators; one fault puts a crash, a dead browser, a busy
database or a failure at every point. The theorems cover any number of each.

`SessionsEnd` says that every live row is ended, *or* that from some time on a launch holds the
write lock and waits for a permit (`<>[]PoolStarves`). The code does starve in that way, in this instance after a
leak, and in a larger one without any fault (checked once with three sessions, no fault):

- the permit was leaked, or belongs to a session whose row was ended alone (bulk termination, a lost
  membership), which keeps it until the API restarts;
- or every pass of the monitor, which cannot write while the launch has the lock, aborts at a row it can only
  seal before it gets to the session whose permit is waited for.

In each of them no row is ended until the API restarts. Short of that, no order of logout,
expiry, dead browser, aborted pass and crash keeps a row alive.

### Fairness

`FairSpec` assumes strong fairness of the launches, of the ends of tests, of the start of a pass and of each terminator. The
event loop's ready queue is first in, first out, so a coroutine that is ready again and again does
run; it is not always *continuously* ready, because others hold the loop or the lock for
a while, and weak fairness would promise nothing then. It assumes weak fairness of `RunOut` (a
web profile has an absolute timeout of 1 to 1440 minutes) and of `OtherReleases` (a
writer elsewhere ends its transaction). It is not assumed that anyone logs out or terminates anything.

## 6. LogImport

The hook that a grant installs makes every shell of the account append to two files on the
host. The tick, "Import logs" and the final import of a revocation copy the new part of both
into `sessions` and `session_commands`.

### State and actions

| Variable | Code |
|---|---|
| `log` | per account the two files: every line ever written, and how many a truncation has cut off |
| `shell`, `keyed` | shells; grants whose key is on the host |
| `base`, `db`, `lock` | the committed tables, the tables as the holder of the write lock sees them, and the holder |
| `task` | per thread: what it fetched, the entries left, the offsets it will write, the imports it has interrupted |
| `reach` (in `task`) | history: how many lines the command file had when the import fetched it |
| `gapped` | history: grants some of whose lines no import could have read |

An import is `FetchCommands`, `FetchSessions` (one SSH command each), `ReadOffsets` or
`InsertOffsets`, then for each entry `Look` and `WriteEvent` or `WriteCommand`, then
`FinishImport`. A critical command revokes the grant in the middle of its own import
(`AfterCommand`): the nested import and `Remove` run first, then the rest of the outer one. `CommandTaken` is the
handler of an `IntegrityError`, which rolls back everything the import has flushed and goes on; a command whose shell has
a row in `sessions_by_token` is looked for in that row, without a new query, also after such a rollback (`SessionsOf`). `LaunchEnds` is the launch of a
web session writing the end of its row, which an import may have adopted since. `Fault`, `RemoveFails` and
`Crash` end a handler with a rollback.

Facts of the code that shape the model: the offset is a length only (`last_hash` is stored and never
compared), so a file that was truncated and has grown past it again is read from the
middle; what is lost that way is in `gapped`. An import adopts the grant's first row when it has
no marker yet, which a web session's row has not. The file is fetched before the
offset is read. A nested import reads the offset that the outer one has advanced: offset objects are locals of `_new_content`, so
nothing keeps one in SQLAlchemy's weak identity map, and with `autoflush=False` it is the flush in `_insert_command`, before any nested import, that makes the
outer one's value readable; a rollback expires whatever is left. What the session sees (`View`) is therefore the offset it reads.

### Run

`LogImports`: 1 grant with a web session's row, 1 shell, 3 commands of which the third is
critical, a request thread and the scheduler, 1 truncation or fault, 5.1 million states. One grant
and one shell are enough for two imports of the same lines, which is where they meet; three commands tell
before, at and after a line. The policy engine is off, as by default: with it on, a risky line raises (section 11).

- `NothingSkipped`: what a committed offset has passed is in the tables, whatever imports ran
  side by side, failed or were rolled back half way.
- `ClosingSawEverything`: a revocation removes access only when every command its final import
  fetched is in its transaction or, for a revocation inside another import, among the entries that one has still to write. It speaks of
  what was fetched (`reach`), not of the row's offset: after a rollback that is an older one again.
- `FinishedIsClosed`: a shell whose end was imported has a closed row.

Left out: timestamps, parsing, masking of secrets, the mock executor's lines. Liveness of imports is
not claimed: one grant whose import raises stops the tick.

## 7. Vault

### State and actions

`secret` is the secret's row (status, version number, whose value it holds, whether its rotation
is due), `version` the rows of `secret_versions`, `bound` the server's `ssh_auth_secret_id`. A value is named by the
version it was written for. A handler loads rows without a lock (`StartUpdate`, `StartStatus`,
`StartActivate`, `StartRevokeVersion`, `StartRotate`, `StartRotateServer`, `StartRunDue`, `Tick`; `ListVersions` is the second
query of some, and `LoadVersion` the first of an activation, whose version keeps the status it had then when the list finds it changed) and writes and commits in one step under the lock (`Apply...`). `Merge` is an `UPDATE` with the
columns that differ from what was loaded. `Flush`, `Connect`, `GetSecretValue`, `LockTimeout` and
`Disconnect` are an SSH caller, which may hold the write lock while `_resolve_auth` opens a second session that needs it.

### Run

`VaultRaces`: an encrypted secret (the server's key) and a file reference, 1 administrator, the
scheduler, 1 SSH caller, 3 requests, 1 due rotation, 1 fault, 250 000 states, fair.

- `OneActiveVersion`, `ServedIsCurrent`: a secret has one active version at most, and a reader is given the value
  the secret's own row holds, although an activation sets the number the next rotation adds one to
  back. The history variable `raced` excuses secrets that an update or an activation changed on rows which
  had changed since it read them: these two have no lock and no second look, and two active versions are the result.
- `NoQuietRevival`: a disabled, revoked or failed secret is served again only by somebody who saw it so.
- `DueAreRotated`: a due secret is rotated or stops being active.
- `LockComesBack`: the caller that waits for itself gets out by SQLite's busy timeout.

`process_secret_rotations` also takes jobs in status `pending` (`scheduler.py:95`); the one place that makes a job row makes it
`running` (`vault/rotation.py:24`), so that loop finds nothing and is left out.

Fairness: the tick comes round (APScheduler), a request that has begun goes on, an SSH call ends or times out.
Deadlock is not checked because requests are bounded and the system may stop.

## 8. Onboarding

### State and actions

A place is a hostname with its address and port. `server`, `identity` (unique identities of registered
places), `replay` (idempotency keys), `submitted`, `draft`, `safes` (names of access profiles), `member` are the
tables. Threads run registrations, decisions and the servers' own routes: load (`Start...`), then
write and commit (`Register`, `CreateServer`, `Change`). The wizard's completion is a coroutine: `Complete` loads the draft,
`ReadSecret` may take the write lock before the connection test is awaited, `TestPasses` or `TestFails` ends the await,
`Apply` is its transaction. `loop` is the coroutine that keeps the event loop, because its flush waits for the lock in the
loop's own thread; `LoopTimeout` is that wait given up.

### Run

`Onboardings`: 3 places, 1 key, 2 threads, 2 completions of one draft, rate limit 1, 4 requests, 1
lock timeout, 780 000 states, fair.

- `RegistrationKeepsItsPlace`: of two registrations of a place, and of a request and its retry, one becomes a server;
  it holds its place and answers its key whatever is edited later.
- `RateLimitSlack`: the registrations are counted before the connection test, so the limit may be passed, but by
  no more than the requests that run at the same time.
- `CreatedWasTested`: the wizard creates what it has tested though the draft is edited or deleted meanwhile.
- `SubmissionIsOneResource`: a completion sent again creates no second resource.
- `CompletionsEnd`: every completion ends, though one may hold the lock over the await of its test while another
  keeps the loop waiting for that lock. The busy timeout is what ends it.

Fairness: a coroutine runs when it can; nothing is assumed of the threads. The outcome of a connection test, the
permission to register and whether a registration needs approval are free choices. Approval and rejection of
one registration both act on a loaded row; a rejected server that stays enabled is a behaviour of the model, and
no property says otherwise. A manual server may take the name of a place whose registration is under way, since only registrations
have identities.

## 9. AccessGroups

### State and actions

`rbac` holds the tables a decision is read from: accounts (administrator, active), groups, memberships,
servers of a group, rules of a group, overrides of a member, and the one template of permissions that is not built in (`update_template` takes any
code of the catalogue, under its name or an alias, `rbac.py:42-52`, so a template may allow and deny one permission; the lists of a group and of a
user are refused then);
`legacy` is `servers.server_group_id`. `HasOn` is `has_permission` for a server: the union of what the user's
groups allow through role, template, rules and overrides, without anything that any of them denies; `Authorized` is what
`_revoke_lost_server_access` asks of a grant, and `DurationAllowed` the intersection of durations. A handler loads without a lock (its `Start...`) and flushes, revokes and commits under the lock
(one action). The objects it loaded are not refreshed by its later queries, the accounts of the caller and of the user it names
among them (`held`), so the decisions that follow its flush
see a mixture (`SeenAccounts`, `SeenGroup`, `SeenRow`), and its `UPDATE` writes changed columns only (`Merge`). `Restart` is
`seed_access_control`, which runs at every start. `StartWizard`, `AssignUsers` and `NewProfile` are the access wizard's completion as far as it
makes groups and memberships: the group of a new profile has the durations of the draft, which nobody validates and which may be none.
`TimePasses` ends memberships.

Assumed: `PAM_GROUP_SCOPED_ACCESS` is on; the legacy tables `access_groups*`, which only an upgrade fills, are empty.
Left out: `valid_from` in the future, allowed access types and hours, reasons; several servers in one
`_change_servers` call; the wizard's second group, of resources (`wizard_service.py:319-324`), and its mode that asks for access (294); creating users, rejecting and expiring requests, which relate nothing to groups.

### Run

`AccessGroups`: 2 users, 1 server, 2 threads, up to 3 groups, 2 requests (a restart is one), 1 fault, from every choice of
members, scope and allow rules of two groups and at most one request or grant of a member, 2.2 million states. A second group
is what makes "lost here, still covered there" possible; two requests are a change and whatever races with it.
Starting from every small configuration stands for the longer sequences of requests that lead to it.

- `LossIsRevoked`: when a change of a membership, a group's rules or a user's overrides commits, or one that takes a server out of
  a group or switches a group off, no grant stays active whose user it took a permission from; a removed member keeps none on the servers of
  the group that can no longer be connected to.
- `RevokedWasLost`: it revokes no grant that another group still covers.
- `CancelledWithScope`: it leaves no request pending whose user may no longer ask.

The three speak of the handlers that call `_revoke_lost_server_access` (and of `remove_user`) whose loaded rows are still what the
database holds (`Fresh`), and of users whose account is as the handler loaded it, if it did (`Known`): the target of a membership change who is
demoted or activated between the load and the flush is judged by the old account, keeps a grant without permission or loses one that
is covered, and keeps a request. They do not speak of what revokes nothing in the code: a user's role or status, an edited
template, a group switched on whose rules deny something (`routes/access_groups.py:203` looks at grants in the other direction
only; the proof of `LossIsRevoked` does not go through without saying so), `copy_settings`, the list of groups in `update_server`, the end of a membership, a restart, a group that was seen empty and is deleted; nor of an approval that read its permissions
before the change. Each of these leaves an active grant without permission in the model, and none of them
contradicts a promise of the documentation.

## 10. ServerTemplates

### State and actions

A template is a row (`template`: host key policy, fingerprint) and two lists of groups in tables of their own (`defaults`,
`allowed`). `CreateTemplate` writes all three. A PATCH is `StartUpdate` (the row), `ReadDefaults`, `ReadAllowed` (with the
validation) and `UpdateTemplate`, which merges the row's columns and rewrites both lists. A registration reads the row, the
default groups and the allowed groups in three steps without a lock (`StartRegister`, `ReadTargets`, `CheckScope`) and then inserts
the server. `ToggleGroup` is a group switched on or off, `Restart` the seed that puts the built-in templates' group back into both lists.

### Run

`Templates`: 2 templates of which one is seeded, 1 group, 2 threads, 3 requests, 1 restart, 2.3 million states. Three
requests are two PATCHes and a registration.

- `DefaultsAreAllowed`: no interleaving leaves a default group that is not allowed. It holds because both lists are rewritten
  together under the lock, whichever of them the request names; the mutant writes the named one only.
- `ManualServersArePinned`: no server registered through `/servers` has the manual host key policy without a fingerprint. The access wizard
  makes servers too, with the policy and the fingerprint of its draft (`wizard_service.py:308`), which nothing validates; it uses no template and is not
  in this module.

The second holds because the registration looks again. The template itself may lose the property: one PATCH makes the
policy manual while another clears the fingerprint, each validates its own copy, and the `UPDATE`s meet in different
columns. The output model validates what it reads (`schemas.py:277`), so the list of templates is then an error until the row is repaired.

Left out: names, the enabled flag (it refuses as a missing permission does), whether approval is needed (a free choice in
`Onboarding`), duplicates (`Onboarding`), columns nothing else relates to. Deleting an empty group leaves its rows in the
lists, and SQLite gives its id again; groups are not deleted here.

## 11. Documentation and code

Two disagreements are runs that TLC finds violated: `LastKey` (README.md:192) and `EarlySeal`
(docs/MULTI_PROTOCOL_ARCHITECTURE.md:44). Others were met while modelling and have no run of their own:

- A rejected request may have an active grant: `reject_request` checks the status it loaded
  (`routes/access_requests.py:192`), and the commit of an approval may come between (README.md:172).
- The tick imports logs first (`scheduler.py:46`, `:109`), `_run` refuses a disabled server (`executor.py:127`), and
  the exception ends the tick: one active grant on a disabled server keeps every due grant open (README.md:176).
- A gateway session starts on a grant that was authorised at the key check and has been revoked since
  (`gateway/server.py:96`, README.md:329).
- `record_risk_event` passes `rule_id` to `RiskEvent`, which has no such column (`policy/engine.py:198`): with the risk engine on,
  a command above the threshold is a `TypeError` and no event is stored (README.md:480).
- A failed rotation marks the secret `rotation_failed` (`vault/rotation.py:53`), and such a secret is not served; README.md:405 says
  that the old one stays active.
- Durations of several groups are intersected (`rbac.py:260`); an empty intersection restricts nothing, though README.md:633
  says that constraints are combined most restrictively.
- The compatibility group is made at any start that finds users and servers and no membership (`rbac.py:329`), not on
  old installations only, and takes in every account there is by then (docs/RBAC.md:86).
- A server is archived after its active grants were counted without a lock (`routes/servers.py:129`, docs/RBAC.md:74).

## 12. Proofs

`GrantLifecycleProofs` proves, for any number of threads, users, servers, grants
and faults, from `Parameters` alone: `TypeCorrect`, `HostChangesLocked`,
`KeysFollowGrants`, `SudoFollowsGrants`, `ActiveGrantsMonitored`,
`GrantsAreApproved`, `LedgerImplemented`.

None of the safety properties is inductive: they relate hosts to committed rows,
and while a handler runs, the two disagree on purpose. The inductive invariant
`IInv` adds, for each handler in progress, what it knows:

- `HoldsLock`: a thread past its first flush is the writer;
- `Opens`: the grant it opens is still an unused row, under the next id;
- `Closes`, `NoKey`, `NoSudo`, `LastOne`: the grants it has closed are out of the
  lists, their keys and sudoers files are gone, and nobody else uses the account
  when hooks and lock are changed;
- `OpensHooked`: at its commit the account it opened has its hook;
- `KeyHasOwner`, `SudoHasOwner`, `ActiveIsHooked`: the three host properties with the
  writer's uncommitted grant counted in;
- `DecisionInv`, `RowsExist`: what the threads' stale reads of a request still imply, and
  that used ids are a prefix.

The key lemma is `LockProtects`: grants and hosts change only in steps of the
thread that holds the lock, or in a crash, so every other thread's knowledge survives.
Each action then has one lemma per conjunct it can disturb. TLC checked `IInv` on
the passing instances before it was proved.

`LedgerImplemented` proves `Spec => ImplementsLedger`. By `KindsOfStep` a thread's step is a call, one of the two
commits, a rollback or of no effect on hosts, rows and `dirty`; each kind has a lemma with the transition of
`AccessLedger` it maps to. `HolderHas` is why a transaction of `AccessLedger` is one thread's: whatever is held, the lock's holder
holds. A call changes what is seen of its own account only (`CallSeen`: two accounts differ in server or name, and a key
line belongs to the account its user's name maps to). At a commit the accounts in hand become settled, and the three host
invariants in the next state are what `Shows` asks of them (`SettledShows`); the accounts not in hand keep their entries, because
`Opens` and `NoKey` put the account of every direct grant that is opened or closed in `dirty` (`EntriesKept`).

`GatewaySessionsProofs` proves, from `GatewayParameters` alone, `GatewayTypeCorrect`,
`SealsAreExact` and `RowsAlwaysAgree`. A commit writes what was planned steps ago, so
the invariant has to say what a plan still implies while anything else happens:

- `PlansHold` (`SealPlan`, `RowPlan`): a client's reason is planned by the gateway alone,
  over all lines of a closed channel; a plan that ends a session row only is for a
  connection that has ended and stays ended;
- `SealedForGood`: a connection ended by its client has no channel any more, so its file
  cannot grow;
- `RowsAgree` itself.

One lemma per action shows that it keeps the three parts. The commit is the only action
that uses `PlansHold`; every other one has to preserve it, which is easy for actions
that only close or end things and is the point of the proof for `StartSession` and `Input`.

`ProtocolSessionsProofs` proves, from `ProtocolParameters` alone, `ProtocolTypeCorrect`,
`ContextsOwned` and `PermitsBalanced`. `ContextHasOneOwner` needs one more fact to be inductive,
that a terminator which is not running closes nothing (`IdleClosesNothing`), or a new pass would
drop what it holds. `PermitsBalance` counts, so it needs `ContextHasOneOwner`: a
session leaves `Holders` only if nobody else holds it, and `AstrayIsOver` keeps a permit from being
counted as misplaced twice. The arithmetic is in five lemmas (`Kept`, `Took`, `Gave`,
`Leaked`, `Doubled`), one for each way a step can change the balance; every action is shown to
be one of the five or the restart, which sets everything to its start.

`CustodyImplemented` proves `Spec => ImplementsCustody` from `ProtocolParameters` and `RolesAreNoTerminators`. With
`ContextHasOneOwner` every set of owners has one element at most, so each action of a launch or of a terminator is the abstract action
of the same hand (a connection test is a launch that gives back what it took), and all others leave `Owners` and the semaphore
alone; one lemma per action says which. It is the invariant that makes the mapping work: `Claim` needs the registry to be the only owner, and the terminator to hold nothing else.

`ServerTemplatesProofs` proves, from `TemplatesAssumption` and `NoneIsNoRow`, `TemplatesTypeCorrect`, `DefaultsStayAllowed`
and `ServersStayPinned`. The lists a handler will write were read steps ago, so the invariant keeps, for each handler, that its own two
lists are one within the other once it is about to write them, and that a registration about to insert has a fingerprint
where its copy of the row needs one (`Validated`). What other handlers do meanwhile does not matter, because nothing of the lists in the
database survives the write: that is the content of the proof, and it would fail for a handler that writes one list only.

`VaultProofs` proves, from `VaultAssumption` alone, `VaultTypes` (which no run repeats), `AtMostOneActive`, `CopiesAgree` and `RevivalIsSeen`. A handler writes
what it computed from rows it loaded before the last flush of somebody else, so neither property is inductive. `IInv` adds for each
secret that its row and its versions agree (`RowsAgree`), for each handler what stays true of its copies however the rows have moved
since (`Sound`: the version ids exist, the secret is still there, the id of the next version is above every value the copy
may hold, so that the `UPDATE` of a rotation always reaches the row), `BoundExists` (the server's secret is never a free row)
and `SchedulerRotates`. One lemma per action; the writing ones go through `Merge`, whose case split (column differs from what was loaded or not) is
where `raced` is needed. `RevivalIsSeen` is an action property that follows from the invariant step by step.

`OnboardingProofs` proves, from `OnboardingAssumption` alone, `OnboardingTypes`, `PlacesAreKept`, `LimitPlusThreads`,
`OneResourcePerSubmission` and `TestedBeforeCreated`. The assumption that there is a thread and that they are finitely many is the
thread pool: the slack of the rate limit is a number of threads. The invariant has the rows (`Tables`), the handlers
(`Handlers`: an edit carries the source and the key of the row it loaded), the completions (`Completions`: what is about to be applied was
tested on its own copy of the draft), the submissions (`Origins`: a server the wizard made names a submission that is stored) and the
registrations under way, each of which was counted below the limit (`Counted`). The last is a count of two sets that trade members, and
rests on the library's theorems about cardinality.

`AccessGroupsProofs` proves, from `AccessGroupsAssumption` and `PayloadAssumption` (what the schemas and `update_template` admit: no row without its columns,
no list of a group or a user that allows and denies one permission; templates may), `AccessGroupsTypes`, `LossesAreRevoked`, `OnlyLossesAreRevoked` and
`LostRequestsAreCancelled`. The invariant is little more than types (`Handlers`: what a handler loaded has the type its write asks for, the accounts it holds among them). The
properties are about one commit and the two worlds before and after it, and rest on a frame lemma, `SameDecision`: a decision about a user on a
server depends on the account, on the groups through which the user reaches the server, and on the template and the rules those point
at (`Alike`), so that a handler which looks again at a few users and servers looks at enough. `SyncIsSound` says that of the
revocation itself, and `WhoCommits` that a step in which one of these handlers commits is that handler's action.

`LogImportProofs` proves, from `LogAssumption` alone, `LogImportTypes`, `NoLineIsSkipped`, `FinalImportSawEverything` and
`EndedShellsAreClosed`. An import works
with files it fetched and tables it read while others commit, so the offset it is going to write is no statement about the tables any
more. `IInv` says what it is: whatever the mark passes is imported in the tables the handler sees, or an entry it has left itself, or one that is left
to an import it interrupted (`Marks`, `Pending`), unless the grant is in `gapped`. To this come that the row it found belongs to its
grant (`Finds`), that its files are the host's files of an earlier time (`Older`), that what has been cut from a file was imported
before (`CutIsImported`), the same for the tables under the lock (`PassedIsImported`), and that an open transaction loses nothing that is committed (`Kept`).
`NothingSkipped` alone is not inductive, since a transaction commits offsets that it wrote while entries were left; `ClosingSawEverything`
needs the same of what was fetched: every command up to `reach` is imported, or among the entries left (`Marks`). `OthersKeep` is the frame lemma: who does not hold the
lock sees committed tables only, and those only grow. `Least` (a set of numbers has a least one, from the well-foundedness of `<`) is what the
choices of the first row, the first free row and the next entry rest on.

`EndedShellsAreClosed` (`Spec => []FinishedIsClosed`) needs a second strengthening, `Closing`, on top of `IInv`: an import that passes the
end of a shell must know the row which that shell's start made, although other imports make rows too and the row that a web session got
at its launch takes its marker from whichever import comes first. `Tidy` says that at most one row of a grant has no marker, that it is then its
only row, and that the marker of the first row of a launched grant is the first shell of the file; `InOrder` that rows fill up in order, so
that a new row never becomes the first; `Grown` that committed rows keep marker and end in every open transaction; `Knows` and `Chosen` what a
handler in progress may rely on (the marker it is about to give, the row it found, every end that its mark passes); `EndsPassed` is the
property with the entries still to be written set aside, as `PassedIsImported` is for commands. `OthersKnow` is the frame lemma here. That the
hook reports a shell before its commands and that nothing cuts the file of events (`Reports`) is used for the adoption of the first row.

Only model-checked: the liveness properties (fairness and ENABLED are out of the prover's reach) and the findings, which are
counterexamples on small instances. Every safety invariant and action property that a passing run checks is a theorem.

## 13. Not modelled

- MFA (`mfa/`, `routes/mfa.py`, `routes/auth.py`) and the policy engine (`policy/`): section 2 says why.
- Identity providers: calls to external directories, with no state beyond the user row.
- Read-only views, exports, the audit log, schemas: no state a property is about. An audit row matters as a flush that
  takes the lock, and the validation of templates and groups is in the modules that need it.
- What the access wizard writes besides groups, memberships, places and submissions: the secrets, web profiles and requests it makes, its resource
  group, and the host key policy and fingerprint of its servers, which come from the draft as they are (`wizard_service.py:308`).
- VNC sessions: a socket where a web session has a browser, and no pool.
- The cipher of the vault, and who may see which secret.
- Set-up and configuration (`bootstrap_admin.py`, `config.py`), the demo data beyond templates and groups, and the frontend.
- `lifecycle.py`, which nothing imports; the mock executor, which changes nothing by design.
- PostgreSQL, which the repository names as a later deployment: there the write lock is per row, and
  `HostChangesAreLocked` and everything resting on it would have to be checked anew.
