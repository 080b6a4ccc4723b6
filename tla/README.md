# Agent Vault in TLA+

Agent Vault keeps the API credentials of software agents. An agent never sees a
credential: it talks through the vault's proxy, which looks up the service for
the request's host and injects the credential. Agents may *propose* new services
and credentials; people approve or reject. This directory models the program's
own logic in TLA+, checks it with TLC on small instances, and proves the most
important parts with TLAPS for every value of the constants.

Paths below are relative to the repository.

## 1. The system

One Go process (`cmd/server.go`) runs an HTTP API (`internal/server`), a
TLS-intercepting proxy (`internal/mitm`) and a few background loops over one
SQLite database (`internal/store`). The store opens **one** connection
(`SetMaxOpenConns(1)`), so each store call, and each transaction, is atomic with
respect to the others; a handler makes several of them, and between two of them
anything else may happen. That is the grain of the models: one action per store
call or critical section.

| component | state | operations | hard part | what makes it correct |
|---|---|---|---|---|
| proposals and services (`internal/proposal`, `server/handle_proposals.go`, `handle_services.go`) | `broker_configs`, `proposals`, one mutex per vault in memory | propose, approve, reject, list + expire, upsert / set / clear / patch / remove | handlers that interleave; a proposal written against a list that has changed since | no update lost; an approval is all or nothing, once; names stay keys |
| credentials (`handle_credentials.go`) | `credentials`, encrypted under the data key | set many, delete many, approve | key-by-key writes that stop half way | nothing outlives the vault |
| owners and roles (`handle_users.go`, `handle_agents.go`) | `users.role`, `agents.role` | set role, delete, revoke | guard and update are two store calls | an owner remains unless two requests overlap |
| vault membership (`handle_vaults.go`) | `vaults`, `vault_grants` | create, rename, delete, grant, set role, remove | names resolved to ids early, guards apart from updates | an admin remains unless two requests overlap or a read fails; grants follow the vault |
| accounts (`handle_auth.go`, `handle_users.go`) | `users`, `email_verifications`, `password_resets`, `user_invites` | register, verify, invite, accept, reset, delete | one-use tokens consumed in one call, effect in another | a token works once; no effect without its token |
| sessions and agents (`handle_sessions.go`, `handle_agents.go`, `brokercore/session.go`) | `sessions`, touch cache | login, logout, mint, touch, rotate, revoke | a request keeps the identity it was authenticated with | a revoked token opens nothing |
| proxy (`internal/mitm`, `internal/brokercore`) | tunnels with a scope | CONNECT, forward, inject, log | scope, config, policy and credentials are read at different times | nothing goes out bare by mistake, no retired value goes out, each request leaves one record and its slot |
| rate limiter (`internal/ratelimit`) | keyed buckets, windows, semaphores; the tiers' config | allow, acquire, release, sweep, reload | eviction at the key limit while a key is in use; reload during requests | limits hold per key; who obeys a denial gets through |
| request log (`internal/requestlog`, `LogsView.tsx`) | bounded queue, batch, table, the open page | record, flush, close, trim, list, follow | shutdown while recording; polls that overlap; a trim beside inserts | each record stored at most once and in order; a page without gaps |
| certificate authority (`internal/ca`) | two files, leaf cache | create or load root, mint leaf | crash between the two files; a leaf about to expire in the cache | a served leaf is valid; the busy names stay cached |
| master key (`cmd/master_password.go`, `internal/auth`, `internal/crypto`) | `master_key` row | first start, set, change, remove, unlock | the offline command against a server that starts | the data key can always be unwrapped |
| start and stop (`cmd/server.go`, `helpers.go`, `internal/pidfile`, `cmd/reset.go`) | pid file, ports, database file | start, detach, stop, reset | check and act are apart, and nothing is locked | a live server keeps its pid file |
| store (`internal/store`) | all tables | statements, transactions, migrations | crash in a migration | a version is recorded with its effects |
| others | settings, network guard, e-mail, container isolation, CLI, web UI, SDK, catalog | | mostly pure I/O or stateless | listed in `PROJECT.json` |

`PROJECT.json` lists every component with its status and the hazards with their lines.

## 2. Plan

The order is by how much of the system's promise hangs on a part.

| step | modules | state |
|---|---|---|
| 1. vault core | `ServiceList` (pure functions on the list), `Vault` (abstract: whole requests are atomic), `VaultServer` (handlers as store calls under the vault's mutex), `VaultServerProofs` | done, proved |
| 2. roles, membership, tokens | `Actors`, `ActorsHistory` (what overtakes a request), `ActorsProofs` | done, proved |
| 3. limits | `TokenBucket`, `SlidingWindow`, `KeyedSemaphore` with `LimitsProofs`; `LimitRegistry`, `LimitRegistryProofs` | done, proved |
| 4. accounts | `Admission` (abstract: who gets in), `Accounts` (store calls, failure counters), `AccountsProofs` | done, proved |
| 5. request log | `RequestLog`, `RequestLogProofs` | done, proved |
| 6. sessions and the proxy | `Sessions`, `Tunnel`, `ProcessProofs` | done, proved |
| 7. start and keys | `Boot`, `ProcessProofs` | done, proved |
| 8. store | `Migrations`, `HousekeepingProofs` | done, proved |
| 9. vaults by name | `VaultNames`, `HousekeepingProofs` | done, proved |
| 10. lists and matching | `Matching`; `ListHistory` (edits and approvals of one list, against references), in `VaultServerProofs` | done, proved |
| 11. certificates | `LeafCache`, `HousekeepingProofs`; the root is in `Boot` | done, proved |
| next | placeholders (`brokercore/substitution.go`), the network guard and host validation as pure operators; renaming agents | open |

Who composes whom: `VaultServer` extends `Vault`, which extends `ServiceList`, and implements
`Vault`; `Accounts` implements `Admission`; `ListHistory` extends `ServiceList` and `Matching`. `MCLimits`, `MCProcess` and `MCHousekeeping` put
parts beside one another that run in one installation and meet only in the store, whose
calls each part already has as steps of its own: a behaviour follows one of them (the
variable `focus`) while the rest keep still.

A `Proofs` module extends the module or the modules it is about; an `MC` module extends or instantiates
modules and gives TLC its requests and small sets. Definitions that stand directly before
another one and differ from it in one place (`LoadForgetsUnlock` before
`LoadServices`) are deliberate faults: `PROJECT.json` lists, for every property,
the fault that TLC finds with it.

## 3. Modules and the code

### `ServiceList`, `Vault`, `VaultServer`

The services of a vault are one JSON document, so every change is load, edit, save.

* `ServiceList` translates the edit: `Normalize` (`normalizeProposalServices`:
  deletes by host, adoption of names), `MergeServices`, `ValidProposal`,
  `ValidServices`, the direct edits `UpsertServices`, `Edited`. An auth
  config is the credential key it names, `Passthrough` or `NoAuth`, the zero value
  that an entry without auth has; substitutions are the set of keys they name. `ServiceType`
  and `EntryType` are the two structs. The loops of merge and upsert are recursive functions over the entries.
* `Vault` is what the API promises: a proposal is created, approved (services,
  credentials and status together), rejected or expired in one step.
* `VaultServer` has one worker per request. `pc` is the next store call:

| `pc` | code |
|---|---|
| `refs`, `count`, `insert` | `handleProposalCreate`: key listing, `CountPendingProposals`, `CreateProposal` |
| `lock` | `lockVaultServices`, by approvals and by the `/services` handlers |
| `load`, `apply` | `handleAdminProposalApprove` under the lock; `ApplyProposal` is one transaction, guarded by the status |
| `load`, `save` | the `/services` handlers; setting and clearing the list skip `load` |
| `unlock` | the deferred unlock, on every way out |
| `reject` | `handleAdminProposalReject`, whose pending test was an earlier read |
| `credential` | `handleCredentialsSet` and `Delete`: one store call per key |

`StoreError` ends a request at any store call; `Crash` ends all of them and leaves
the database. `DeleteVault` takes no lock. `proposals[i].applies` is a history
variable that counts commits; `old` says that the TTL has passed.

Two things the model shows that are worth knowing. The 409 answers of approval for
an entry that cannot be normalised are out of reach for stored proposals: they
were named when created, and only unnamed deletes are refused. And two entries
whose stale names had the same host and path rebind to the same service, so
the second overwrites the first; `MergeMeetsReference` therefore asks for distinct names where it says what an entry
leaves (that other services stay as they were, it says of any proposal), and `MergeNeverShadows` for an entry that is alone
in setting a service at its place.

### `Actors`

Users and agents with status, role, grant in one vault, and counted tokens
(`tokens[a]` authenticate as `a`; `minted[a]` are scoped tokens that carry `a` as
creator). A handler is authorised (`Authorize`), reads its target (`ReadTarget`),
passes `guardLastOwner` or the last-admin test (`GuardLastOwner`,
`GuardLastAdmin`), and writes; each is a store call of its own, and `Fail` may end
the handler before any of them. What the store does in one transaction
(`DeleteUser`, `RevokeAgent`, `RotateAgentToken`, `CreateAgentWithGrantsAndToken`)
is one action. A revoked agent keeps its row, role and grants.

Some handlers drop the error of a read and go on as if nothing had been found. `TargetUnread` is the
read of the target's grant: `handleVaultUserAdd` (`handle_vaults.go:181`) and `handleVaultAgentAdd`
(`handle_agents.go:458`) then overwrite a grant that is there, and `handleVaultUserRemove` (`handle_vaults.go:220`) skips the
guard on the last admin. `ReadCreator` is the second look at the caller in `handleScopedSession`
(`handle_sessions.go:149`): when it fails, for whatever reason, the token has no creator.

No guard is absolute, since it is a store call before the write. `ActorsHistory` therefore records for each request what
it cannot know (`overtaken`): that another request wrote roles or statuses (`"actors"`) or grants (`"grants"`) since it
began, or that a read of its own failed (`"unread"`). The properties say that only such a request
gets past a guard: `LastOwnerNeedsOverlap`, `LastAdminNeedsOverlap`, `RevivedOnlyWhenOvertaken`; and `OrphansBounded`
says how many scoped tokens can outlive their creator: fewer than there are requests at once.

### `Admission`, `Accounts`

`Admission` is what an instance promises: an address gets an active account or a membership
only with a ticket that was issued to it (a verification code or an invite), claimed once;
the one exception is the first account of an empty instance. `Accounts` is the code, a store call
at a time; `pc` names the next call:

| `pc` | code |
|---|---|
| `count`, `user`, `first`, `create` | `handleRegister`: `CountUsers` (its error is dropped), `GetUserByEmail`, `RegisterFirstUser`, `CreateUser` |
| `cap`, `send` | `generateAndSendVerificationCode`, `handleForgotPassword`: count, insert |
| `check`, `code`, `mark` | `handleVerify`, `handleResetPassword`: failure counter, pending code, mark used |
| `offer`, `duplicate`, `domain`, `room` | `handleUserInviteCreate`: existing account, pending invite (the errors of both reads are dropped), allowed domain, and the invites of the whole instance |
| `activate`, `grant`, `claim`, `invite`, `revoke` | `ActivateUser` and the other invite handlers |
| `password`, `drop`, `session`, `delete` | change, reset, login and deletion of the account |

`Fail` may end a request before any call, `Restart` all of them, and with the process the failure
counters go. Codes and invites age by `PassTTL`. `stale` is a history: the password a session
or a login relied on has been replaced.

### `TokenBucket`, `SlidingWindow`, `KeyedSemaphore`, `LimitRegistry`

* `TokenBucket`: every method runs under the map's mutex and is one step. Tokens
  are counted in fractions (`Cost` to a token) instead of floats. Map iteration
  is random in Go, so eviction picks any set it is allowed to.
* `SlidingWindow`: the same for the times of events.

  In both, time passes in ticks that are finer than a second (`BucketSecond` and `WindowSecond` ticks make one), and a denial tells
  the client to return after the whole seconds of the wait, one at least, because the header drops the fraction
  (`middleware.go:90`). A client that obeys may therefore come too early. What holds is `RetryAfterSettles`: of a bucket, it is denied at
  most once more; and `WaitingHelps`: of a window, two waits leave fewer requests held against it than before, which
  covers a `max` that was lowered below what it had sent.
* `KeyedSemaphore`: the mutex covers the lookup only; the slot, the holder count
  and their release are steps of their own. `Reconfigure` changes the capacity of semaphores that are made
  later. `MaxKeys` is a constant because nothing that reloads the registry can change it: it is 10000
  in every configuration of `config.go`, neither the environment nor the stored setting has the field, and the 0 of
  the profile "off" is ignored by `reconfigure`. So the map is never over its limit by more than one entry.
* `LimitRegistry`: environment (the profile "off" included), stored setting, `Registry.cfg`, and the limits the
  limiters really have; the steps of `handleUpdateRateLimitSetting` and of
  `Registry.Reload`, and restarts in another environment. `scopes` is what the semaphores of the proxy's keys were
  made with: a key that has one keeps its old capacity (`registry.go:57`, `semaphore.go:104`), so an update is in force for
  keys that come new. A tier without a limiter, after a start with the profile "off", gets none later.

The three limiters name their state apart (`bucketCfg`, `windowCfg`, ...), so that one module can extend
them all. History variables say which promise is meant: `bucketAllowed` and `windowAllowed` (the ticks at which
a key's requests passed), `bucketHint` and `windowHint` (when a denied key was told to return), `bucketHeeded` (the keys that were denied although they had waited) and
`windowWaits` (what was held against a key at each denial after such a wait), `evicted` and
`bucketEvicted` (keys that lost their entry), `raced` (the updates that met another one), `overlapped` (two have run at
once since the start), `savedOff` (a setting was stored by a process started with the limits off, which skips the check of the floor).

### `RequestLog`

`queue` is the sink's channel, `worker` the place of its goroutine (`receive`, `commit`, then after
`done` is closed `drain`, `drainCommit`, `lastCommit`, `gone`), `batch` what it holds. A commit is one
transaction and may fail; a failed batch is dropped, which `lost` remembers. `promised` is what
was in the sink when `Close` was called. The retention pass resolves its cap (`ResolveRetention`), deletes what is too
old, lists vaults, counts each and deletes, a statement each, beside inserts. The cap is that of the environment, or the
stored one unless the environment locks it, or the default; the error of reading the stored one is dropped
(`retention.go:81`), so a pass may work as if there were none (`Unread`), and the stored one may change (`Tune`). The page of `LogsView.tsx` opens with the newest rows,
polls for rows after its cursor `view.latest` (polls overlap, and answers are shown in any
order) and loads older ones before `view.older`.

### `Tunnel`

`conn[c]` is a client of the proxy: closed, an open CONNECT tunnel with the scope it resolved, or a
request on its way: `limit`, `body`, the reads of `Inject` in their order (service list, then
the policy or each credential), upstream, answer or websocket, record, release. `config`, `policy`,
`creds` and `token` are the stored state that the control plane changes meanwhile. A request
carries as history the facts that held at some moment since it began (`facts`) and the oldest version
of each credential it may send (`floor`).

### `Sessions`

The clock has `Second` steps to a second, and the cache keeps its readings (`server.go:1042`); the table stores whole
seconds (`Stored`), and the `UPDATE` compares with a cutoff that has lost its fraction too. So the two throttles add up to
two intervals *and a second* (`LagBounded`). A user session has an absolute end and an idle window;
a request authenticates (`RequireAuth`), then `CacheTouch` and `TouchSession` each apply the throttle of
`TouchInterval`: the first in memory, the second in the `UPDATE`. Tokens are revoked as a user
session, a scoped session or by logout; the cache is pruned and dies with the process.

### `Boot`

The processes on one data directory: servers in the foreground or detached, `server stop`,
`master-password set`, `change` and `remove`, and `owner reset`. `proc[p].at` is the next call; `saw` is what
it read of the pid file; `record[d]` is the master key row of database `d` (a reset makes a new
one); `caFiles` the two files of the root. Nothing is locked, and `Crash` may end a process anywhere.
A data key is named by the process that made it; `crossed` marks what a server encrypted whose database
was replaced under it.

### `Migrations`, `VaultNames`, `LeafCache`, `Matching`, `ListHistory`

* `Migrations`: processes open one database, read the version once, and run the missing versions, each in
  a transaction that SQLite lets one process have. `applied` and `recorded` are what is
  committed; `tx` what the open transaction has done. A version in `FkOff` rebuilds a table: it
  needs `PRAGMA foreign_keys = OFF` outside its transaction.
* `VaultNames`: requests name a vault, are authorised on the row that has the name, and look the name up
  again for the deletion or the rename. `kept` is a history: the row has had the name ever since.
* `LeafCache`: `MintLeaf` is under one mutex, so a call is a step. The history numbers the calls that used or
  made an entry (`uses`) and keeps the last number of each name (`lastUse`), which the order of the cache is compared with.
* `Matching`: `MatchService`, `matchHostPattern`, `matchPathGlob`, `AssignSlugNames` as pure operators; a loop of the code is a
  recursive function of the number of rounds, and what is left of a path (`rest`) the place where it begins.
* `ListHistory`: one list through edits (`EditCatalog`) and approvals, each approval in two steps: `Review` normalises a
  proposal against the list and merges it, `ApproveReviewed` stores that; between them the list may be edited and the entries
  normalised again (`ReviewStale`). The references share nothing with the code: what one entry leaves of the services of its name (`Leaves`),
  the language of a path pattern as the ways its characters can be laid along a path (`InLanguage`), the rules of
  the documentation for the better of two matches. A probe puts a list before the matcher, or one to be healed.

## 4. What the runs show

States are the distinct ones of a full run, up to symmetry where the configuration has it.

| run | question | bounds | states |
|---|---|---|---|
| `vault_review` | Are approvals, edits and credential writes atomic and single, whatever handlers, errors, crashes and the deletion of the vault interleave? Do names stay keys? Does the server implement `Vault`? | 2 workers, 2 proposals; two groups of requests | 634,479 |
| `vault_live` | Does every request end? By how much is the pending cap exceeded? | 2 workers, 3 proposals, cap 1 | 222,708 |
| `service_list` | Is a merge what an order-free reference says, on every list that edits and approvals reach? Does the matcher choose what its documentation says? Are healed names unique? | 6 edits, 10 proposals; patterns and paths of up to 4 characters; lists of 3 services | 26,973 |
| `actors` | What overlap, or which dropped error, does it take to lose the last owner, the last admin, or to revive a revoked agent? How many tokens outlive their creator? | 2 workers, 2 users, 1 agent; six groups of requests | 337,650 |
| `limits` | Bursts, windows and slots under eviction and reconfiguration; does a client that obeys the header get through? Does a request wait for ever? | 3 requests, 2 keys, 1 entry; 3 seconds for buckets, 6 half seconds for windows | 567,746 |
| `accounts` | Does the server implement `Admission`? Do sessions belong to verified accounts, by how much are the caps passed? | 2 workers, 1 address (2 for invites), 2 rows, 3 codes; six groups of requests | 575,585 |
| `requestlog` | Order and single storage, shutdown, the page, retention under caps that are pinned, stored, changed or unreadable | 4 records, 2 vaults, buffer 1, batch 2, page 1, 2 polls | 561,660 |
| `processes` | The proxy while the vault changes; the idle stamp; servers and commands on one directory | 2 clients, 2 keys, 2 credential writes; 2 requests on 1 session, 11 half seconds; 3 processes | 1,013,076 |
| `housekeeping` | Migrations with crashes; names of vaults; the leaf cache; is an answered update of the limits in force? | 3 processes and 3 versions; 3 requests, 3 vaults, 3 names; 3 valid hosts in a cache of 2; 2 updates, 4 environments | 255,106 |
| `reject_race` | violation: `RejectedHasNoEffect` | 2 workers, 2 proposals | |
| `revoked_tunnel` | violation: `RevokedStops` | as `processes` | |
| `last_owner` | violation: `LastOwnerStays` | as `actors`, demotions only | |

**Bounds.** Two workers are the smallest number with an interleaving, and the hazards
listed for the handlers are one handler against one other. Three are used where a third matters: a
request that waits for an evicted semaphore while another takes the new one; a server that starts while
one command waits and another stops it; a rename between the two look-ups of a second, and a creation
beside both. `MaxProposals`, `MaxCodes`, `MaxUsers`, `MaxRecords`, `MaxVersion`, `MaxSems`, `MaxTokens` and `MaxDb` bound rows ever made,
`BucketHorizon` and `WindowHorizon` the ticks, `MaxUses` a history; each is a guard in the model. Maps with room for one of two keys make
eviction the common case; a cap of one makes the full table the common case; a buffer of one and a page of one
make a burst the common case. Processes run once, as a pid is not reused within an episode. In `accounts` one
address is enough, as nothing in the handlers relates two addresses except the number of invites, for which one group of requests
has two, and the failure counters, where
the counter of another kind takes the place of another key. `Second` is 2, the least that has a fraction, and so is `WindowSecond`; in
the buckets of `limits` the fraction comes from the tokens, three parts to one. `Kept` in `MCAccounts` and `MCRequestLog`, and the
groups of `MCVaultReview` and `MCActors`, keep a behaviour to requests that collide; every action belongs to one group at least.

**Deadlock** is checked in `vault_review`, `vault_live`, `service_list`, `limits`. In the others the bounded
history may simply end (all records sent, all processes gone, all requests served, no code left to
issue, nobody left who may do anything), and the check is off.

**Fairness.** `vault_live`: a goroutine that can run does run, hence weak fairness of a
worker's next store call; `sync.Mutex` hands the lock to a waiter that has waited
for a millisecond (starvation mode), hence strong fairness of `AcquireLock`. Nothing
is assumed of clients, and errors, crashes and deletions may happen or not. `limits`:
weak fairness of what a request does before and after its upstream call (`Prompt`), because the wait has a timer
(`GiveUp`) and the rest is code that runs on. None of `Release`: a tunnelled websocket lives as long as
bytes flow (`websocket.go:291` has an idle timeout and no other), so a slot may be held for ever, and `OnlyUpstreamLasts` says that this
is the one place where a request stays.
`requestlog`: weak fairness of the worker, because a commit has a timeout of five seconds and a closed
channel is always ready; none of `Record`, the page or retention. The other runs assume none.

## 5. What is proved

For any workers, requests, keys, values and bounds (`tlapm`, no fact taken on trust).

* `VaultServerProofs`. `IInv` adds to the properties what makes them inductive: the
  holder of the lock is the one worker in the locked section (`LockInv`); an
  operation's `pc` fits its kind (`PhaseInv`); ids are `1..n` (`Rows`); and what a
  handler computed from an earlier read is still right when it is used
  (`CreateInv`, `ApproveInv`, `EditInv`, `CredentialInv`). The last four are needed because
  a worker acts on a copy: `ApproveInv` says that the copy of the proposal equals the
  row as long as the vault exists, `NoLostServiceUpdate` that the copy of the list does.
  From it follow `NoLostUpdates`, `AppliedOnce`, `StatusTellsEffects`,
  `DeletedStaysEmpty`, `Decided`, and `Refinement`: every step of the server is a step
  of `Vault` or changes none of its variables (`StepRefines`, a lemma per store call that writes).
  `OvershootBounded` counts the pending rows and the requests between count and insert.
  `TypesHold` and `NamesStayKeys` follow from `DataInv`: whatever a worker carries or the vault stores is a list of
  services with a name each (`MergeGood`, `UpsertGood`, `NormalizeNamed`: what the loops return, whatever they are given).

  The same module proves the properties of `ListHistory`, for lists, proposals, patterns and paths of any length, from
  `ListInv`: what is under review was valid and is normalised against the present list. `MergesMeetReference`: one
  round of the merge changes what is under one name and keeps the rest in its order (`DeleteEffect`, `AppendEffect`,
  `UpdateEffect`), so rounds for different names do not disturb one another (`MergeEffect`). `MergesNeverShadow`: a place that
  belongs to one name stays with it through every round that does not set another service there (`MergeKeepsPlace`).
  `BestMatches` rests on `GlobIs`: the matcher looks for each part of a glob at its first occurrence and never goes back, and that
  is enough. A path is in the language iff the parts between the stars can be placed in it, in order and apart (`PlacedIsMatch`,
  `MatchIsPlaced`); the first occurrence never ends a part later than any placing does (`PlacedIsFound`), and what is found is a placing
  (`FoundIsPlaced`). Above it, a round of `MatchService` keeps the best score, the earlier one among equals (`BestStep`).
  `HealingNames`: one of the first suffixes, as many as there are names and one more, is free (`DisambiguateFresh`, by the pigeon-hole principle), so each round gives out a new name.
* `ActorsProofs`. For any number of requests at once. `ActorsTypes`; `DeletedHaveNoSession` and `TokensBounded` (the store's
  transactions and foreign key keep these whatever overlaps); `OrphansAreFew`, which counts the requests that mint in the name of an
  actor beside the tokens that are left (`OrphanStep`). `OwnerGoesToOverlap`, `AdminGoesToOverlap` and `RevivalIsARace` say of each guard what it
  takes to get past it. Their invariant `Known` is about each request that nothing has overtaken: what it read or guarded is still so at
  its write (`OwnerKnown`, `AdminKnown`, `StatusKnown`, `GrantKnown`); a step of another request keeps it or is recorded (`OthersKnow`).
* `LimitsProofs`. Semaphores: `SlotsBelongToRequests`, for evicted semaphores too, by counting
  the workers at each step; `KeyCapHolds` for keys that were never evicted, because such a key's
  requests all use the semaphore in the map (`Current`). Buckets: `BurstCap` is not inductive, as it forgets the tokens;
  `Budget` adds them: what passed since any tick up to the last refill and the tokens that are left are together a burst
  and the refill since, of a configured burst and rate no less than the present ones (`BucketInv`), whence `BurstCapHolds`.
  `RetrySettles`: at a hint the bucket lacks less than one second's refill (`Nearly`), a second denial tells a second at least, and then the token is there
  (`Paid`, in `BucketPromise`); what the truncation loses is `SecondsPay`.
  Windows: an entry is a tail of what passed, and what it has forgotten is older than some configured window
  (`WindowInv`); this gives `WindowCapHolds` and `DenialsAreDue`. `WaitingHelpsHolds`: a truncated wait ends less than a second before the oldest event leaves, and the next one,
  which is a second at least, after it; denied requests are not added, so the list shrinks (`WaitInv`), whatever `max` was before. `BucketTypesHold` and `WindowTypesHold` are the types.
* `LimitRegistryProofs`, for any environments, those that turn the limits off included. `RegistryTypes`; `LockPinsLimits`; `FloorHolds`, unless a process
  started off stored a setting; `LimitersStay` (`RateInv`: only a start decides whether a tier has its limiter); and `UpdateTakesEffect`, whose
  invariant says that an update which met no other one works with the config it found (`Consistent`), and that until two overlap the global semaphore
  follows the config (`GlobalFollows`).
* `AccountsProofs`. `TypesHold` and `SessionsOfVerifiedHolds` from `AInv`: a handler that is about to make a session, or
  to keep one, has proof of its account (`ProvenFor`), the code in its hand is of its kind and for its address (`CodeKnown`),
  and two requests that claimed hold different codes (`ClaimedOnce`). `CapsOvershootBoundedHolds` counts the pending codes
  of an address and the requests between count and insert. `AdmissionRefinement`: every store call is a step of `Admission`
  (`Issue`, `Claim`, `Admit`, `FirstOwner` and so on) or changes none of its variables.
* `RequestLogProofs`. `LoggedInOrderHolds`: what is stored was sent before what is in the batch, and that before what is
  queued (`InOrder`), and what was given up is nowhere else. `TailHasNoGapHolds`: ids only grow, so what is inserted after a
  poll was answered lies beyond every cursor, and an answer under way holds every row between its cursor and its
  newest (`PollSound`). `TrimKeepsNewestHolds` counts the rows above the one a trim deletes; the cap a
  pass works with is, where the environment gives or locks it, the cap of the setting, whatever was read (`CapInv`).
* `ProcessProofs`. `Tunnel`: what a request has read is right whoever changed the tables since (`ValuesRight`), and what let it
  through bare was said since it began (`FactsRight`); `OneValuePerKeyHolds`, `NoRetiredValueHolds`, `FailsClosedHolds`. `AccountedForHolds`
  counts slots and records owed. `Sessions`: once a session's touches are written, its cache entry is at most one interval
  newer than the stamp, give or take what the table drops of a second (`StoredIs`), and its last request at most two (`Lagging`); `LagBoundedHolds`. `Boot`: a record opens to one key
  for ever, so a process that holds a key opens its database with it unless a reset came between, which marks it
  `crossed` (`KeyRight`, `StoredRight`); `KeyNeverLostHolds`. A process that is to write or remove the pid file saw no other live one in
  it (`SawRight`); `LiveOwnerRespectedHolds`.
* `HousekeepingProofs`. `CacheStaysRecent`: the order of the cache is that of the last uses, and a name without an entry was
  used before all that have one. `SchemaStaysWhole`: the invariant relates the open transaction to what is committed (it
  starts from it, and its owner alone can commit) and says of each process that it runs the version after
  the last one it saw recorded, with foreign keys off if and only if that version needs it. What it saw may be out of date; the
  unique version of `schema_migrations` makes the transaction fail then. `ChangesItsOwnVault`: names are apart (`NamesApart`), and as
  long as the vault of a request kept its name the row that was found by name is that vault (`FoundWhatItResolved`).

**Loops.** What a recursive function returns is proved without an induction rule that takes a predicate: the subsets of a
finite interval are well-founded under inclusion, so the indexes for which a claim fails, if there are any, have
a least one (`Upwards`). That the function has a value at all is shown the same way (`TraceExists`, `LoopExists`).

**Assumptions** on constants are the named `ASSUME`s of the modules: sets of workers, clients, keys and actors are finite;
limits, costs and intervals are positive, as the constructors and `Validate` have it; requests, edits and payloads have the shape
that the handlers decode; markers such as `NoUser` or `NoWorker` are none of the values. TLC evaluates all of them. One theorem has a hypothesis
of its own, that the marker `None` is no name of a vault (`ChangesItsOwnVault`).

Only model-checked: the liveness properties (`RequestsEnd`, `OnlyUpstreamLasts`, `CloseCompletes`), as the prover has neither fairness nor
`ENABLED`. Every other property of a passing run is the statement of a theorem.

## 6. Where the code does not do what is said

Checked as runs (`PROJECT.json`, findings): a reject that races an approval leaves an applied
proposal marked rejected; a tunnel that is open when its token is revoked goes on carrying requests; two demotions at
once leave an instance without an owner, each having counted the other (`server.go:406`; `docs/learn/permissions.mdx:112`).

Further configurations, not among the runs, state a sentence of the documentation, of a comment or of
common sense that the model does not keep. Each is a `*_Departures.cfg`; TLC stops at the first
property it finds violated, so leave the others of the file out to see a counterexample of one.

| configuration | property | what happens |
|---|---|---|
| `MCVaultServer_Departures` | `PendingCap` | two creations count before either inserts |
| | `NoApprovalAfterTTL` | expiry is lazy: an old proposal is approved before anybody lists (`docs/learn/proposals.mdx`, seven-day TTL) |
| | `EveryServiceHasAuth` | an enable-only entry whose service is gone is appended without auth (`merge.go:68`; `docs/learn/services.mdx:48`) |
| `MCActors_Departures` | `RevokedAgentHasNoToken` | a revocation between the status test and the rotation (`sqlite.go:2285`) |
| | `ScopedTokenHasCreator` | the creator is deleted while it mints, or could not be read (`handle_sessions.go:149`) |
| | `RemovalLeavesLiveAdmin` | a revoked agent's grant counts as an admin (`sqlite.go:656`); no race needed |
| `MCAccounts_Departures` | `PasswordChangeEndsSessions` | a login checked the old password before the change and creates its session after; the error of the deletion is ignored as well (`handle_auth.go:660`; `docs/learn/security.mdx:60`) |
| | `ResetChangesOnce` | two resets with one code both change the password before either marks the code (`handle_auth.go:475`) |
| | `InviteOnlyHolds` | the error of the count is dropped and reads as an empty instance, for which the restriction is skipped (`handle_auth.go:87`; `docs/guides/instance-settings.mdx:21`) |
| | `OneInviteEach` | two invites to one address at once both find none pending, or the error of the look-up is dropped (comment at `handle_users.go:356`) |
| `MCLimits_Departures` | `EvictionIsFair` | in a full map of busy keys the newcomer's own bucket is the full one and is evicted at once, so it is never limited (`bucket.go:114`, comment at 105) |
| | `WindowMapBounded` | no entry is cold, none goes (`sliding.go:100`; `config.go:30`, "per-limiter map cap") |
| | `RetryAfterExact` | the header drops the fraction of the wait for a token: the client is denied again (`middleware.go:90`) |
| | `RetryAfterAccurate` | the same of a window; and after `max` was lowered the oldest event leaving is not enough (`sliding.go:85`, comment at 63, "accurate") |
| | `OnlyIdleEvicted` | with all semaphores busy one of them is evicted, and its key gets a second (`semaphore.go:140`, comment at 74) |
| `MCRequestLog_Departures` | `TailShowsEveryRow` | a page opened on an empty log polls without a cursor, gets only the newest page of a burst and follows from there (comment at `sqlite.go:2563`) |
| | `ShownOnce` | two polls with one cursor answer with the same rows |
| | `StoredCapKept` | one failed read of the stored setting, whose error is dropped, trims to the default what a larger stored cap, or none, keeps (`retention.go:81`) |
| `MCProcess_Departures` | `ValuesOfOneMoment` | credentials are read one by one: a request may carry an old and a new one of a pair replaced together (`credential.go:148`) |
| | `LagWithinInterval` | the throttles in memory and in the statement add up to nearly two minutes (comment at `sqlite.go:959`) |
| | `LagWithinTwoIntervals` | and to more than two, as the table and the cutoff lose their fractions of a second |
| | `LivePidfileKept` | `WriteIfFree` reads, then writes: a server that looked before replaces the file of one that wrote since (comment at `pidfile.go:45`) |
| | `ExclusiveAccess` | a server starts while the user types the new password (comment at `master_password.go:232`) |
| | `ResetStopsServers` | a server without pid file, or one that starts after the check, runs on a database that is deleted (`cmd/reset.go:21`) |
| | `RootPairMatches` | two first starts leave the certificate of one and the key of the other (`soft.go:226`) |
| `MCHousekeeping_Departures` | `CreatorIsAdmin` | the error of the creator's grant is dropped (`handle_vaults.go:335`) |
| | `ActsOnAuthorised` | the vault was renamed and its name given to another between the two look-ups (`handle_vaults.go:16`) |
| | `LastUpdateInEffect` | the config is stored before the lock is taken (`registry.go:47`) |
| | `EveryKeyFollows` | a key with a semaphore keeps the capacity it was made with (`semaphore.go:104`, `registry.go:57`) |
| | `EnvKnobWins` | overrides are applied over the environment's knobs (`ratelimit_settings.go:130`; `docs/reference/cli.mdx:46`) |
| | `OnMeansLimited` | limiters not built at a start with the profile "off" stay absent (`registry.go:83`) |
| | `FloorAlwaysKept` | a process started off checks no floor, and what it stored survives a start in another environment (`config.go:210`) |

Consequences of the model that no document forbids, and that no property therefore
denies: removing or demoting an *agent* has no last-admin guard; a grant written for a
user who was deleted after it was read stays, because `vault_grants` refers to no
actor; a request that was authorised goes on after its session is revoked; each change of the
global capacity makes a fresh semaphore, beside the one that running requests hold; and a
claimed invite whose handler fails is used up without an account.

## 7. What is not modelled

Open, see section 2: substitution of placeholders in URLs and headers, the syntax of hosts and of
`Proxy-Authorization`, the network guard, renaming agents.

Left out: bytes of HTTP, TLS and WebSocket; cryptography (a value is stored or not; a wrapped key opens with
the right password); e-mail; container isolation, whose state is Docker's; the web UI but for the page
that follows the log, the SDK and the commands that only call the API; the service catalog, a table; the SQL of the
single migrations. Inside the modelled parts: limits on
lengths and numbers of entries, slug validation, the text of messages and log lines, filters of listings,
device labels of sessions, the single-row settings without a rule, and authorisation in
`VaultServer` (it is in `Actors`). Ports and letter case of hosts are left out of `Matching`.
