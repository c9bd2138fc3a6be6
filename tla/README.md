# Verification of the sing-box manager

The manager is one Python process (FastAPI on one asyncio loop, SQLite behind SQLAlchemy) that
administers `sing-box` on one Linux host: it stores proxy nodes, generates a config, deploys it
through a privileged helper, watches the tunnel, and hands configs to managed users by Telegram.

This directory holds TLA+ modules of its parts, the TLC configurations that check them, and proofs
for TLAPS. `PROJECT.json` lists components, runs, mutants, hazards and, for each definition that
models code, the lines it stands for. Paths below are relative to `src/`.

```
tlc -workers 2 -config deploy.cfg MCDeployer     # any run of PROJECT.json
tlapm DeployerProofs.tla                         # and every other *Proofs.tla
```

## 1. Inventory

Concurrency here has one shape. A handler runs without interruption until it awaits; helper calls
are blocking `subprocess.run`, so they hold the loop. The places where a handler lets go of the loop
are few, and they are where the interleavings of this system come from: the sleep of the health wait
after a deploy (`deployer.py:77`), a geo lookup (`geo.py`), one Telegram call per notified member
(`services/users.py:252`), the awaited health checks (`health.py`) and the bot's own calls. The
other sources of trouble are a crash of the manager between two commits, systemd and the clock, and
forms that were rendered from rows that have changed since.

| Component | State | Operations | Interacts with | Hard behaviour | Correct when |
|---|---|---|---|---|---|
| Deploy pipeline `singbox/deployer.py` | `_deploy_lock`, stage of each deploy, backup name | `deploy_with_rollback`, `_do_rollback`, `restore_backup` | helper, validator, notifications; called by activation | lock checked then taken; other requests run in the health wait; half-done steps; crash | deploys exclude each other; every answer (ok, rolled back, manual rollback) is true of the host; every deploy ends |
| Helper and host `scripts/singbox-manager-helper`, `singbox/service.py`, `system_clients.py` | config file, backup directory, service, clock | deploy, restore, service actions | pipeline, restore route, service buttons | backups named by the second; copies that break off; time-outs of calls that did their work | a backup is never lost before it is needed |
| Activation, profiles, settings `services/deploy.py`, `profiles.py`, `settings.py`, `routes/*` | nodes, profiles, active flags, settings, `deploy_log` | activate node or profile, save settings, create and delete rows, restore | pipeline, node store | rows loaded before a deploy and written after it; keys reused; settings saved key by key; crash between commits | flags name what is deployed; one active row |
| Node store `services/nodes.py`, `geo.py` | `nodes` and one ORM session per request | add, import, refresh geo, metadata, delete | geo service, activation, groups | sessions that hold rows over an awaited lookup | unique tags; a row is its tag's link; an operator's topology role survives |
| Users and groups `services/users.py` | `config_groups`, `managed_users`, version | create, update, delete; notify members | Telegram, distribution | overlapping updates while members are notified; keys reused; stale forms | references exist; a version names one content; every member is notified |
| Distribution `services/distribution.py`, user part of `telegram/handlers.py` | `config_delivery_log` | `/config`, `/refresh`, `/sbclient`, `/status` | groups, nodes, generator | limits that change in the window; seconds against microseconds | at most the limit in an hour; nobody refused early; nobody served another's group |
| Config generation `singbox/generator.py`, `client_generator.py`, `routes.py`, `services/client_configs.py` | none | `generate_config`, `generate_client_config`, bundles | activation, distribution, app bypass | the first matching rule decides; fixed outbound tags | chosen processes and destinations go where documented; configs name only what they contain |
| App bypass `services/app_bypass.py`, `routes/apps.py` | `app_bypass_json` | show page, save page | desktop applications, generator | applications come and go between showing and saving; limits | a page saved as shown changes no rule, and is refused only for removed applications; no path turns into a name |
| Health loop `main.py`, `health.py`, `notify.py` | `_last_health_state`, `health_check_log` | round: read tag, checks, store, notify | activation, notifications | activation during a round; failing commits; restarts | notices follow the state and the stored samples; an outage that lasts is found and announced |
| Telegram polling `telegram/bot.py`, `client.py`, `dispatcher.py` | offset (in memory) | `getUpdates`, handle, send | Bot API, handlers | lost answers, raising handlers, restarts | no update lost; none taken twice by one process |
| Telegram admin commands `telegram/handlers.py`, `repositories.py` | `admin_action_log` | `/status`, `/nodes`, `/activate`, `/logs`, `/health`, `/notify_test`, `/help` | polling loop, activation, health | the deploy commits before the audit row, the audit row before the answer; each can raise or die | what was told is audited; an audited activation is in the deploy log; a restart repeats the answer in hand at most |
| Login and sessions `auth.py`, `routes/system.py` | attempts per address, signing secret; the browser's cookie | login, logout, middleware | every route | table cleaned in the middle of another address's attempt; wall clock set back; secret that ends with the process | the limit holds whatever the cleanup drops; the table stays small; a session serves its age and no longer |
| URL parsers `parsers/`, `deserialize_node` | none | parse VLESS and Hysteria2 links, parse stored rows again | node store, generator | rows stored by versions that knew fewer transports | a node is dialled as the docs say of its link, or not at all |
| Config validator `singbox/validator.py` | none | `sing-box check` | pipeline | time-out | its verdict is a choice in `Validate` |
| Dashboard and diff, log insights, metrics, downloads, scripts, migrations, configuration | none that others change | reads | all | none | not modelled: they read, classify text, or run by hand |
| Server inventory `services/servers.py` | `server_notes_json` | show, probe by SSH, save notes | settings | a save replaces all notes with the form's | not modelled: one setting, one handler without an await |

## 2. Modules

| Module | Models | Composition |
|---|---|---|
| `Host` | the helper's actions, backups and their names, systemd, the clock | one operator per helper action, used by `Deployer` |
| `Deployer` | `deploy_with_rollback` and the requests without the lock, on the event loop | EXTENDS `Host` |
| `DeployPromise` | abstract: a deploy is a transaction on the config file | refined by `Deployer` and by `Activation` (`ImplementsPromise`) |
| `Activation` | rows, flags, settings and `deploy_log` around a deploy | EXTENDS `Deployer` |
| `NodeStore` | ORM sessions that wait for lookups | alone |
| `Distribution` | groups, users, versions, notifications, delivery log, limits | alone |
| `Links` | links and stored rows to nodes, as pure operators | used by `Generator` |
| `Generator` | route rules, outbounds and whom they dial, configs, as pure operators | EXTENDS `Links`, used by `AppBypass` |
| `AppBypass` | the Apps page and the stored list; the configs made of it and of stored nodes | EXTENDS `Generator` |
| `HealthLoop` | rounds of checks and their notifications | alone |
| `TelegramPoll` | long polling with an offset | alone |
| `AdminBot` | the administrators' commands inside the polling loop | EXTENDS `TelegramPoll`; implements it (`AdminImplementsPoll`) |
| `Login` | attempts, cleanup, sessions, the middleware's decision | alone |
| `LoginLimit` | abstract: at most `RateMax` attempts in a window, with nothing forgotten | refined by `Login` (`ImplementsLimit`) |
| `MC*` | constants of the runs and symmetry sets | EXTEND the module they check |
| `*Proofs` | theorems | EXTEND the module they are about |

A definition named "Mutant of X" is X with a plausible bug; no specification uses it. Each
property of each passing run names one in `PROJECT.json` that breaks it.

### How state and actions correspond to the code

- **Deployer.** `pc[t]` is the place a request has reached, `loop` the task that runs, `lock` the
  holder of `_deploy_lock`. A task keeps `loop` through `Validate`, `Deploy`, `Restart`,
  `HealthCheck`, `Rollback`, `RollbackRestart` and lets go of it in the sleep only; other requests
  begin when `loop = None`. Steps between two helper calls are separate actions because systemd, the
  clock and a crash can fall between them. `old`, the file before the deploy, is history.
- **Host.** A content is a member of `Configs` or `Torn` (a copy that broke off). A backup's name is
  the second it was made in. A call that is told to have failed may have done all, part or nothing.
- **Activation.** `row[t]` holds what the handler loaded before the deploy. `Record` is everything
  `activate_node` does afterwards: log row, flags and commit, all lost when a row has gone (an
  UPDATE by key that meets no row raises). `SavePresets` is the second commit of
  `activate_profile`. Keys are given out as SQLite does without AUTOINCREMENT. DNS preset, route
  preset, log level and bypass list are one value; saving them key by key shows only in `DieSaving`.
  `NoAuditRow` of `MCActivation` is the view of both passing runs: no step and none of their
  properties reads `deployLog` or `attempt`.
- **NodeStore.** A session has the rows as loaded and as assigned to; `Finish` writes the columns
  that differ, by primary key. `raw_url`, `parsed_json` and `schema_version` are one column `link`,
  the geo columns are one. `turn` is the request that holds the loop between its lookups.
- **Distribution.** `Handle` is a whole command: decision, document, log row. `gen` and `granted`
  are history and tell a group's row from a later row under the same key. The fingerprint is what is
  hashed, which assumes a hash without collisions. Names and notes are left out. `MembersSpec` of
  `MCDistribution` begins where the operator has imported nodes and entered a group and every user,
  assigned and enabled or not: states `DistributionSpec` reaches by `EditNodes`, `CreateGroup` and
  `EditUsers`.
- **AppBypass.** `page[t]` is the form a tab was given, with what it was made from as history.
  `SavePage` replaces the list or `RefusePage` answers with the error. A connection is the set of
  marks rules look for (path, name, destination lists); `Decision` is sing-box's first match.
  `Documented` is what the docs say of a link and `Tolerated` what is left of it when `headerType` is
  ignored beside TCP, as the code does; neither looks at how a node is parsed or an outbound built.
- **HealthLoop.** `samples` has one entry per stored round, with its age in rounds in place of dates.
- **TelegramPoll.** `inbox` is what Telegram still keeps; a `getUpdates` call confirms everything
  below its offset even when its answer is lost.
- **AdminBot.** `asked` gives each update its kind of command, `stage` is the place in the handler
  between its awaits and commits. `deployRows` and `auditRows` are the rows of the command taken
  last, by success; `told`, `cut` and `page` are history. `DeployEnds` is all of `activate_node`
  (its inside is `Deployer` and `Activation`). Each action of the loop is the action of
  `TelegramPoll` of the same meaning with what it does to these variables.
- **Login.** `attempts` is `_login_attempts` after the cleanup at the head of `rate_limit_ok`;
  `passed`, never cleaned, is history and what `LoginLimit` speaks of. A cookie is its date and the
  secret that signed it. `Dispatch` is the middleware as a function of the request.
- **Links.** A link is a record of the parts `urllib` cuts it into; a missing part is "", a missing
  port 0. `Deserialized` parses the link of a stored row again and falls back on the stored data.

## 3. Runs

| Run | Bounds | What it shows |
|---|---|---|
| `deploy` | 2 tasks, 3 contents, clock to 2, 2 health attempts; helper faults, service buttons, restores between deploys, crashes | exclusion, truth of each answer, refinement of `DeployPromise`, and that deploys end |
| `same_second` | 2 tasks, 2 contents, 3 attempts, clock to 3, `FastFail` | violation: finding 1 |
| `activation_serial` | 2 tasks, 2 tags, 2 rows a table; crashes; edits and restores wait for deploys, activations do not | flags name what is deployed |
| `activation_overlap` | 2 tasks, 2 presets, 2 rows a table, clock to 2; restores, buttons and edits overlap deploys; crashes | one active row, on an existing row; presets of the active profile are the stored ones; the service at rest runs the file, also when a restore has changed it under a deploy; a rollback keeps its own backup |
| `restore_race` | 2 tasks, restores overlap deploys | violation: finding 2 |
| `refresh_limit` | 1 user, limits 0 and 2 (default 1), 2 limited commands and `/status`, window of 2 s, 2 log rows, a group key used twice | limit, no early refusal, nobody served a reused key |
| `config_versions` | 2 concurrent updates, 2 users, 3 versions, nodes and the group edited, deliveries by `/config` | a version names one set of nodes and one preset; each member is notified, whichever call fails |
| `nodes` | 2 requests, 3 links of 2 tags, 3 keys, imports of 2 items | unique tags, right links, refused only for cause, topology roles survive, geo failures block nothing |
| `app_bypass` | 2 executables of one name, 2 applications, 1 line, 2 entries; links of every spelling of a transport, security, default and missing part; nodes with reserved and missing tags | nodes dialled as documented but for `headerType` beside TCP, routing of chosen processes, sound configs, a stable page, refused only for removed applications |
| `health` | 1 system and 2 connectivity checks, 1 activation, 1 restart, retention of 1 round | notices follow the state and the newest samples and never repeat themselves; outages are found, and announced by a process that saw the tunnel work |
| `telegram_bot` | 3 updates of any kind, 2 restarts | nothing skipped, nothing taken twice by a process, a restart repeats the last answer at most; answers, audit log and deploy log agree; every update is taken |
| `login` | 3 addresses, threshold 1, 2 attempts in a window of 3, seconds of 2 ticks, age 3, clocks to 5, 2 runs | refinement of `LoginLimit` over cleanups, a bounded table, sessions that serve their age |

### Why the bounds are enough

- *Tasks.* The lock makes a third deploy behave as the second; two show every pair of requests.
- *Clock.* A backup's name matters only by being equal to another's. `MaxTime` stops the free clock
  and new deploys; a sleeping task still advances it, so a deploy that began can always finish. With
  `MaxTime` 2 in `activation_overlap` an older backup can be restored in the second after it, so the
  restore does change the file while a deploy waits, and a rollback then writes it again; the
  pre-restore backup takes another name than the restored one.
- *Attempts.* `_wait_service_active` makes 6. Its steps are alike; 2 give a first one that sleeps
  and goes on and a last one. The proofs hold for any number.
- *Rows.* Reuse of a key needs one row deleted and one inserted; 2 rows leave room for a neighbour.
- *Refresh window.* An hour becomes 2 ticks and a limit 1 or 2, so limits are reached, the window's
  edge is passed and limits change while rows are inside it. `Sub` splits seconds (see 6).
- *Apps.* The limits 40 and 200 become 1 and 2, so each is reached alone and together. A save
  replaces the whole list, so one tab whose form may be arbitrarily old, with others' effect
  subsumed by its own earlier saves, meets every list another tab could have left.
- *Health.* The cases of the overall state need a failing system check, one failing and all failing
  connectivity checks: three checks.
- *Links.* Every alias and every transport the generator tells apart is there, each with and
  without `headerType=http`, every security with and without a key, each required part missing.
- *Login.* Threshold 1 with 3 addresses makes the cleanup run on a table that holds fresh, expired
  and mixed entries; the clocks pass the window and the age from both sides. The theorems of
  `LoginProofs` hold without these bounds.
- *Bot.* With 3 updates an answer can hold one that is done, one in hand and one to come; the second
  restart finds what the first has repeated.
- *Nodes.* `Room` keeps a key free for each row still to be inserted, so a commit is never cut off
  by the bound.

### Switches

`HelperFaults`, `FastFail`, `AppCrash`, `Requests`, `Edits`, `Overlap`, `StaleForms`, `DeleteRaces`
and `Calls` turn a kind of event on and off. A passing run with a switch off states an assumption:

- `activation_serial` has `HelperFaults` off: when a helper deploy is reported as failed after it
  replaced the file, nothing is rolled back and the flags are stale until the next activation.
- `activation_serial` and `deploy` have `Overlap` off for edits, restores and buttons: they wait for
  deploys, though not for anything else. See finding 2 and section 6.
- All runs but `same_second` have `FastFail` off: see finding 1. Off, a restart never fails within
  the second of the backup.
- `ActiveFlagsMatchHost` and `ActiveProfileMatchesSettings` are stated for a manager that has not
  died inside a request since the last successful activation (`interrupted`).

### Deadlock

No run switches the deadlock check off: some request can always be sent, the host or the clock can
move, or, in `TelegramPoll`, the bot polls again.

### Fairness

- *Deployer*: weak fairness of the steps of a request that runs; strong fairness of `Wake`, since
  the loop runs ready callbacks first come, first served, so requests that keep arriving cannot
  starve a sleep that is over. Nothing is asked of systemd, operators or crashes.
- *Distribution*: weak fairness of `Notify`; each Telegram call has a time-out.
- *NodeStore*: strong fairness of a request's next step, for the same first-come loop; lookups have
  a time-out (`geo.py`).
- *HealthLoop*: weak fairness of the round (checks have time-outs, errors are caught), and strong
  fairness of a commit that succeeds: the database is not locked for ever.
- *TelegramPoll, AdminBot*: weak fairness of the loop (its task is never cancelled while the manager
  runs, calls have time-outs, a deploy ends by `DeployTerminates`), and strong fairness of an answer
  that is not empty. If Telegram failed for ever, no bot could take an update.
- *Login* has safety properties only: nothing there is bound to happen.

## 4. Findings

1. **`same_second`** (`scripts/singbox-manager-helper:122`). `action_restore` makes a backup before
   it copies. If the restart fails in the second of the deploy's backup, that backup is overwritten
   with the new config, which is then "restored", and the result says rolled back. README.md:149 and
   docs/ops.md:24 promise the previous config.
2. **`restore_race`** (`app/routes/system.py:112`). The restore route ignores the deploy lock. A
   backup restored in a deploy's health wait is deployed, while the deploy then marks its own node
   active. docs/ops.md:187 says a restore clears the flag because it may not match.

## 5. Proofs

| Theorem | For every | Assuming | Inductive invariant |
|---|---|---|---|
| `DeployerTypeOK` | tasks, configs, attempts, faults | module assumptions | `TypeOK` itself |
| `DeploysExclude` | same | same | `ExclusiveInv`: exclusion needs that a task outside "idle" and "sleep" has the loop, or two tasks could run between asking for the lock and taking it |
| `RollbackKeeps` | same, unlocked restores included | `~FastFail` | `OrderInv`: a deploy's backup is older than the clock once it is past its sleep or its failed restart, and is in the directory |
| `RolledBackIsPrevious` | same | `~FastFail`, `RestoresWait` | `FullInv` = `ExclusiveInv`, `OrderInv`, `RestoreInv` and `TxInv`: while a deploy is in flight the file is its config and its backup holds `old` |
| `SuccessIsRunning` | same | `RestoresWait` | `RunInv` with `ExclusiveInv` and `RestoreInv`: a deploy's config is on disk until it is rolled back, and after a good restart the service runs that or nothing, whatever its buttons and crashes do |
| `ManualRollbackAvailable` | same | `~FastFail`, `RestoresWait` | the property with `FullInv`: the name that is handed out is that of the backup `old` was saved in |
| `DeployerImplementsPromise` | same | same | `FullInv`; each step is a step of `DeployPromise` under `PhaseOf`, or a stutter |
| `OneActiveAlways` | tasks, tags, presets, rows, overlaps | module assumptions | `FlagsInv`: the flagged rows of each kind lie in one singleton and in the table; a commit that misses a row flags nothing |
| `ProfileMatchesSettings` | same | same | `ProfileInv`: the presets match, or a crash is unrepaired, or one task is between its two commits with the loop to itself, and what it is about to save belongs to the active profile |
| `ServiceFollowsFile` | same | `~HelperFaults` | `ServedInv`: the service falls behind the file only between a write and the restart that follows, or if the manager dies there |
| `ActivationRollbackKeeps`, `ActivationDeploysSound`, `ActivationImplementsPromise` | same | `~FastFail`; the last two `RestoresWait` | the invariants of `DeployerProofs`, carried over by `DeployerSide`: seen from the deployer, a step of the composed system is one of its own, a request that goes on to its second commit, or a crash in a handler that deploys nothing |
| `FlagsMatchHost` | same | `~HelperFaults`, `~FastFail`, `RestoresWait`, `DeletesWait` | `FlagsInv`, `DataInv`, `FullInv` and `AgreeInv`: outside a change the file is what the flagged rows generate; while a deploy may be rolled back, `old` is; the rows it loaded still say what its config was made from; neither file nor backup is torn |
| `ServedAsAssigned` | users, groups, keys, limits, edits | `~StaleForms` | `AssignedInv`: a user's reference is to the very row that was chosen; `DeliveryInv`: the log holds honest rows only |
| `ReferencesKept` | same | `~StaleForms` | `AssignedInv` |
| `LimitKept`, `NobodyRefusedEarly` | same | none | `LogOK`; a step appends at most one row, and rows inside the window that ends later were inside the one that ended earlier |
| `VersionsStandForContent` | same | none | `VersionInv`: no two claims about a version differ, among the groups themselves, logged deliveries, notices and notifications under way; a group's version is at least every version claimed of it; no two groups share a `gen` |
| `NodeTypes`, `CommitsRefusedForCause` | requests, tags, links, keys | none | `StoreInv`: types, and for every session: it changes no tag, and a label only of rows it named; unless it is `raced`, what it loaded is what is stored and the tags it is about to insert are free |
| `LabelsKept` | same | none | topology roles only: `StoreInv`: a commit writes the columns its request assigned, of the rows it named |
| `LinksMatchTags` | same | `DeletesWait` | `LinkInv`: stored rows, held rows and rows about to be inserted have a link of their own tag; a held row is stored, under the same tag |
| `UnchangedPageKeepsBypass`, `RefusedOnlyForRemovedApps` | applications, paths, limits, tabs | none | `PageInv`: the stored list is one a form stands for, within the limits (`StoredOK`), and a page that was not edited shows such a list; its entries have become lines only for removed applications, so the limit on all entries holds again and the one on lines fails only then |
| `ChosenProcessesRouted` | same, route presets | none | `StoredOK`; the rule that decides is the least one that fits, taken with a well-founded minimum (`FirstTaken`, `DecisionInTurn`) |
| `UserConfigsSound` | same, groups of nodes | none | `StoredOK`; outbound tags differ because the fixed ones are no node's and the deduplicated names differ (`TagsTellApart`) |
| `NodesDialledAsDocumented` | links, stored rows of any age | `OneProtocol` | none, it is about operators, and says as documented but for `headerType` beside TCP; here because the rows come from the node table |
| `PollTypes`, `NoUpdateSkipped` | updates, page sizes, restarts | none | `QueueInv`: an update that was not taken is in the inbox at or above the offset, also with a batch in hand |
| `UpdatesTakenInOrder` | same | none | `Passed`: what this process began is below its offset |
| `AdminImplementsPoll`, `AdminSkipsNone` | same, kinds of commands | none | each step is a polling step or a stutter; the second follows from the first and `NoUpdateSkipped` |
| `AdminRepeatsOnlyLast` | same | none | `RepeatInv`: adds that the batch in hand is part of the last answer; needs `Passed`, or an update of an older answer could be unconfirmed |
| `AdminAuditAgrees` | same | none | `AuditInv`: what rows there are at each place of the handler |
| `NoticesFollow` | checks, tags, retention, restarts | module assumptions | `NoticesInv`: also in the middle of a round the notices end with the state, and a stored round of age 0 says that state |
| `LoginImplementsLimit` | addresses, limits, windows, thresholds | module assumptions | `LimitInv`: for every address, the table holds exactly the attempts let through that are still in the window, so the cleanup drops only what no longer counts |
| `LoginTableBounded` | same | same | types of the table, and that it is finite |
| `LoginSessionServes` | clocks, seconds, ages | same | `SessionInv`: a cookie is dated at most a second before its login and signed with the secret of its run |

Assumptions of the constants are named `ASSUME`s of the modules and are evaluated by TLC in the runs.
The hypotheses in the third column are about switches, defined where they are first used. Each is
needed, and its failure is recorded:

- `~FastFail`: finding 1 (`same_second`). `RestoresWait` (`~Overlap`, or nobody restores by hand):
  finding 2 (`restore_race`).
- `DeletesWait` (no row is deleted while a request that loaded it is under way), `~HelperFaults`,
  `~StaleForms`: the rows of `LinkMatchesTag`, `ActiveFlagsMatchHost` and
  `GroupReferencesExist` in section 6.
- `OneProtocol` (what was parsed from a stored link has the protocol of its scheme): the row of
  `ProtocolOfLink` in section 6; a row that two racing adds have left is dialled as it was stored.

The proofs are of the safety parts: `DeployerSpec`, `ActivationSpec`, `DistributionSpec`, `NodeSpec`,
`AppBypassSpec`, `HealthSpec`, `PollSpec`, `AdminSpec`, `LoginSpec`.

Every invariant, action property and refinement that a passing run checks has a theorem. Model-checked only:
the liveness properties `DeployTerminates`, `OutageFound`, `MembersNotified`, `EveryUpdateTaken` and
`CreatedWithoutGeo`, as the prover has neither fairness nor ENABLED. The library's induction theorems
take an operator and cannot be used here. Where a proof needs the first rule that fits or the largest
key, it takes a minimal element of a nonempty set of naturals (`WellFoundedInduction`) or a fact of
`FiniteSetTheorems`.

## 6. What the code does beside the properties

Stated in the modules and not among the passing runs, because the code does otherwise when one
constant is changed, or as it is. They are recorded here so that a change of the code can be checked
against them.

| Definition | Change | What TLC shows |
|---|---|---|
| `AuditTrailComplete` | `activation_overlap` without its view | deleting the node or profile during its deploy makes the final commit raise: a successful deploy leaves no row |
| `ActiveFlagsMatchHost` | `activation_serial` with `HelperFaults = TRUE` | a helper deploy reported as failed may have replaced the file |
| `WithinLimitExactly` | `refresh_limit` with `Sub = 2` | whole seconds against microseconds: the window is up to a second short of the "rolling one-hour window" of docs/ops.md:293 |
| `GroupReferencesExist` | `StaleForms = TRUE` | a form can store the key of a deleted group, and a later group may get that key |
| `SampleNamesNode` | `health`, any `MaxSwitches` above 0 | a round names the node that was active when it began (docs/ops.md:171) |
| `LinkMatchesTag` | `nodes` with `DeleteRaces = TRUE` | a row written back by key may be another node's row by then |
| `ProtocolOfLink` | `nodes`, overlapping adds of links with other protocols | only changed columns are written |
| `AddsSucceed` | `nodes`, overlapping adds of one new tag | the second commit breaks the unique index |
| `SkippedNotStored` | `nodes`, an item with an unknown role | the item is reported as skipped after its link was assigned |
| `HeaderTypeRefused` | `app_bypass` | generator.py:58-59 refuses `headerType=http` for TCP only; docs/ops.md:49 and docs/client-contract.md:75-79 list it as unsupported for VLESS without that condition; such links over ws, grpc and http are dialled without the header |
| `SavableAsShown` | `app_bypass` | applications removed before the page was shown have left their entries as lines, which have a limit of their own (app_bypass.py:130): the list that was stored cannot be stored again |

Further observations, made while reading: docs/recovery.md:90 restores a backup by its full path,
which `BACKUP_RE` of the helper rejects; `deploy_log.stage` can be "lock", which the comment at
models.py:72 does not list; an outage that starts around a restart is not announced, as the first
round only sets the state; commands handled since the last confirmed answer are handled again after
a restart; `generate_config` has no check for reserved tags, so only `sing-box check` stops a node
tagged "direct"; one payload that names a new tag twice loses the whole import. Refused attempts are
logged and count toward the limit, which tests/test_distribution.py:103 intends. A redelivered
`/activate` can undo what the panel activated in between. A late geo lookup overwrites geo columns
the operator has edited in between; only the topology role is kept (`RoleKept`). A session that was
logged out elsewhere stays valid until its age, as stateless tokens do. Two tabs that save the
server notes overwrite each other's.

## 7. What is not modelled

- Cutting strings: the text of links, desktop entries, `.env`, log lines. Where a parse can fail, the
  early return is.
- Failures of `generate_config` and of stored JSON: early returns before any state changes.
- The sbclient bundle (`services/client_configs.py`): the links of the group's nodes with the names
  of presets; it is made into rules by another program.
- Further fields of an outbound (TLS names, paths, hosts, bandwidth), DNS presets, the TUN inbound:
  constant data no property here tells apart.
- A helper deploy that fails after its backup has lost the name, so it is not offered to the caller.
- Delivery of notifications on desktop, webhook and Telegram channels: best effort and unobserved.
- The password comparison and HMAC: a password is right or wrong, a signature fits its secret.
- Rendering, downloads, diagnostics, the dashboard and its config diff, SSH probes: they keep no state.
- Migrations, installation and check scripts: run once or by hand.

## 8. Plan

The order was: the host and the pipeline, since everything shown to an operator rests on it; the
database rows around it; the distribution to users; the loops in the background; the nodes; the
generated documents; the administrators' commands and the login; the links. All of these are done.

Left to model: a composition of `NodeStore` and `Distribution` on the node table (a group's documents
while its nodes are re-added), and the dashboard's diff as an operator on two configs.

Left to prove: what that composition keeps of `VersionsStandForContent`, and that `HealthLoop` and
`Distribution` implement abstract specifications of their own (a round as one step, a refresh as
one step).

Runs stay one per question: a new question is added to the run of its module, or replaces one it
implies.
