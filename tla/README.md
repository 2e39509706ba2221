# TLA+ models of the nova distributed scheduler and logging setup

This directory holds TLA+ modules and TLC configurations for the code under `src/`:

- `nova/scheduler/distributed_scheduler.py`, the zone-aware host scheduler;
- `nova/scheduler/filters/abstract_filter.py`;
- `nova/log.py`, the logger configuration;
- migration `049_add_instances_progress.py`;
- `nova/tests/test_nova_rootwrap.py`.

Each module is translated from the source. Helpers the scheduler calls that are not in `src/` are modelled from `spec.md`. They are marked `spec_modelled` in `PROJECT.json`:

- `host_manager.filter_hosts` with a RAM filter;
- `least_cost.weighted_sum` and the cost functions;
- `HostState.consume_from_instance`;
- `create_instance_db_entry`;
- `WeightedHost.to_dict` and build-plan encryption.

## Inventory

| Part | State | Operations | Interacts with |
|---|---|---|---|
| `_schedule` (one pass) | request, host-state snapshot, virtually consumed host states, `hosts` list, `selected_hosts`, zone records, child replies, result | reject (no instance_type), fetch, per-instance filter/weigh/append/consume, break, child fan-out and `_adjust_child_weights`, sort, truncate | host manager, least_cost, child zones |
| Entry points | entry running, request_spec uuid placeholder, blob, weighted-host plan, instance records, compute casts, child `servers.create` calls | `schedule`, `schedule_run_instance` (blob or `_schedule`), provisioning loop (`_provision_resource_locally`, `_ask_child_zone_to_create_instance`), `schedule_prep_resize`, `select` | `_schedule`, DB, compute hosts (casts), child zones |
| `get_cost_functions` | `cost_function_cache`, FLAGS.least_cost_functions | get (hit, or resolve with two error exits) | `_schedule` calls it with topic compute |
| Filters | none | `host_passes` | host manager |
| `nova.log` | FLAGS logging options, whether `setup()` ran, the root logger's handlers, attributes (syslog, filelog, streamlog, logpath) and level, levels of NovaLoggers | `getLogger` (NovaLogger.__init__), `reset()`, `setup()`, FLAGS change | every module logs through it |
| Migration 049 | schema version, progress column | upgrade, downgrade | DB, sqlalchemy-migrate |
| `nova.log` record path | each thread's `local.store.context`, the call, its records, handler locks, the shared `_formatter._fmt`, lines written | log methods and `exception()` (`_update_extra`, `isEnabledFor`), `callHandlers`, `NovaFormatter.format` | every thread that logs |

What is hard in this code, with the property that checks each case:

- **Consumption between picks.** Consumption must feed the next pick, and a host may still be picked again (`NoHostOvercommitted`, `DistinctLocalHosts`).
- **Ties in `weighted_sum`**. The reference `Lightest` in `ScheduleSpec` breaks ties to the earlier host (`ImplementsScheduleSpec`).
- **Malformed child replies**, where a KeyError is raised part-way through a zone's reply, and the entries after it must still be merged (`ChildEntriesMerged`, in both scheduler runs).
- **Sorting before truncating** (`ResultIsCheapest`).
- **The `uuid` placeholder** across interleaved local and remote provisioning (`OneInstancePerCast`).
- **Blob decoding** (`BlobPlanHonoured`).
- **The resize path** dereferencing `host_state` (`PrepResizeDispatched`).
- **A child zone failing part-way through the plan**, with NotAuthorized or with another error before or after `servers.create` reached it. It leaves exactly the popped prefix provisioned (`ProvisionedIsPoppedPrefix`).
- **The cost-function cache.** A call served from the cache returns what resolving the configuration gives, and a failed resolution keeps raising (`CallsAgreeWithResolution`).
- **`reset()`/`setup()` sequences** across FLAGS changes (`NoDuplicateHandlers`, `HandlersFollowFlags`, `FileLogFollowsFlags`, `PublishErrorsOnce`).
- **The dotted-prefix rule** for logger levels (`LoggerLevelsFollowFlags`).
- **The loop against its specification.** The step-by-step pass implements `ScheduleSpec` (`ImplementsScheduleSpec`).
- **Concurrent formatting on one shared formatter** (`FormatMatchesRecord`, `DeliveredToAdmittingHandlers`).
- **An interrupted migration** (`SchemaMatchesVersion`).

`PROJECT.json` lists every hazard at its source line.

## Modules

Modules are listed in build order. A module that composes another does so with `INSTANCE`.

### `Schedule.tla`: one `_schedule` pass

- `phase` runs through idle, then local (the `for num in xrange(num_instances)` loop), then done or not_implemented.
- `fetched` is the snapshot `get_all_host_states` returned. `free` is the snapshot as `consume_from_instance` changes it.
- `hosts` is the local variable that each iteration reassigns to the filtered list, so it only shrinks.
- Actions:
  - `RejectRequest` raises NotImplementedError.
  - `StartSchedule(r, snap)` covers lines 299-323.
  - `PickHost` is one loop iteration.
  - `FinishLocal` covers the `break` or the end of the loop, the child fan-out unless `local_zone_only`, then `sort` and `[:num_instances]`. The fan-out chooses any zone records and any replies of at most `MaxItems` entries, malformed entries included.
- Python's sort is stable, so `SortByWeight` is a stable insertion sort.
- Host resources are one quantity, free memory. The default cost function is `compute_fill_first_cost_fn` with weight -1: free memory, negated.

### `ScheduleSpec.tla`: what one pass promises

- A request is accepted with a snapshot, and the pass later returns its answer in one step.
- The answer is computed by a reference written independently of the loop:
  - `LocalPicks` (RECURSIVE) repeatedly takes the lightest host with room, ties to the earlier host, and reduces its free memory;
  - `RemotePicks` takes every well-formed child entry, cooked as offset + scale × raw;
  - `Ranked` orders by (weight, position), and the answer is the first `num_instances`.
- `Schedule.tla` ends with `Abs == INSTANCE ScheduleSpec WITH ...`. The mapping takes `phase` local to busy and the pass's variables to the abstract ones.
- `ImplementsScheduleSpec` is `Abs!SafetySpec /\ Abs!Returns`. It is checked under `Schedule`'s `FairSpec`.
- The abstract `Spec` has `WF_avars(Serve)`. The property checks the leads-to this fairness implies, because TLC would otherwise enumerate every fan-out reply to decide whether `Serve` is enabled.

### `DistributedScheduler.tla`: the entry points (composes `Schedule`)

- It declares the variables of `Schedule` and uses `S == INSTANCE Schedule`. `ScheduleStep` takes the pass's own steps.
- `dphase` runs through idle, then scheduling, then provisioning, then one of these outcomes:
  - done;
  - no_valid_host;
  - not_implemented;
  - not_authorized;
  - zone_error (any other exception from the child zone, propagated);
  - decrypt_error;
  - crashed (an exception the code does not mean to raise).
- `RunInstanceFromBlob` decodes a blob made with some key. A blob made with another zone's key fails to decrypt.
- `ProvisionNext` is one iteration of the provisioning loop. `_ask_child_zone_to_create_instance` may fail with NotAuthorized, or with another exception raised before or after `servers.create` reached the child zone. `_provision_resource_locally` creates or reuses the instance record, casts `run_instance` and deletes the uuid placeholder.
- `Scheduled` is what each entry point does with the returned list.
- `Precreated` covers the caller: compute api may have created the first record before scheduling.

### `CostFunctions.tla`: `get_cost_functions`

Identifiers are character sequences, so the `startswith('<topic>_')` and `startswith('noop')` tests are modelled by what they do. The model also covers:

- a short identifier expanded to a scheduler-class attribute;
- `import_class` as membership in the set of importable paths;
- the two exceptions;
- caching only after the loop completes.

### `NovaLog.tla`: `nova.log`

- Handlers are records with an identity, so `removeHandler` and `addHandler` work as in `logging`: remove that object, or append it unless it is already there.
- `_get_log_file_path` makes `<logdir>/<binary>.log` of a logdir (`DirLog`).
- Actions:
  - `ChangeFlags` is the environment.
  - `GetLogger` runs `NovaLogger.__init__`.
  - `reset` runs every NovaLogger's `setup_from_flags`, including the root once `setup()` has run.
  - `setup` replaces the root by `NovaRootLogger("nova")`, whose `__init__` already runs `setup_from_flags`, and then calls `reset()`.
- The initial root may carry a handler attached by a library (`basicConfig`).

### `NovaFormat.tla`: a record's path through `nova.log`, with threads

- Each thread makes one call. `Call` covers the log methods (lines 202-246) and `exception()` (253-270):
  - `_update_extra` takes the `context` keyword when truthy, else the thread's `local.store.context` (`ContextOf`);
  - `isEnabledFor` drops the records below the logger's level;
  - `exception()` adds an "Environment:" error line when `extra` carries one.
- `Call` also covers the other ways a record starts:
  - `handle_exception`, which `setup()` installs as `sys.excepthook`, logs CRITICAL with a traceback only when FLAGS.verbose is set;
  - `WritableLogger.write` logs at its level, INFO by default;
  - a `logging.Logger` that is not a NovaLogger (created before `nova.log` set the logger class, and re-parented under the Nova root by `setup()` lines 397-400) logs a warning without `_update_extra`. Its record has no `instance` attribute (`HasInstance`, lines 192-197).
- `Visit` is `callHandlers`. It passes over a handler whose level is above the record's. Otherwise `Handler.handle` takes that handler's lock and calls its `emit`.
- `Publish` is `PublishErrorsHandler.emit`. It notifies with `record.msg` and never calls `format()`.
- `NovaFormatter.format` is split into steps, because native threads may switch between them:
  - `SetFmt` is lines 287-291;
  - `ReadFmt` and `WriteFmt` are the two halves of `self._fmt += suffix` (293-295);
  - `Format` is 297-300, followed by the emit and the lock release. Both format strings name `%(instance)s`, so a record without that attribute raises KeyError, which emit passes to `handleError`, and no line is written.
- `_fmt` lives on the one `_formatter` that `addHandler` gives every handler.
- A format string is abstracted to its base (context or default) and the number of debug suffixes it carries.

### `Migration049.tla`: migration 049

- `upgrade` is `create_column`. It raises when the column exists.
- `downgrade` is `drop_column`. It raises when the column does not exist.
- `RecordVersion` is sqlalchemy-migrate writing the version row after the script returns.
- `Interrupted` is the process stopping between the DDL, which commits by itself, and that write.

### MC modules

`MCSchedule`, `MCDistributedScheduler`, `MCNovaLog`, `MCCostFunctions` and `MCNovaFormat` give the constants their values:

- hosts, zones, blobs and keys are model values;
- names and identifiers are short character sequences;
- negative weights are definitions, since a .cfg cannot hold them.

## Runs

| Run | Cfg | Expect | What it shows |
|---|---|---|---|
| schedule_pass | MCSchedule.cfg | pass | Consumption prevents overcommit; every well-formed child entry is merged with its cooked weight; the result is the `num_instances` cheapest candidates in stable order. Under `FairSpec` the pass implements `ScheduleSpec` |
| schedule_distinct_hosts | MCScheduleDistinct.cfg | violation | One request puts two instances on the same host when the host is still cheapest after consumption (spec says distinct hosts) |
| driver_entry_points | MCDistributedScheduler.cfg | pass | Every `run_instance` cast names its own instance record, whether or not the first was precreated and however remote and local picks interleave; a blob plan is committed as planned. The casts and child-zone creates are exactly the popped prefix of the plan, also when a child zone fails part-way. A malformed entry in a child reply does not cost the entries after it |
| prep_resize_remote_candidate | MCPrepResize.cfg | violation | `schedule_prep_resize` raises AttributeError when a child-zone entry sorts first |
| log_root_handlers | MCNovaLogRoot.cfg | pass | Over any FLAGS changes, `getLogger`, `reset()` and `setup()` calls, no handler kind is attached twice. After a reset the syslog and stderr handlers and the root level follow FLAGS, and every NovaLogger has the level default_log_levels gives it. For the configuration FLAGS hold, the `startswith` test agrees with a reference that splits names at dots, for the names a, a.b, a.bc and a.b.c |
| log_file_handler_lost | MCNovaLogFileLost.cfg | violation | logfile on, then off, then on again with `reset()` leaves no file handler |
| log_publish_duplicated | MCNovaLogPublishTwice.cfg | violation | `setup()` attaches two PublishErrorsHandlers and each `reset()` one more |
| cost_function_cache | MCCostFunctions.cfg | pass | Whatever calls for either topic came before, each call returns, from the cache or not, what resolving the configuration gives, or raises the error of the first identifier that fails |
| format_handlers | MCNovaFormatHandlers.cfg | pass | Two threads log through the logger methods, `exception()`, the excepthook and `WritableLogger` to the stderr handler and the error publisher. Every record reaches exactly the handlers whose level admits it |
| format_shared_formatter_race | MCNovaFormatRace.cfg | violation | Two threads on the stderr and file handlers format a line with the other record's format string |
| format_plain_logger | MCNovaFormatPlain.cfg | violation | A warning from a logger that is not a NovaLogger reaches the stderr and file handlers and neither writes it |
| migration_interrupted | Migration049Interrupted.cfg | violation | An upgrade stopped after `create_column` leaves version 48 with the column, and every retry of `upgrade()` raises |

Each property of a passing run has a mutant in `PROJECT.json`: a plausible bug in the mapped code that TLC shows the property catches.

### Findings

1. **`_schedule` lines 324-348.** The per-instance loop does not exclude hosts already chosen. With free memory 3, 1, 1 and two instances needing 1, the first host is picked twice. `spec.md` claims the hosts are distinct.
2. **`schedule_prep_resize` line 146.** `hosts.pop(0).host_state.host` fails for a child-zone candidate. `_schedule` includes those unless `local_zone_only` is set, and their weights are offset and scaled, so they can sort first.
3. **`NovaRootLogger.setup_from_flags` lines 339-352.** When logging to a file is turned off, the handler is removed but `self.logpath` is kept. Turning the same file back on is then a no-op.
4. **`NovaRootLogger.setup_from_flags` lines 359-360.** A new PublishErrorsHandler is added on every call and never removed. `setup()` makes two calls, and every `reset()` adds one more.
5. **`NovaFormatter.format` lines 287-295.**
   - `self._fmt` is written on the one formatter that every handler shares.
   - Only the emitting handler's lock is held.
   - In the trace, thread 1 holds the stderr lock and sets the default format, then thread 2 formats its request-context record on the file handler with that format. The line loses its request_id.
   - The same race can double or drop the debug suffix.
   - It needs native threads, such as eventlet's `tpool` or a binary that does not monkey-patch `threading`. Green threads do not switch inside `format()`.
   - When the context string ends up on `_fmt` for a record without a request context, formatting raises KeyError on `request_id` and `handleError` drops the line instead.
   - The race needs two handlers that format the same kind of record. The error publisher does not format, so stderr plus the publisher is safe. A single handler's own lock serialises its `format()` calls.
6. **Migration 049 line 35.**
   - `upgrade()` does not check whether the column exists, and it re-raises every failure.
   - A run stopped between the committed ALTER TABLE and sqlalchemy-migrate's version update leaves version 48 with the column. Every later upgrade then raises "progress column not added".

7. **`NovaFormatter.format` line 300, with `setup()` lines 397-400.**
   - Both default format strings name `%(instance)s`. Only `NovaLogger._update_extra` puts `instance` in a record.
   - `setup()` re-parents every existing `logging.Logger` under the Nova root, including loggers that are not NovaLoggers because they were created before `nova.log` set the logger class. Their records propagate to the root's handlers without any extra.
   - `logging.Formatter.format` then raises KeyError on `instance`. The stream and file handlers' `emit` hands the record to `handleError`, so the message is lost and a traceback goes to stderr instead.

## Bounds

- **Schedule:**
  - 3 hosts with free memory 0..2, which is enough for one host to take two instances of a request;
  - needs of 1 or 2, and up to 3 instances, so that one host can be picked twice in a pass and a third pick still follows;
  - 2 child zones, with replies of at most one entry (the driver run has two, see below) drawn from missing or present keys, raw weights {0, 2} and scales {1, 2}. Child entries can then tie with, beat or lose to local picks.
  - The distinct-hosts run uses free memory up to 3, the smallest bound at which a host stays cheapest after one consumption.
- **DistributedScheduler:**
  - 2 hosts and 1 zone, whose reply holds up to 2 entries, so that a KeyError on one entry is followed by another entry of the same reply;
  - raw weights {-3, 0}, so a child entry can sort before local hosts;
  - 2 keys, so a blob can fail to decrypt;
  - up to 3 instance records.
- **NovaLog root run:**
  - 1 logdir, so that a log file comes and goes, and the path join of `_get_log_file_path` is exercised;
  - every FLAGS combination;
  - up to 6 handler objects created (the named bound `MaxHandlers`, a guard on the steps that create a handler), which allows setup followed by several resets; a step past the bound is cut off, not skipped;
  - the logger a.b.c, with default_log_levels either empty or ["a=WARN", "a.b=DEBUG"], so that a later pair overrides an earlier one and a FLAGS change moves the logger's level;
  - the level rule is compared with the reference for a, a.b, a.bc and a.b.c under both configurations, which covers the dot rule, an ancestor, and a prefix that is not an ancestor.
  - The file-handler and publisher runs use 1 logfile and 1 logdir with no named loggers.
- **CostFunctions:** configurations of up to 3 identifiers over qualified and short, importable and not, and with and without a weight flag, for two topics.
- **NovaFormat:**
  - 2 threads, which is enough for one thread to switch in between another's steps;
  - the stderr and file handlers at NOTSET and the publisher at ERROR. The handler-delivery run attaches only the stderr handler and the publisher, so that a record is formatted by one handler and a line dropped by a KeyError is not hidden by another handler's copy;
  - `debug`, `audit` and `exception` with and without a context keyword and an environment, the excepthook and `WritableLogger.write`. These cover a record below INFO, at INFO and just above it, ERROR with one or two lines, and CRITICAL with or without a traceback.
  - An empty context dict takes the same path as no keyword, so it is not enumerated.
  - The plain-logger run has one thread, one warning from a logger that is not a NovaLogger, and the stderr and file handlers.
- **Migration049:** the whole state space is small. The run only needs the path upgrade, then interruption.

The passing runs each finish in about a minute or less.

## Fairness

- **`Schedule.FairSpec`** is weak fairness on `PickHost` and `FinishLocal`. Once a pass has started, these steps are the rest of one sequential Python call, which nothing in it blocks. The request itself (`StartSchedule`) is not fair, because a caller may never come.
- No fairness is assumed for the driver or for the logging threads. The child-zone client at `distributed_scheduler.py:221` has no timeout, and `PublishErrorsHandler.emit` calls the notifier while it holds the handler lock, so that nothing in this code makes those calls return. The properties of these runs are safety properties.

The scheduler runs set `CHECK_DEADLOCK FALSE` because a model covers one call, which really stops when it returns. The NovaLog runs keep deadlock checking, since FLAGS changes and calls can always continue. The NovaFormat runs set it to FALSE, because threads stop after their call. Migration049 can always run one more step, so its run keeps deadlock checking.

## Not modelled, and why

- **Child-zone calls that never return (line 221).** `novaclient.Client` is created without a timeout, although `spec.md` 4.6 says zone calls carry one. The model takes each call as one step that succeeds or raises. Whether a call returns depends on the HTTP library, not on this code, so no liveness is claimed for the provisioning loop.
- **Text:** `formatException` and the wording of messages. `handle_exception`, `WritableLogger.write` and `PublishErrorsHandler.emit` are modelled by the records they log (level, exc_info, the handler that takes them), not by their text.
- **Unknown or lowercase level names in `default_log_levels` (line 172).** `globals()[level_name]` raises KeyError for an unknown name. A lowercase alias such as `debug` resolves to the module's `logging.debug` function, which `setLevel` rejects on Python 2.7 and which silences the logger on 2.6. `NovaLog` enumerates only names that map to numbers. A configuration that checks the failure needs a run of its own.
- **`setup()` removing handlers while iterating `logging.root.handlers` (lines 391-392).** This skips every second handler. The old root is unlinked right after, so only code that kept a reference to it would see the handlers that stay.
- **The module-level `audit()` before `setup()` (line 412).** Before `setup()`, `logging.root` is the standard RootLogger, which has no `audit` method. `NovaFormat` starts from a configured root, and no code under `src/` calls `audit()`.
- **The rootwrap tests:** they test code that is not in this repository, and `spec.md` excludes them.
- **Child-zone scheduling:** each child zone is a nondeterministic reply, not a recursive scheduler.
- **Resources other than memory, and filters other than RAM.**

## Plan for later work

1. **`Federation.tla`.** A parent, a child and a grandchild zone, each an instance of `DistributedScheduler`. `select` replies carry encrypted blobs that `schedule_run_instance` in the child decodes. It checks end to end that an instance is created where the parent's plan put it, and never twice.
2. **Concurrent requests on separate snapshots.** Two passes whose consumption is not shared, to show cross-request overcommit. `spec.md` leaves this to the compute host.
