# TLA+ models of fortigate-mcp-server

The server lets an MCP client read and change FortiGate firewalls.  Nothing is
written to a device directly: a client first asks for a *preview* of a change,
then *applies* it by its id, and may later *roll it back*.  These modules model
that machinery, everything else in the server that keeps state between awaits,
the way a call takes down to the device, and what the analysis tools conclude
from what they read.  TLC checks them on small instances, and TLAPS proves the
theorems listed below for every instance.

Paths are relative to `src/`; `S/` stands for `src/fortinet_mcp/` and `G/` for
`src/fortigate_mcp/` below it.

## 1. Inventory

| Component | Source | State it keeps | Operations | Hard behaviour |
|---|---|---|---|---|
| ChangeService | `S/services/change_service.py`, tables in `S/infra/models_orm.py` | `ChangeRecord` rows (status, before, after, expiry), `PolicySnapshot` rows; one ORM session per call | `preview`, `apply`, `rollback` (`list_pending`, `history` read) | every call spans several awaits: device requests and commits; status is read at the start and written at the end, with no lock |
| Change dispatch | `S/services/change_dispatch.py` | none (a table) | `fetch_current`, `execute`, `list_all` | errors of a GET become `None`; some types have no getter |
| Mode policy | `S/services/mode_policy.py` | the mode, fixed at process start | `check` | different processes may run in different modes on one database |
| Thin services | `S/services/{policy,network,routing,vip,vpn,system,vdom}_service.py` | none | one `preview` per mutating method, and reads | which types and operations they offer must be ones `execute` knows |
| Device resolution | `S/services/device_resolution.py`, `S/infra/device_resolver.py` | none (reads the inventory and the legacy manager) | `resolve_adapter`, `resolve` | looked up again at each step of a change |
| Connection manager | `S/infra/connection_manager.py`, `S/mcp/tools/connection_tools.py` | a dictionary of sessions, each with an open client | `get_session`, `disconnect`, `disconnect_all`, `evict_idle` | check, await, act on the dictionary |
| Legacy manager and client | `G/core/fortigate.py` | a dictionary of devices, each with a client | `add_device`, `remove_device`, `test_all_connections`, `close_all`; `_make_request` and a method per endpoint | iteration and deletion across awaits; requests lost or served late |
| Inventory | `S/repositories/inventory_repository.py`, `S/mcp/tools/inventory_tools.py` | customer, site, device and VDOM rows | register, remove | get-or-create under concurrency, unique names |
| Credentials, CLI, migration | `S/infra/credential_manager.py`, `S/cli/cred.py`, `S/infra/migration.py` | the keyring, shared by processes | set, get, delete; migrate once | two stores (keyring, database) without a transaction |
| Fleet service | `S/services/fleet_service.py` | none | plan and push over many devices | partial failure, a plan recomputed at confirmation |
| Policy analysis | `S/domain/analysis/*.py` | none (pure) | any-any, shadowed, duplicate, overlap, unused, scoring | order and containment at the boundaries |
| Diff, comparison | `S/domain/diff.py`, `S/domain/fleet_compare.py` | none (pure) | `diff`, compare | nested dictionaries |
| FortiOS adapter | `S/adapters/**` | none | one method per REST endpoint | four tables that must fit together |
| Analysis, intent, documentation services | `S/services/{analysis,intent,documentation}_service.py`, `S/docsgen/*` | none | reads, formatting; a policy created by intent | names resolved by case and default |
| Servers, tools, configuration, logging, formatting | `G/**`, `S/mcp/tools/*` | none | wiring and layout | none |

How they interact: a tool calls a thin service; its mutating methods call
`ChangeService.preview` with a resource type, an operation and data.
`change_apply` and `change_rollback` call `ChangeService` directly.  All three
ask device resolution for an adapter, which comes from the inventory and the
connection manager or from the legacy manager, and the adapter sends HTTP
requests with the manager's client.  `ChangeRecord`, `PolicySnapshot` and the
inventory are tables of one SQLite database, which several server processes
(stdio and HTTP, in any mode) and the CLI share; so is the keyring.

Within a process everything runs on one event loop: calls interleave at
awaits and nowhere else.

What makes each component correct:

* *ChangeService*: only what the mode permits is carried out; the record never
  claims what did not happen; a change is carried out at most once, on the
  state that was previewed, within its TTL; a rollback restores that state;
  every proposed change is resolved in the end.
* *Connection manager, legacy manager*: an open client has an owner that will
  close it; no call uses a client somebody closed; what was removed stays
  removed.
* *Adapter and client*: a request reaches the resource it names, in its VDOM,
  at most once.
* *Inventory and credentials*: names are unique; a credential has a device; a
  target stands for the device it names or for none.
* *Fleet service*: what is reported is what was done, device by device.
* *Analysis*: a finding means what its documentation says about traffic.

The places where each of these could go wrong are the "hazards" of
`PROJECT.json`, each at its line, with the properties aimed at it.

## 2. Plan

1. `ModePolicy`, `ChangeDispatch`, `ChangeRequests`, `ChangeEngine` with its
   abstract specification `ChangeLifecycle` -- *done*.  Proofs:
   `ChangeEngineProofs`, `ChangeRefinementProofs` -- *done*.
2. `ConnectionManager`: session cache against the inventory, the keyring and
   overlapping connects and disconnects -- *done*.  Proofs: `ConnectionProofs`
   -- *done*.
3. `LegacyManager`: `FortiGateManager` under overlapping add, remove, close --
   *done*.  Proofs: `LegacyManagerProofs` -- *done*.
4. `Inventory`: rows, unique names and credentials together, with crashes
   between the two stores, and the migration; `DeviceResolver` over its rows --
   *done*.  Proofs: `InventoryProofs` -- *done*.
5. `FleetSync`: plan, confirmation, partial failure over many devices --
   *done*.  Proofs: `FleetSyncProofs` -- *done*.
6. `DeviceEndpoints`, `DeviceClient`, `DeviceApi` with its abstract
   specification `ResourceStore` -- *done*.  Proofs: `DeviceApiProofs` -- *done*.
7. `PolicyAnalysis`, `ObjectAnalysis`, and `PolicyReview`, which confronts them
   with packets -- *done*.  Proofs: `AnalysisProofs` -- *done*.
8. Every invariant, action property and refinement the passing runs check is
   proved as well; what is left to TLC is at the end of section 12.

None of these modules declares a RECURSIVE operator, so each can be proved
about; parameters are CONSTANTS, with a named assumption where one is needed.

## 3. The modules of the change machinery

`ModePolicy` is the gate of `mode_policy.py`.  `ChangeDispatch` is the table
`_RESOURCE_OPS` reduced to what control depends on: which verbs a type has,
which types are singletons, and which have no getter.  `ChangeRequests` lists,
service by service, the (type, operation) pairs that the mutating methods pass
to `preview`.  `ChangeEngine` extends them:

| Variable | Stands for |
|---|---|
| `mode` | the `ModePolicy` of each server process |
| `now` | `utcnow_naive()` |
| `binding` | the device that `resolve_adapter(device_id)` would find, `None` when it raises |
| `store` | the configuration of the devices: a value for each device, type and key |
| `record` | the `ChangeRecord` rows; status `absent` is no row, `draft` a row built by `preview` whose commit has not happened |
| `snapshots` | how many `PolicySnapshot` rows each change has |
| `call` | the tool calls in progress: where each is suspended, its process, its change, and the dirty attributes in its ORM session (`resource_id`) |
| `hist` | history, read by properties only: how often the device carried the change out and undid it, the state it replaced, whether somebody wrote the resource between drift check and request, whether an answer or a commit was lost |

Each action is the code between two awaits:

| Action | Code |
|---|---|
| `PreviewFetch`, `PreviewInsert` | `preview`: mode check, adapter, `fetch_current`, new row; its commit |
| `ApplyLoad`, `ApplyExpired`, `ExpireCommit` | `apply`: load, status, TTL, mode; an elapsed TTL commits `expired` and raises |
| `ApplyFetch` | adapter again, `fetch_current`, drift check |
| `ApplyExecute` | `execute` on the device; `mkey` of its answer becomes `resource_id` |
| `ApplyCommit` | status, `applied_at`, snapshot, commit |
| `RollbackLoad`, `RollbackExecute`, `RollbackCommit` | `rollback` |
| `Rejected` | the device or the dispatch table refuses; the exception ends the call |
| `Cancel`, `Crash` | the client disconnects or a commit raises; a process dies and restarts in any mode.  The session's uncommitted work is gone |
| `Edit`, `Rebind`, `Tick` | administrators work on the device; `device_id` comes to name another device or none; time passes |

A call refused by a check (wrong status, forbidden mode, drift) changes nothing
but itself.  A call of `apply` refused at once is therefore no action; a call
refused later ends.

The operators named after a bug (`DriftedNever`, `UndoableAgain`,
`ApplyCommitNoSnapshot`, ...) stand before the definition they are a broken
form of; `PROJECT.json` pairs each with the property that notices it.

`ChangeLifecycle` is what a client is promised: absent, proposed, then applied
or expired, and after applied perhaps rolled back, where applying and
recording are one step.  `ChangeEngine!Lifecycle` is the refinement mapping; a
change whose request was answered counts as applied while its commit is on its
way.

## 4. The modules of the connections

`ConnectionManager` is one server process's cache of device sessions, with the
inventory and keyring it reads and the credential CLI, which is another
process.

| Variable | Stands for |
|---|---|
| `inventory`, `keyring` | the devices that have a row, and those whose credential has a secret |
| `sessions` | `_sessions`: for each device and VDOM the client of its cached session |
| `client` | every `FortiGateAPI` made: its state and what it was made for |
| `idle` | the keys whose `last_used_at` is older than the idle timeout |
| `call` | the calls in progress: device rows they loaded, clients they were given, what they build, what they have yet to disconnect |
| `evicted` | clients of the sessions `evict_idle` returned, which nobody has closed yet |
| `raced`, `forsaken` | history: clients made while another call made one for the same device and VDOM; clients whose probe was cancelled |
| `left` | history: removed devices that have a credential again, or still |

| Action | Code |
|---|---|
| `Resolve` | `resolve_target`, `list_all_devices`, the first half of `connect`: rows are loaded and outlive their database session |
| `Reuse`, `Build`, `ReadSecret`, `SecretGone`, `ProbeOk`, `ProbeFailed` | `get_session` and `_build_session`: the cache is looked up; `is_provisioned`; `resolve` and the client; the probe; the cache is written |
| `Disconnect`, `DisconnectDevice`, `DisconnectKey`, `Disconnected` | `connection_disconnect` over `disconnect` |
| `DisconnectAll`, `AllKey`, `AllEnds` | `disconnect_all` |
| `Age`, `EvictIdle` | time, and `evict_idle`, which takes sessions out and returns them open |
| `CloseEvicted` | the closing that the caller of `evict_idle` is to do, one client at a time; the repository has no such caller |
| `RemoveRow`, `RemoveSecret` | `inventory_remove_device` |
| `CliSet`, `CliDelete` | `fortinet-mcp-cred` |
| `Cancel`, `Finish` | a call is cancelled at its await, or returns |

`is_provisioned` and `resolve` have no await between them, so only the CLI gets
in between (`AtAwait`).  Two connects for one device and VDOM may overlap, and
then the later session replaces the earlier (section 11).  The properties do
not assume that away: they say of every interleaving that the cache is right,
and that a client without an owner is one that such an overlap, `evict_idle` or
a cancelled probe left behind.  The histories tell which client that is.

`LegacyManager` is the registry `resolve_adapter` asks first: `devices`,
`client`, `call` and two history variables, `cut` (clients that close_all
closed or whose removal was cancelled) and `raced` (removals that another
removal of the same device overlaps).  `Add`, `Remove`, `RemoveClosed` and
`Removed` are `add_device` and the two halves of `remove_device`, which does
not wait when the client is closed already; `CloseAll`, `CloseNext`,
`CloseEnds` are `close_all`, whose iteration ends with RuntimeError when the
dictionary has changed its size.  When two removals of one device overlap, the
second takes the device out at once, and the first raises KeyError or takes out
a device added in between, whose client stays open.  The model has these
overlaps, and the properties say what they can do and that nothing else does
it.

In both modules an HTTP client counts as closed from the moment `aclose()` is
called: httpx marks it closed before it waits for its connections to end.

## 5. The module of the fleet service

`FleetSync` is `fleet_sync_objects` and `fleet_replicate_config`, the two
operations of the fleet service that write.  They do not go through previews:
`confirm` decides whether the plan is returned or carried out at once.

| Variable | Stands for |
|---|---|
| `config` | the objects each device holds |
| `call` | the calls in progress or ended: the request, the destinations still to come (`todo`), the current one, the resource types still to come, `source_items`, `missing`, and the `results` so far (`created`, `failed`) |
| `report` | what a call will return: an entry for each destination and type, an error for each destination it could not connect to |
| `deleted` | history: which object was deleted by hand from which device |
| `hist` | history: what each call created where, which plans its client had been shown for the same request, who has changed a configuration since it began |
| `mishaps` | how many unfortunate events there have been |

| Action | Code |
|---|---|
| `Sync`, `Replicate` | the call begins, its targets resolved and connected; `replicate_config` checks the mode here, and drops the destinations with the name of the source (`Others`; the test sits in the loop, but depends on nothing that changes) |
| `NextDevice`, `Unreachable` | `get_session` for the next destination, or its error in the report |
| `ListFails` | `list_all` has no method for the type: an error of the type, or of the whole `sync_objects` |
| `ListSource`, `ListDest` | the two awaits of `list_all`; after the second a plan is reported, and `sync_objects` checks the mode |
| `Created`, `CreatedUnheard`, `CreateFails` | one `execute`: carried out; carried out but the answer is lost; refused, or never arrived.  Each goes into `results` |
| `TypeDone`, `DevicesDone` | the loops end |
| `Abort`, `AbortCreated` | an exception nobody catches, or a cancellation, also while the device creates something; there is no report |
| `Edit` | administrators and `ChangeService` write to a device meanwhile |

An object stands for a name together with its content: two objects of one type
and name are variants, of which a device has at most one.  Static routes have
no name, and `item.get("name")` is `None` for all of them (`Unnamed`).  A listing
whose answer is no JSON comes out empty (`Listings`): the adapter turns it into
`{"status": "success"}`, in which there are no `results`.  The order of
`missing` and of the destinations is left open.  A report of the code carries
the names of devices; the model's has their identities, so that two devices of
one name are two entries.

## 6. The modules of the device API

A change, a listing or a query goes through four tables before it is an HTTP
request.  `DeviceEndpoints` holds three of them: `Methods` (`_RESOURCE_OPS` with
its method names), `Signature` (what arguments the adapter's methods take) and
`Forward` (the client method each adapter method calls).  `DeviceClient` holds
the fourth: `Endpoint`, the verb, path, key and body of each method of
`FortiGateAPI`, and whether the caller's VDOM is handed on.  `DeviceApi`
composes them:

| Variable | Stands for |
|---|---|
| `config` | the device: the content at each path, VDOM and key, as far as it differs from the factory state |
| `call` | what each caller is doing: its request, its answer, what it was told |
| `late` | by slot, requests nobody waits for any more, which the device may still serve, in any order |

| Action | Code |
|---|---|
| `Dispatched` | `list_all`, `fetch_current`, `execute` up to `_make_request`; a verb the type does not have, or a fetch without an id, ends here |
| `Query`, `Probe` | the adapter methods services call directly; `test_connection` |
| `Serve`, `ServeLate` | FortiOS: global and per-VDOM tables, settings, keys it assigns, 404, refusals; a POST without a body is refused, a PUT without one refused or ignored |
| `Receive` | `_make_request` after the answer: the status, the JSON or the lack of it; then `unwrap_list`, `unwrap_single`, `extract_created_resource_id` |
| `NetworkError` | `httpx.RequestError`: the request was lost, was served, or still will be |

`_make_request` puts an id into the path as it is and drops an empty body
(`Body`).  `Ids` are therefore texts that are one path segment as they are; an
id with a `/` or a `?` in it would name another resource, and is outside the
model.

`ResourceStore` knows no paths, methods or status codes: a request names a
resource by type, VDOM and id, takes effect at most once and on nothing else,
and its caller is told what happened, that it failed, or nothing.  `PathOf` and
`StoreOf` are the refinement mapping.  It is what `ChangeEngine` and `FleetSync`
take a device to be.

## 7. The modules of the inventory

`Inventory` is the database and the keyring under three kinds of actor: the
tools that register and remove devices, `infra/migration.py`, and the
credential CLI.  A statement to SQLite is a step; SQLite's write lock goes to
the first session that writes and stays with it until it ends.

| Variable | Stands for |
|---|---|
| `customers`, `sites`, `devices` | the committed rows |
| `writer`, `draft` | the session that has the write lock, and what it has written |
| `session` | each actor's place in its handler, and what it has found out |
| `imported` | the migration's loop: the devices still to come, and the ones it takes to exist |
| `secrets` | the keyring |
| `hist` | history: what was registered, removed, cut off, rolled back, written without a row, deleted by hand, migrated |

| Action | Code |
|---|---|
| `Register`, `FindCustomer`, `InsertCustomer`, `FindSite`, `InsertSite`, `FindDevice`, `InsertDevice`, `CommitRegistration` | `inventory_register_device_pending` over `register_device_pending`, a step for each SELECT, flush and commit |
| `Remove`, `RemoveCheck`, `RemoveFlush`, `RemoveCommit`, `RemoveSecret` | `inventory_remove_device`; the keyring comes after the commit |
| `Migrate`, `ListExisting`, `ImportNext`, `ImportSecret`, `CommitMigration` | `migrate_config`, unless the configuration lists no devices, with the same steps for customer, site and devices in between; secrets are written as it goes, rows committed at the end |
| `FlushFails` | a unique index is violated, or the lock is not to be had in time |
| `CliSet`, `CliDelete` | `fortinet-mcp-cred`, for the id of any device there is or was, or a mistyped one (`Given`, `NoRow`) |
| `Cut` | a call is cancelled, a process dies, the keyring refuses |

`DeviceResolver` extends it with the eight tests of `resolve`, in their order,
over the committed rows.  Every inventory the actors can produce is thus an
input of the resolver.

## 8. The modules of the analysis

`PolicyAnalysis` translates `domain/analysis` except `overlap.py`, which is in
`ObjectAnalysis` with `domain/diff.py` and `domain/fleet_compare.py`.  They are
functions.  `PolicyReview` gives them their inputs: a policy table, address
objects and settings that administrators, and callers of
`IntentService.create_policy`, edit.  FortiOS is what they are measured by: the
first enabled policy that matches a packet decides, otherwise the packet is
denied.  `Packets` range over interfaces, addresses, services and two times of
day; addresses are numbers, subnets aligned blocks of them.  `Matches` is
FortiOS idealised: it has no negate flags (`srcaddr-negate` and the like) and
no users and groups, which the code does not look at either, and it takes the
same names as wildcards as the code (`IsWildcard`).  What the run says of
deleting policies is said of policies without those.

## 9. Runs

| Run | Instance | Shows |
|---|---|---|
| `ChangeFaults` | one change, one call at a time, all six faults, two devices, two contents | the mode gate holds through restarts; every repetition follows a lost answer, a cancellation or a crash; an update or delete meets exactly the state previewed unless somebody writes between check and request; a rollback of an update restores it; no change stays proposed for ever under a client that keeps applying it |
| `ChangeConcurrent` | two overlapping calls on one change, lost answers, edits, two keys | overlapping applies, rollbacks and expiries overwrite each other's status, yet the record never claims what did not happen, and `applied_at` is within the TTL |
| `ChangeRefinement` | two changes on one key or of a singleton, two calls, edits, serial callers | `ChangeEngine` implements `ChangeLifecycle` when nothing is lost and clients await their answers |
| `Connections` | two calls on the two VDOMs of one device, three clients, every event | the cache never holds a closed client or one made for another key; an open client has an owner or lost it to an overlapping connect, to `evict_idle` or to a cancelled probe; a disconnect leaves none of the sessions it was asked to close in the cache; nobody connects to a removed device |
| `LegacyRegistry` | three calls, two devices, four clients | an open client leaves the registry only at the end of a removal that another overlapped; every removal rids the registry of the client it closed; a registered client is closed only for a reason |
| `FleetSync` | two calls, four devices of which two share a name, named and unnamed objects, one mishap | only confirmed calls outside read_only write, only what and where they were asked to, and never to their own source; what is reported is what was created; after a copy nothing listed is missing by name except what is reported failed or was deleted; a confirmed call does what its plan announced unless somebody else wrote |
| `DeviceApi` | all 20 resource types and every adapter method, two callers, two ids, two contents and the empty body, two VDOMs, two late requests | whatever tables, paths and parameters a call goes through, it is one request to a store of resources; success is told only of what was done |
| `Inventory` | two overlapping registrations or removals, two runs of the migration, the CLI, two customers of which one has a name devices begin with | names stay unique; what was registered or migrated is there; a failed call leaves no rows; a secret without a row has one of three reasons; `resolve_one` does not guess |
| `PolicyReview` | up to four policies of seven kinds, six more address objects, three states of the settings, three intents, three edits, every packet | deleting what is reported shadowed or duplicate changes no verdict; `find_path` agrees with the diagnosis and with the device; overlaps and comparisons are exact; the score moves for a reason |

Three more runs each refute a comment, a tool description or a test (section 11).

## 10. Bounds and fairness

Bounds.  `Count` saturates at two, because every property distinguishes none,
one and more.  `TTL` is one tick and `MaxTime` zero: the clock runs only while
a proposed change is unexpired, so it always reaches the moment of expiry and
one tick beyond, which is where the comparisons `>` and `<=` differ; it may run
further than `MaxTime` while another preview is pending.  One change suffices
where properties speak of one change; two overlapping calls give every pair of
calls, and the second change in `ChangeRefinement` writes the same key.  Two
contents tell *same* from *different*; `Data`, `Calls` and `Changes` are
interchangeable and declared symmetric where no liveness is checked.
Three clients let a second connect, and a third after the first was closed,
meet whatever the first left; two calls are a race, and in `LegacyRegistry` a
third adds what two removals could confuse, with a client for each device and
two to add.  In `FleetSync` the two calls are a
plan and its confirmation, or two copies at once; the four devices are a source,
one that lacks everything, one of the source's name with a variant of its
object, and one that already has a route; `MaxMishaps` is one, because each
property either survives any single lost answer, edit or failure, or excuses it
by name.  The requests include confirmations in each of the three modes, a type asked for
twice, and a type that cannot be listed.
In `DeviceApi` two callers, or a caller and a late request, or two late requests
(`MaxBusy`, `Slots`) meet on one type (`Contended`), and each type is used by a
caller alone: resources of different types share no path, which the run
itself establishes, so what two callers can do to each other shows on one.
`MaxRows` is one written resource at a time; two VDOMs tell a request that
names its VDOM from one that does not.  In `Inventory` two calls are a race for
one name, or a registration against a removal, each against a migration, whose
second run finds what the first left; the second customer gives two devices
one name.  Three calls (four million states) show nothing more.  In
`PolicyReview` three edits of a table of two put a policy between two others,
disable one, or redefine an object under one, and the kinds of policy include a
scheduled one, one for internet services and copies.
`CHECK_DEADLOCK FALSE`: when all changes are resolved and there are no
faults left, all HTTP clients of the bound are used up, or the calls and edits
of the bound are made, there is nothing to do, and the system rightly stops.
`DeviceApi` never stops, and is checked for deadlock.

Fairness, used by `EventuallyResolved` only.  `WF(Tick)`: time passes.
`WF(Proceed(k))`: a call in progress goes on, because the HTTP client has a
timeout (`G/core/fortigate.py`) and SQLite answers or raises; the answer may
be an error (`Rejected`) each time.  `WF(Apply(c))`: the client keeps calling
`change_apply`.  This is an assumption about the client and not about the
server, which has no timer of its own: without such calls a proposed change
stays in the table, expired in effect but not in status.  Nothing is assumed
of `Edit` and `Rebind`, nor of `Crash` and `Cancel` but for one thing, the
premise of `EventuallyResolved`: they do not cut off the commit that records an
expiry (`ExpiryCut`) again and again for ever.  `ChangeFaults` checks it with
the other properties of that run, under every fault.

## 11. Findings

Each is a run whose property is what the repository says and TLC refutes.

| Run | The repository says | The code does |
|---|---|---|
| `ClaimAppliedOnce` | `tests/test_fortinet_change_service.py:120`: the second apply raises ChangeAlreadyResolved | two overlapping applies both read `proposed`; the device carries the change out twice |
| `ClaimSkipsItself` | `S/services/fleet_service.py:215`: skip replicating a device onto itself if it is in the resolved scope | the names are compared, and names are unique within a site only (`S/infra/models_orm.py:72`): a device of another site with the source's name is neither written to nor mentioned |
| `ClaimModesBlock` | `S/mcp/tools/fleet_tools.py:67`: a confirmed sync is still blocked by READ_ONLY/SAFE mode | the check (`S/services/fleet_service.py:165`) is for creating, which SAFE permits (`S/services/mode_policy.py:46`): the objects are created |

Met while modelling, and left without a run of their own:

* Of several unnamed objects `fleet_service` copies all when the destination
  has none, and none when it has one.  `CopyComplete` speaks of named ones.
* A resource type given twice to `fleet_replicate_config` leaves only the
  results of its second pass in the report; hence `Repeats` in
  `ReportMatchesDevices`.
* `docs/USAGE.md:50` says that after a fresh preview the old change id would be
  rejected.  It is applied, as long as it is proposed and the device unchanged.
* `S/infra/connection_manager.py:129` asserts that the secret is there; the CLI,
  another process, may delete it after `is_provisioned` looked
  (`ConnectionManager!SecretGone`).
* `README.md:126` says that in mode safe delete operations are rejected.
  `rollback` of a create sends a delete and never looks at the mode.
* `docs/USAGE.md:9` says that `change_apply` refuses if the device's state changed
  in between.  A type without a getter (`vdom`) compares `None` with `None`.
* `S/mcp/tools/connection_tools.py:45` says that a connect reuses a connection
  that is already open.  Of two overlapping connects the later replaces the
  open session of the earlier, which nobody closes.
* `G/core/fortigate.py:647` says that `remove_device` removes a device and closes
  its connection.  Of two overlapping removals the one that resumes last takes
  out a device added under the id in between, and its connection stays open.
* `S/domain/analysis/shadowed.py:2` says that a covered policy "can never actually
  fire".  The code does not look at the earlier policy's schedule, nor at fields
  that are empty (a policy for internet services); hence the two exceptions in
  `CleanupKeepsVerdicts`.
* `S/domain/analysis/duplicate.py:2` says that removing either of two duplicates
  has no effect.  It has none for the later one; removing the earlier lets a
  policy between them decide, and a disabled copy counts as one.
* `S/domain/analysis/system_config.py:10` says that a missing field degrades to
  "can't verify".  A failed read of a setting is reported as a setting that is
  wrong, and a failed read of the SNMP settings hides a weak community, which
  raises the score.
* The candidates an ambiguous target is answered with are device names: of two
  devices of one name the list has one entry.  Devices of several customers'
  sites of one name are returned together.  Names are unique by exact text and
  looked up regardless of case.
* `fetch_current` takes the `{"status": "success"}` that stands for an answer
  without JSON for the resource itself; `update_ssl_vpn_settings` is called by
  no service.

## 12. Proofs

`ChangeEngineProofs` proves, for any sets of servers, calls, changes, devices,
types, keys and contents, any TTL and any set of faults:

* `TypeCorrect`, `PermittedOnly`, `InTime`, `Backed`, `OnceUnlessUnsure`: the
  invariants `TypeOK`, `ApplyPermitted`, `AppliedInTime`, `ResolvedIsBacked`
  and `RepeatedOnlyIfUnsure` of the runs.
* `DriftIsNoticed`, `RollbackPutsBack`: `ExecutesWhatWasPreviewed`, and the
  action property `RollbackRestores`.
* `OfferedIsDoable`: every change a service offers, and its undo, is one
  `execute` has a method for (a fact about the tables).

`ChangeRefinementProofs` proves `Refinement`: under `Reliable` (serial callers,
no lost answers, cancellations or crashes) `ChangeEngine` implements
`ChangeLifecycle`.

The only assumption on constants is `EngineAssumption`: the types used are
known ones, the times are naturals, and `None` is none of the values it could
be mistaken for.

The argument.  None of the invariants is inductive alone: they speak of rows,
and rows are written from what calls remember.  `ChangeInvariants!IInv` adds
what the calls remember:

* `CallsInv`: a call in progress is about a change with a row; only the preview
  that built a draft knows it.  Needed for anything to stay well typed.
* `TimeInv`: an apply in progress was begun within the TTL, so the time it
  will write is, whenever it comes to write it.
* `BackedInv`: an apply about to commit has been executed, a rollback in
  progress found its change executed and with a snapshot.
* `SerialInv`: with serial callers one call is about a change, the status it
  read still stands, and as long as no answer was lost the executions, undoings
  and snapshots are exactly the ones status and call imply (`Deeds`).

* `DriftInv`: what a change recorded as its previous state is what its preview
  read; a call that passed the drift check finds that state at its target as
  long as nobody wrote there (`StaysPut`: a write elsewhere does not matter, a
  write there is noticed by the mark on the call); what the executed request
  replaced is that state.  `RollbackRestores` follows: the snapshot a rollback
  sends back is what was replaced.

For each of them one lemma says that every step keeps it.  These lemmas do not
look into the actions: a lemma per action (`ApplyExecuteEffect`, ...) says once
what the action does to calls, records and history, and `StepCases` that every
step is one of them.  For the refinement, `LifeStep` shows that a step leaves
the phases and counts of all changes alone, or moves one change the way
`ChangeLifecycle` allows; `MappedStep` turns that into a step of it.

`ConnectionProofs` and `LegacyManagerProofs` prove every property of the runs
`Connections` and `LegacyRegistry` for any number of calls, devices, VDOMs and
clients.  `ConnectionAssumption` and `ManagerAssumption` say only that `None`
is no value and that there are finitely many device ids in the registry.

* `OpenInCache`, `OneClient`, `Strays` rest on `CacheInv`: a client being probed
  is open, is made for the key its call builds and is neither cached nor
  anybody else's (`ProbeInv`); one `evict_idle` returned is open, and neither
  cached nor probed (`EvictedInv`); a call between the two reads of the keyring
  is alone there, and its key is not cached (`SecretInv`).  `RaceInv` carries
  the argument through overlapping connects: of two clients probed for one key
  both are raced, and so are one that is probed and one that got into the cache
  meanwhile, so whatever replaces a cached session replaces a raced one.  No
  constant or assumption excludes the overlap.  `StepKinds` says that a step
  leaves builds alone, drops a cached session, or is one of seven others.
* `Closed` rests on `DisconnectInv`: a session to be disconnected is still cached
  for a key still to come, or is `Gone`: out of the cache for good and closed,
  unless an overlapping connect replaced it or `evict_idle` took it.  `Gone` is
  stable (`GoneStays`), and a cached session that goes is `Gone` (`CachedGoes`).
* `Removed` rests on `CredentialInv`: who has a credential has a row, is being
  removed, or is left over.
* For the registry, `RaceInv` says that of two removals of one device under way
  both are raced, and with `RemovesWhatItClosed` gives `LostInARace`: only the
  end of a raced removal can meet an open client.  `ClosedInv` names the call that closed a registered client,
  which `ClosedOnlyIfCut` leaves open: a cancelled call must be the one whose
  client it marks.

`FleetSyncProofs` proves the properties of the run `FleetSync` for any calls,
devices, objects, names and requests, and any number of mishaps.
`FleetAssumption` says that objects have types, that requests are well formed
(a sync has one destination and one type) and that `None` is no value.
`CallInv` says of one call:

* `AskInv`, `Asked`: what it still has to do is part of what it was asked, and
  it creates only if confirmed and permitted.  With `ScopeInv` (what it has
  written is of the types asked for) this gives `WritesOnlyAsAsked`.
* `CleanInv`, `CreatedInv`, `FreshInv`: between two types there are no results
  left over; what it lists as created it wrote; it has not yet reported on what
  is to come, so no entry is replaced unless a type is repeated.
* `ReportedInv`: everything it wrote is in the report or in the results in
  hand.  With `CreatedInv` this gives `ReportMatchesDevices`.
* `CopyInv`: each named object it listed is failed, still missing, or `Held`,
  which is to be there by name or deleted by hand.  Once reported this is
  `CopyComplete`.

`Held` is stable under every step (`HeldStable`), and the rest of `CallInv`
speaks of one call only, so `Frame` and `OneMoves` reduce a step to the call
that makes it.

`PlanKept` relates two calls, the one that planned and the one that confirmed,
through all that happened between them.  `KeepInv` says what of the plan still
stands.  `PlansInv`: as long as nobody has meddled since (no edit, no other
call that writes, no listing that failed), a plan shown to a client lists for
each destination and type exactly what the source has and the destination
lacks.  `PlanInv`: a plan being made does so for the part that is done, and
`ErrorInv` that a destination whose listing failed is down as an error.
`AgreeInv`: a confirmed call carries out what the plan says of the types it has
begun, and of those to come (`ToCome`) the configurations still are as planned.
Every other call either leaves the configurations alone or meddles
(`OthersKeep`), so again only the call that moves matters (`MoverKeeps`).

`InventoryProofs` proves the properties of the run `Inventory` for any calls,
customers, sites, devices, names and configurations.  `InventoryInvariants!IInv`
is long, because a fact about committed rows rests on what sessions are about
to commit.  Its core: only the holder of the write lock has a draft; ids and
names in the draft differ from those committed, because nobody else can commit
while it holds the lock and its own lookups ran under it or are repeated by the
unique index.  Around it:

* what a session found (`customer`, `site`, `device`) is committed or in its own
  draft, which gives `RegisteredIsFound`;
* every committed site has had a device and every customer a site, and a draft
  that lacks one belongs to a session that is still to insert it or to roll
  back, which gives `NothingHalfRegistered`;
* a device whose secret is to be deleted has lost its row for good
  (`RemovalPlaces`), which gives `SecretOutlivesRow` and `OrphansExplained`;
* what the migration has passed over has a row, or is in its draft with its
  secret written, which gives `MigratedIsThere`.

`ResolverNeverGuesses` needs no induction of its own: given unique names it
follows from the order of the tests, and from the set of devices being finite
(`resolve_one` compares a length with one).

`AnalysisProofs` proves every property of the run `PolicyReview`, for any
policies, objects, settings, packets and intents and without the bounds.  Its
inductive invariant is small (policies keep numbers of their own, objects names
of their own; that FortiOS always has a number left is the pigeonhole
principle), and the work is in the functions:

* `CoveredMatches`, `CoveredNeverDecides`: what a policy matches every covering
  one in force always matches, so a covered one never decides.
* `CleanupIsSafe`: the first enabled policy that matches a packet is neither
  shadowed nor a duplicate of an earlier one, or that one would match first; so
  it is kept, and what is kept has it first.
* `PathIsTrue`: the same argument for the policy `find_path` names.
* `OverlapsAreExact`: a subnet of any size is an interval (`SubnetAddresses`,
  with the laws of division), and the comparisons of bounds are the relations
  of intervals (`Relations`).
* `ComparisonsAreComplete`: `compute_diff` carried out gives what was compared
  with (`DiffRestores`), for items with any fields.
* `ScoreMovesForAReason`: every count grows with the table.  For duplicates this
  takes an injection from the old groups into the new (`MoreDuplicates`).

Its assumptions say what policies, objects and settings are, that addresses and
virtual IPs have different names, and that services and virtual IPs are
finitely many.

`DeviceApiProofs` proves both properties of the run `DeviceApi`, for any
callers, ids, contents and VDOMs, any number of rows, any number of requests
under way or late, and any set of contended types.  `DeviceApiAssumption` says that the default VDOM is one, that `None`,
`Everywhere` and `Self` are no VDOMs, ids or contents, and that `None` is no
resource type and not the factory state.

* `AllWired` is about the four tables alone: every verb a type has is a method
  that takes the arguments it is called with and ends in a request of the right
  verb, path, key and body.  The tables are too large to be expanded at once.
  They are made of four areas with different names (`Parts`), for each of which
  a table of client methods by type (`SystemClients`, ...) is shown to agree
  with dispatch table, adapter and client (`SystemAgree`, ...).
* `Made` says what `MakeRequest` makes of an operation the dispatch table has;
  `ReadsOnly` that the methods services call directly only read.
* `IInv`: the device holds at most `MaxRows` values, each at the place of a
  resource (`ConfigInv`); a request under way is what `MakeRequest` makes of the
  call, or only looks, and a fetch that succeeded has found something
  (`CallInv`); a late request is one, too.  `TypeCorrect` follows.
* `DeviceIsAStore`: `StoreOf` has the resources the configuration has
  (`StoreMirrors`; `PathOf` is injective on types) and as many of them
  (`StoreSize`, a bijection), so both are full at the same time, and writing or
  dropping a cell is writing or dropping a resource (`StorePut`, `StoreDrop`).
  Hence each outcome of a request is one the store allows for the operation
  (`WantedEffect`, a case per verb; `QueryEffect`), and one lemma per action
  (`DispatchRefines` to `ReturnRefines`) maps it to a step of the store or to a
  stutter.

Proofs that need a least element or a count take it from finite sets:
`LeastOf` (a nonempty finite set of integers has a least element) comes from
the library's well-founded order on finite sets, without the induction theorems
that take an operator.

Only model-checked: `EventuallyResolved`, because liveness under fairness is
beyond the prover, and the three violations of section 11.  The bounded
instances remain useful beside the proofs: they show that what the theorems
speak of does happen.

## 13. Not modelled

* Reads (`list_pending`, `history`, the get and list tools), formatting,
  logging, parameter descriptions, transports: they change no state.
* `diff` and `summary` of a change: derived text.
* Two changes of one client inside one database transaction: each call has a
  session and commits once.
* `fleet_search_object` and `fleet_report`: they only read.
* Ids that are more than one segment of a path (section 6), what FortiOS does
  with an empty body (refusing it is taken for granted), and its negate flags,
  users and groups (section 8).
* SQLite's own concurrency: a commit either happens or raises (`Cancel`).
* Listings made of several requests: an analysis reads policies, objects and
  services one after the other, and `PolicyReview` takes them as of one moment.
* The pool of database connections: `apply` and `rollback` hold one while
  resolving the device takes another.  SQLAlchemy bounds the wait by its pool
  timeout, after which the call fails like any other (`Cancel`).
* `sync_vdoms` (called by nothing), `summarize_device`, documents and diagrams,
  the servers, tool definitions, configuration, logging and formatting: reads,
  wiring and layout.  `PROJECT.json` gives each component its status.
