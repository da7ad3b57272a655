# PDC Insights: a TLA+ verification project

PDC Insights puts dashboards, chat and an MCP server in front of a Pentaho Data
Catalog (PDC) instance. This directory specifies the parts of it whose
correctness depends on the order in which things happen or on counts that must
agree: the shared PDC client, the live catalogue snapshot, the source inventory
and the aggregation behind it, the settings that all of them read and that
the Settings page changes at run time, the dashboards that two kinds of process
save and read under one access rule, what a dashboard shows, the requests that
ask a language model, and the desktop shell that starts the server and waits
for it. All paths below are relative to the
repository; `PROJECT.json` maps every definition to the lines it models.

## How the program runs

A FastAPI application (`asgi.py`, `app/main.py`) is served by uvicorn: one
process under `run.sh` and the desktop shell, two workers in Docker
(`Dockerfile:17-19`). In a worker, `async def` routes run on the event loop and,
since the clients they call are synchronous, one at a time; `def` routes run in
a thread pool, several at once. `POST /api/settings` is an `async` route, so a
save runs on the event loop thread between two of its own handlers and in
parallel with every pool thread. No lock is taken anywhere. Processes share only
files: `.env` and the saved dashboards.

## Inventory

| Component (source) | State | Operations | Interacts with | Hard behaviour | What makes it correct |
|---|---|---|---|---|---|
| PDC client (`app/pdc_client.py`) | `_token`, `_cache`, one per process | `token`, `_request`, `_post`, the reads, the reset by a save | PDC over HTTP; live settings | threads and a save interleave between every two reads of `_token`; a 401 drops a token another thread fetched; a late answer is stored after a reset | answers come from an instance in force; bounded staleness; one bad token is masked; calls end |
| Live settings (`app/config.py`, `app/routes/settings.py`) | `settings.*` objects, `os.environ`, `.env` | `apply_settings`, `_write_env`, `_reset_runtime` | client, provider, snapshot; the other workers through `.env` | a cast or the write raises half way; the file is truncated before it is written; two workers write it; the file loaded may not be the file saved | what was saved survives a restart and is live at once |
| Catalogue snapshot (`app/catalog.py`) | `_LIVE_CACHE` | sweep, cache, fall back | client (one request a page), settings | settings change between pages; a page fails; two threads sweep | a failure leaves the sample, never a part; snapshots are whole; age is bounded |
| Source inventory (`PDCClient.data_sources`, `_live_snapshot` 191-217) | rows, seen keys | list roots, fall back to a facet, group | client | fails half way; repeated and unordered roots | one origin; a connection is one source under its own name |
| Aggregation (`_live_snapshot` 219-393) | counters, running lowest set | one pass over the entities | inventory | the cap, pruning, gaps between the bands, dropped sources | aggregates agree with the entities and with each other |
| LLM provider, generation (`app/llm/`, `app/generator.py`) | memo of the provider | `get_provider`, generate, validate, repair once | settings (resets the memo) | reset between test, store and return of the memo; a completion fails at any point; a draft that cannot be read | the configured backend is asked; a spec called valid renders; requests end |
| Chat (`app/routes/chat.py`, `app/chat_build.py`) | none on the server | message, demo build, fall backs | provider, Query Library | which fall back answers | the offline draft is always valid; no error is answered |
| Dashboard store (`app/routes/dashboards.py`, `app/paths.py`, `mcp_server/server.py`) | JSON files, saved over built-in | list, get, save from several processes | file system, access control | truncate-then-write under readers and other writers; crash between write and audit; directories chosen per process | a read answers the last save; a write has an admitted author on the audit log |
| Panel data (`app/panel_data.py`) | none | scope, resolve, drill | snapshot | missing keys, rounding, `or` on zero, a raise outside the `try`, the limit of a drill-down | no panel is missing; a board does not contradict itself; scopes add up to the whole |
| Recommendations, explanations (`app/recommend.py`, `app/explain.py`) | none | pure over a snapshot | snapshot, provider | missing keys, scores against order | signals come first |
| Access control (`app/security.py`, `app/routes/_auth.py`, `mcp_server/security_mcp.py`) | none per request | authenticate, authorize, audit | every route and tool | three modes, two doors with environments of their own, roles unknown to the order | doors of one configuration admit the same credentials |
| Desktop shell (`desktop/src-tauri/src/`, `desktop/boot.py`, `desktop/dist/index.html`) | server process, log ring, window | start, poll, restart, stop | server over HTTP; splash over commands | restart races the poll; ring of 40 lines against the splash's count; a server that dies late | the window ends on the app or on an error; no orphan server |
| Frontend (`frontend/src/`) | component state | resolve, drill, explain, restore chats | API | late answers | a view shows the answer to its own question |
| Tools, installers, mocks | none at run time | | | | |

`PROJECT.json` lists the same components with their status, and under `hazards`
each place where one of these behaviours bites.

## Modules

| Module | Models |
|---|---|
| `BoundedStaleness` | What a read service promises, without a mechanism: an answer names an instance that was configured at some time since the call began, less a slack. |
| `PdcClient` | The client and the save it runs against, step by step: one read or write of `_token`, one read of a configuration field, one HTTP exchange a step. |
| `PdcClientProofs` | Theorems about `PdcClient`. |
| `LiveSnapshot` | `catalog_snapshot`: the demo switch, the cache, the sweep page by page, the fall back to the sample. |
| `SnapshotProofs` | Theorems about a catalogue snapshot and what is shown of it: `LiveSnapshot` and `PanelBoard`; lemmas on sums, rounding, sorting and concatenation. |
| `SourceInventory` | `data_sources` root by root with its two swallowed errors, then the grouping by connection as operators over the rows. |
| `SourceInventoryProofs` | Theorems about `SourceInventory`. |
| `SweepAggregate` | The aggregation loop, one entity a step, and the snapshot built from it. |
| `SweepAggregateProofs` | Theorems about `SweepAggregate`, and lemmas on ranks, least members and sums over a finite set. |
| `SettingsStore` | The settings of several workers and their `.env`: field loop, refused cast, read, truncate and fill, crash and restart. |
| `SettingsStoreProofs` | Theorems about `SettingsStore`. |
| `AccessControl` | Who a credential is and what a role may do, as operators: authentication in its modes, the role order, the gates of the two front doors. |
| `DashboardStore` | Extends `AccessControl`: requests of several processes that save and read the dashboard files, step by step, with crashes. |
| `DashboardStoreProofs` | Theorems about `DashboardStore`. |
| `PanelData` | The resolvers of `panel_data.py` as operators over a snapshot. |
| `Recommend` | Extends `PanelData`: the rules of `recommend()`, their scores and their order. |
| `PanelBoard` | Extends `Recommend`: what a snapshot is, a board narrowed to a source and resolved panel by panel, the drill-down. |
| `ChatBuild` | What makes a spec valid (`_validate`, the schema) and the offline builder, as operators. |
| `Assistant` | Extends `ChatBuild`: the requests that ask a model, the provider's memo, saves that reset it and threads that probe it. |
| `AssistantProofs` | Theorems about `Assistant`. |
| `DesktopShell` | The shell's commands on the server process, the splash's poll chains, deadline, retry and navigation, the window's end and the shell's crash. |
| `DesktopShellProofs` | Theorems about `DesktopShell`. |
| `MC*` | Values of the constants for TLC. |

Operators whose comment begins "Mutant" are not part of any specification: each
is a mistake the code could have made, kept to show that a property notices it.

### PdcClient and the code

`pc` names the point of a request: `lookup` and `store` are `_post`, `url`,
`send` and `denied` are `_request`, and `check`, `keycloak`, `fallback`,
`legacy`, `keep`, `recheck`, `grab` are the reads and writes of `token()`.
`token()` reads `self._token` up to three times, so `CheckToken`, `Recheck` and
`GrabToken` are steps of their own. `_request` builds its URL once, before both
attempts, while `token()` reads host, user and method when it logs in: the two
may see different saves, and the model lets them. A save is `BeginSave`, then
`WriteField` for each field that changes in any order, `ResetToken`,
`ClearCache`; `FieldRejected` is `int()` raising on `cache_ttl`, which leaves
the earlier fields live and resets nothing, and `WriteFails` is the `OSError` of
`_write_env`, after which all fields are live and nothing is reset. The instances are modelled from how
the client uses them: they issue tokens to accounts, honour them until they
expire, and refuse with 401.

`now` and `began`, `lastLive`, `strikes`, `settled` are history. `strikes` counts
what one login cannot mend, so that `OneStrikeMasked` can say what the retry is
for. `settled` holds from the start, and from the end of a save that succeeded if no
older call is still to store its answer then (`NoneLate`), until the next save begins.

### LiveSnapshot, SourceInventory, SweepAggregate and the code

They are one function of the code at three grains. `LiveSnapshot` keeps what
crosses calls (cache, pages, time, saves, failures) and gives a page one entity;
`SourceInventory` keeps the order and failures of the root listing;
`SweepAggregate` keeps the arithmetic of one sweep. `Degrade` is any exception
of the sweep or of the aggregation, and may come at any point of either: an outage,
an HTTP error, a lost token (`ClientRace`), an entity the loop cannot take. After a
save between two pages the new instance is handed the cursor of the old one: it may
take it for a position (`ReadPage`), answer with nothing, which ends the sweep
(`ReadNothing`), or refuse it (`Degrade`). `asked` is history: the instances that
this sweep has asked for the listing or a page.

A root without a key, and one whose key was seen, is skipped (`Skipped`); one
without a name goes by its fully qualified name (`NameOf`).

### SettingsStore and the code

`Start` is `asgi.py`: `load_dotenv(override=False)` and the import, which
evaluates the defaults. `Apply` and `ApplyRaises` are the loop of
`apply_settings`; `ReadFile`, `Truncate`, `Fill` are `_write_env`'s `read_text`
and the two halves of `write_text`; `Crash` and `WriteFails` may fall between any two.
The file saved (`file`, `paths.env_file()`) and the file loaded (`AsgiFile`, what
`asgi.py:22-24` names) are one where `SameFile` holds, which depends on the deployment:
where `INSIGHTS_STATE_DIR` is set, and whether the install directory can be written.
`alone` and `lost` are history: `lost` are the fields that a write cut short, or two
that overlapped, may have lost, and no later write of their own has restored.
`Parsed` is what python-dotenv, which is not part of the repository, reads from
the unquoted line of a value.

### DesktopShell and the code

The page calls `invoke` and goes on: `queue` holds the commands it has invoked
and `replies` the results on their way back. `Execute` is one command of
`main.rs` on the shell's main thread; `Settle` is the callback of `index.html`
that its result resumes (`OnAlive`, `OnUrl`, `OnReady`, `OnRestart`). That
results settle in the order of their commands is an assumption about the
webview, and `FastFailTrue` rests on it. `chain` is the state of each chain of
`poll`: a Retry starts one more and an older chain whose timer is still to come
goes on beside it. `StartServer` is `Server::start`; `tied` is the kill-on-close
job object, which may hold a process or not (`server.rs:304`). `ComeUp` and
`Exit` are what the Python process does on its own. Time is left out: the
deadline, the slow notice and the timers are steps that may come at any moment.

### AccessControl, DashboardStore and the code

A credential is a token; `Claims` holds the role claim of each token whose
signature verifies, which is PyJWT's part. `Caller` is `require` at the web door
and `verify_token`, `build_auth`'s scope and `current_principal` at the MCP
doors, of which the one over stdio has no transport and acts for the default
principal, as the one over HTTP does where the SDK lacks its authentication hooks
(`Verified`). Each process decides by its own variables and by the `.env` it loads
(`Setting`): the web app loads one always, the MCP server only if `boot.py` started it
and `INSIGHTS_STATE_DIR` is set (`Loads`); the environment of a process wins. A
deployment says which processes it runs (`env.running`); in `FrontDoors` three of the
five run the web app and the MCP server over HTTP only, which keeps the run short.

A request goes from `admitted` over `opened` (the file is created or truncated)
and `written` to `done`; `overlapped` is a write that met another one on its
file, whose outcome may be either text or a mixture, `Torn`. A read looks for the
file (`found`) and reads it later. `LoopFree` is the event loop: a saving handler
does not await between validation and response, so a process has one at a time,
while `get_one` and `download_one` run in threads. Every process chooses its
directory (`SavedDir`): `INSIGHTS_STATE_DIR`, the checkout if it can be written,
or the user's own. `book` is history: of each board what the last save by any process
left, or `Unsure` from a truncation until an uncontested write has ended, and the
directory that save went to; `seen` collects the entries that were in the book during a
read. `Met` is a read that saw a write under way, `Hidden` one during which the last
save was in a directory that its process does not read.

### PanelData, Recommend, PanelBoard and the code

A resolver's dict becomes a record whose missing parts are empty; `Shape` is the
part of it that the panel's kind shows. A snapshot key that the code reads with
`get` may be missing, and then is not in the record's DOMAIN; None is a value, and
arithmetic on it raises (`Raised`), which `Panel` turns into the error entry of
`resolve_dashboard`. An entry that is no object (`NoPanel`), or whose id is no key
(`NoKey`), raises outside of that `try`: `LoseBoard` ends the request. Percentages are
counted in tenths, as a sweep gives them one decimal (`Unit`); the mean quality is whole. Python's `round` is `Round`, half to even, on exact
quotients. A row keeps its source and its last column, which is what narrowing
and the values are about. `NameSeed` is the sum of a name's characters, which
the stand-ins of missing fields are derived from; the instance has the true sums.

`IsSnapshot` says what `catalog_snapshot` guarantees, and `PanelAssumption` that the
constant `Snapshots` has nothing else: sources of distinct names, the keys of a dict
(`catalog.py:216`), none of which is called "all"; counts and percentages that are
numbers where they are there at all, since a sweep omits a mean that no asset has
(339-342) and always gives the other fields (325-343); a source's sensitive assets counted among its assets and in the
distribution of the whole (257-261); at most 20000 assets (175, 243-245), and empty
sources only where all are (345-352: `Fits`); either no failed asset, which a sweep
never counts (226), or the sample's 720. It says nothing of how many sources, keys or
assets there are. Sources of a name and a type only, which `panel_data.py:52-56`
remembers, are none that `resolve_dashboard` is given today: `catalog_snapshot` is its
one source of snapshots, and `_live_snapshot` builds every row in full; a source without
a term coverage would make `coverage_trend` raise. `NoOrphans`, that every asset hangs off a listed source, is no
guarantee: the properties that need it name it.

A panel whose id an earlier one had takes that one's entry, as in a dict; `Standing`
are the panels whose entry is still theirs. A comprehension that filters is `Picked`
and not `SelectSeq`, whose definition recurs; `FlattenSeq` is a recursive function.

### ChatBuild, Assistant and the code

`Validate` gives the set of problems of a spec, or `Raises` where `_validate`
asks an object's methods of a panel that is none. `DemoBuild` is `demo_build`
with the instruction reduced to the set of sections whose keywords it contains.
A library is a sequence of entries, in which a name may come twice: `_validate`
builds a dict, so that the last one counts (`Last`, `Columns`). A generation is grounded
on and validated against the library its request brings, or `QUERY_CATALOG`
(`generate.py:20`); a chat always on the latter.

`at` is where the event loop and each probing thread are: `test`, `choose`,
`keep` and `return` are the four accesses of `get_provider` to `_cache`; `use`
has the provider in hand; `repair` is between a rejected first draft and the
second completion; `write` is a save between the live field and the reset. The
async handlers block the loop, so a save and a request never overlap, and only
the probes of `/health/llm` (a `def` route) run beside either. `backend` stands
for `settings.llm.provider` and for `LLM_PROVIDER`, which `apply_settings` sets
together before anything can fail. `overtaken` is history: the two cases that
`AsksConfigured` excepts.

## What the runs check

| Run | Instance | Shows |
|---|---|---|
| `ClientLoop` | 1 thread, 3 instances of which one refuses every token, 2 saves, each of which may be refused half way or fail to write, an expiry and a fault | types; after a save that succeeded, whatever came before, calls and cache are of the saved instance; one expired token is masked; liveness: each call ends |
| `ClientPair` | 2 threads, a save, which may be refused half way or fail to write | fetched answers are of an instance in force; after a save that no older call outlives, both threads are on the saved instance; refinement of `BoundedStaleness` |
| `ClientRace` | 2 threads, 1 expiry | **violated**: `OneStrikeMasked` |
| `SnapshotPair` | 2 threads, catalogues of 3, 2 and no pages, cap 2, 2 saves, a failure at any point | types; snapshots of one instance are whole; bounded age |
| `InventoryRows` | all listings of up to 4 of 5 roots, with repeats, failing anywhere; all facets of up to 2 names | types; one origin; one source a connection, under its own name |
| `SweepCounts` | all catalogues of up to 6 entities of 6 kinds, cap 5, running set pruned from 4 to 2 | types; lowest scores exact; sources add up; the cap; bands within their denominator |
| `StoreDurable` | 2 workers, 3 deployments, 3 saves (one kind refused, one kind read back cut), failed writes, a preset variable, 2 crashes | types; where the file saved is the file loaded, restarts give back what was saved, but for what a cut or overlapping write lost |
| `DesktopStart` | 3 servers started, 2 polls by timer, one poll chain a run | types; no orphan process; the app is opened on a server that answered; the early failure is true; the splash always ends |
| `FrontDoors` | 3 requests, 5 credentials (one of an unknown role, one unknown, none), web and MCP over HTTP and stdio, 5 deployments, a shipped board and a new one that 2 titles share, an invalid spec, a crash | types; a read answers the last save that its process can read; every write has an admitted author; doors of one configuration admit alike |
| `Panels` | the bundled sample, swept catalogues of 0, 2, 3, 15 and 16 sources with and without scores, sensitive assets and orphans, each whole and narrowed to each source; every query as tile, chart or table, one unknown, one malformed, one panel without an id, one of an id that is taken, an entry that is no object, one whose id is no key | no panel is missing or fails, and only the last two lose a board; segments add up; tiles agree with charts; scopes add up; the drill-down covers up to 15 sources; signals come before starters |
| `ScopedRows` | the same, tables only | **violated**: rows of other sources on a narrowed board |
| `Assistant` | 4 requests, 1 thread that probes twice, 3 backends, 5 drafts (valid, wrong column, unknown query, not an object, no panels), 2 libraries (the Query Library, and one that lists a query twice), 8 chats | what is called valid renders from the library it was asked of; the offline draft is valid; chat and explain never fail; the configured backend is asked; liveness: each request ends |

Bounds. The races of the client need two threads and one event of each kind: a
third thread or a second save repeats a pair's interleavings. The clock runs to
ttl plus one call, so that an entry is both fresh and stale. `SnapshotPair`'s
cap is met by one catalogue and not by the others, of which an empty one takes any
cursor for the last; its ttl ends within the run, and its two saves bring an instance
back that a sweep has left. `SweepCounts` reaches one asset beyond the cap and prunes twice on the way;
its entities differ in each respect the loop counts. `StoreDurable`'s three
saves and two crashes allow a crash in each half of a save and a save after it. `DesktopStart` needs two restarts, so that a reply, a
poll chain and a navigation of one run can meet each of the next two; with two
timer polls a chain of one run is still going round in the next.
`FrontDoors` needs three requests: two writers of one
file and its reader, or a writer, one after its crash and a reader. `Panels`'
catalogues are chosen at the edges of the resolvers: no source, sources without
assets, without a score, with a mean of 0 and of 100, shares of odd numbers, and
the sixteenth source of a drill-down of thirty rows; the sample's 94.2% is 942 tenths.
`Assistant`'s four requests allow a save, its failure, another save and a request
after each; a second probing thread repeats the first one's races, and the proof
covers any number. Its catalogue holds the queries that an offline draft may use.
`CHECK_DEADLOCK FALSE` is said because every bound ends the run in a state where
nothing is left to do: requests, saves and the clock are all counted.

Fairness. `PdcClient!FairSpec` asks that a thread with a started request, or a
started save, is run on: threads are preemptive and each HTTP call has a timeout
(30 s for a login, 60 s for a read), so it ends in an answer or an error. Nothing
is assumed of new requests, saves, expiries and the clock. `DesktopShell!FairSpec` asks only that the page's timers fire; nothing
of the shell, which is what may be wedged, of the server or of the user.
`Assistant` asks that the event loop goes on with what it has begun: a completion
ends within `cfg.timeout` in a text or an exception. It asks nothing of requests,
saves or the probing threads.

## Where the code differs from what it says

Two violated runs, each quoted in `PROJECT.json` under `findings`:

- `ClientRace`: the loop logs in and stores its token, a thread takes it, it expires,
  and the thread's only 401 drops it before the loop has read it again: the loop's
  first attempt raises (`pdc_client.py:137-138`), which no retry follows, although one
  token has expired and nothing else happened. The class docstring calls the shared
  state safe under concurrent overwrite. `OneThreadMasks` proves the property for one
  thread.
- `ScopedRows`: `scope_snapshot` leaves `worst_rows`, `pii_rows` and
  `untermed_rows` of a live sweep as they are, so a board narrowed to one source
  lists other sources' assets.

Found while modelling, and not worth a run each because the code's one line shows
them: after a save the cached snapshot of the old instance is served until its
ttl ends, since `_reset_runtime` leaves `catalog._LIVE_CACHE`; with two workers a
save is live in the one that served it (`routes/settings.py:7-9` promises both);
an empty source inventory gives a live snapshot without sources, not the noted
fall back of `data_sources`' docstring; when the root listing fails half way
`out` is emptied but `seen` is not, so the facet's rows of those names are lost;
`PDCConfig()` in the debug endpoints has the defaults of the import.

Excepted by a property, which says so where it is stated, because the code does not
keep what it says:

- client: a call addressed before a save may store its answer after `ClearCache`, and
  later calls are given it until the ttl ends, though `routes/settings.py:7-9` promises
  the saved instance to any subsequent call (`SavedInstanceRead` speaks of saves that no
  such call outlives). The old instance's cache also stays in use after a save whose
  `.env` could not be written, or which was refused half way: its fields are live and
  nothing is reset, until the next save that succeeds;
- snapshot: a save between two pages gives a snapshot of two instances or, where the new
  one answers the old one's cursor with nothing (`pdc_client.py:339-343`), the first
  pages of one; either is cached and served as live and whole (hence "for which one
  instance was asked" in `WholeOrMixed`); the capped total counts one asset too many
  (`CapExact` speaks of what is aggregated);
- settings: with an install directory that cannot be written and no
  `INSIGHTS_STATE_DIR`, or with that variable set inside the `.env` that is loaded, a
  save goes to a file no start loads, against `paths.py:107` ("and the entrypoints
  load") and `apply_settings` ("so they survive a restart"): `SurvivesRestart` speaks of
  the other deployments (`SameFile`). It excepts the fields that a write cut short or
  overlapping may have lost, until each is saved again, and those preset in the
  environment or not read back as written (`Restorable`);
- desktop: a window navigated to a server that Retry has stopped, since the
  callback does not look at `finished` (`AppHasAnswered` speaks of the server the
  shell keeps);
- dashboards: a file that is being written, was cut short by a crash or written by
  two processes at once (`ReadsLastSave`, `Met`): nothing locks it or writes it aside,
  and a board cut short hides the shipped one; two titles of one slug are one file. And
  a save by a process with another state directory (`Hidden`): a web app and an MCP
  server that were not both given the same `INSIGHTS_STATE_DIR` do not show each other's
  boards, against `mcp_server/server.py:168`, `docs/MCP-SERVER.md:10-12` and 76-77, and
  `paths.py:137-138` ("the two front doors cannot disagree about which file is live");
- access: `INSIGHTS_AUTH` and its keys in `.env` reach the web app and not
  `python -m mcp_server.server` (`run.sh:91`), which then admits everyone as the
  default role, an admin, against `.env.example:74` ("for BOTH") and
  `docs/SECURITY.md:6` ("enforced identically by both front doors"); and `build_auth`
  goes on without authentication where the SDK lacks its hooks
  (`security_mcp.py:27-31`, 51-52). `DoorsAgree` speaks of doors of one configuration
  (`OneConfiguration`);
- panels: an entry that is no object, and one whose id is a list or an object, loses
  the whole board (`panel_data.py:529`, 534), against the comment of line 533 ("one bad
  panel shouldn't blank the board"): `BoardComplete` says that nothing else does. A mean
  quality of 0, which one tile shows and another replaces by 76 (`HeadlinesAgree`); a
  sixteenth source in a drill-down (`DrillCoversScope`);
- assistant: a probe that stores a provider it chose before a reset, and a save
  that could not write `.env`, leave an old memo until the next save
  (`AsksConfigured`).

Also met, and in the model without a property: a probe may be handed None by
`get_provider` and answer 500; a repair that fails loses the first draft, though
`generate`'s docstring promises the spec; a panel that is no object makes
`_validate` raise, so it is never repaired, the chat drafts offline without
saying so, and a save answers 500; a spec whose `panels` is null, or that is no object, fails
as a board does with a bad entry, and is not modelled; `demo_build` does not look at the current
spec; no evergreen suggestion is of section sensitivity, though
`recommend.py:108-110` promises each section one, and fewer than 80 failed assets
give their signal a score below the best starter's.

## What is proved

Every theorem is about any values of its module's constants, bounds included, under
the named assumptions of that module, which TLC evaluates on each run:

- `PdcClientProofs`: any threads, instances, keys and configurations
  (`ClientAssumption`);
- `SnapshotProofs`, of `LiveSnapshot`: any threads, instances, catalogue sizes (none
  included), caps, ttls, saves and failures (`SnapshotAssumption`: a sweep takes at most
  `SweepTime`); of `PanelBoard`: any snapshots, boards, source names and limit of a
  drill-down from thirty up (`PanelAssumption`, see above);
- `SourceInventoryProofs`: any catalogues and facets (`InventoryAssumption`); the two
  theorems on connections use `RootsAreEntities` as well, that roots with one
  `rootId` are one entity listed again. The code relies on it: `pdc_client.py:398`
  falls back to `_id`, `catalog.py:207` tells the connection's own row by
  `rootId == resourceId`, and `catalog.py:249` finds an entity's source by its `rootId`;
- `SweepAggregateProofs`: any catalogue, cap, name order and limits of the running set
  with shown ≤ kept ≤ limit, the code's being 6 ≤ 12 ≤ 400 (`SweepAssumption`: there
  are finitely many sources);
- `SettingsStoreProofs`: any workers, fields, values, deployments, presets, first files,
  saves, failures and crashes (`StoreAssumption`: there are finitely many workers, a
  worker can be started at all, i.e. what it first
  reads for a number is one, and python-dotenv reads a number back as a number);
- `DesktopShellProofs`: any number of starts and polls (`ShellAssumption`);
- `DashboardStoreProofs`: any processes, deployments, credentials, boards, number of
  requests and crashes (`StoreAssumption`: the marks for a file that is missing,
  truncated or torn are no dashboards);
- `AssistantProofs`: any threads and backends, query catalogues and libraries, drafts and
  chats (`CatalogAssumption`: the Query Library has entries; `AssistantAssumption`: so
  has every library).

| Theorem | Property |
|---|---|
| **`PdcClientProofs`** | |
| `TypeCorrect` | `TypeOK` |
| `FetchedInForceAlways` | `FetchedInForce` |
| `Implements` | `PromiseKept`, the refinement of `BoundedStaleness` |
| `FixedBearerAlwaysKept` | `FixedBearerKept` (no run: the proof covers every instance) |
| `SavedInstanceAlwaysRead` | `SavedInstanceRead` |
| `OneThreadMasks` | `OneStrikeMasked`, for one thread |
| **`SnapshotProofs`** | |
| `AlwaysWhole` | `WholeOrMixed` |
| `AlwaysAgeBounded` | `AgeBounded`, an action property |
| `SnapshotTypeCorrect` | `TypeOK` |
| `AlwaysBoardComplete` | `BoardComplete` |
| `AlwaysColumnsAddUp` | `ColumnsAddUp` |
| `AlwaysHeadlinesAgree` | `HeadlinesAgree` |
| `AlwaysScopesAddUp` | `ScopesAddUp` |
| `AlwaysDrillCoversScope` | `DrillCoversScope` |
| `AlwaysSignalsFirst` | `SignalsFirst` |
| `ScopeIsView` | a narrowed snapshot is still what the resolvers need of one |
| `ResolveSound` | every query is answered from every view without arithmetic on None, and what it stacks adds up |
| **`SourceInventoryProofs`** | |
| `AlwaysOneOrigin` | `OneOrigin` |
| `AlwaysOneSource` | `OneSourcePerConnection` |
| `AlwaysNamesSource` | `ConnectionNamesSource` |
| `InventoryTypeCorrect` | `TypeOK` |
| **`SweepAggregateProofs`** | |
| `AlwaysWorstExact` | `WorstExact` |
| `AlwaysSourcesAddUp` | `SourcesAddUp` |
| `AlwaysCapExact` | `CapExact` |
| `AlwaysBandsWithin` | `BandsWithinDatasets` |
| `SweepTypeCorrect` | `TypeOK` |
| **`SettingsStoreProofs`** | |
| `AlwaysSurvivesRestart` | `SurvivesRestart` |
| `SettingsTypeCorrect` | `TypeOK` |
| **`DesktopShellProofs`** | |
| `AlwaysNoOrphan` | `NoOrphan` |
| `AlwaysAnswered` | `AppHasAnswered` |
| `AlwaysFastFailTrue` | `FastFailTrue`, an action property |
| `ShellTypeCorrect` | `TypeOK` |
| **`DashboardStoreProofs`** | |
| `AlwaysReadsLastSave` | `ReadsLastSave` |
| `OneHomeReadsAnySave` | `ReadsAnySave`: where all processes save into one directory, no save is hidden from any (no run) |
| `AlwaysAudited` | `AuditedWrites` |
| `DoorsAlwaysAgree` | `DoorsAgree` |
| `StoreTypeCorrect` | `TypeOK` |
| **`AssistantProofs`** | |
| `AlwaysAsksConfigured` | `AsksConfigured` |
| `AlwaysAnswersKept` | `AnswersKept` |
| `DemoValid` | the offline builder's draft has no validation error (a lemma of the above) |

`FetchedInForce` and the refinement are not inductive. `FreshInv` strengthens
them: `ClockInv` bounds the age of a call in flight and says that the configured
instance is in force now; `RequestInv` says that a request's URL names an
instance in force since the call began, from the step that reads it on, and that
a call that is not over has answered nothing; `CacheInv` says that an entry was
stored no later than one call after its instance was last in force, which is
where the slack of ttl plus one call comes from. `SavedInstanceRead` needs
only that no save is under way while the last one counts as settled (`SettledInv`): URLs
are then read of the saved instance, and what is stored comes from one of them.
`OneStrikeMasked` needs what a
lone thread knows of the token at each point of a request. Each proof has one
step per action.

`AsksConfigured` needs what the memo is between saves: `Configured` says that,
unless a save was overtaken, the memo and what the threads are about to store in
it are of the configured backend (`MemoCurrent`), that the loop stores what it
chose (`ToStore`), and that nobody takes the memo away between the loop's test
and its return (`LoopHolds`: only a save resets it, and a save is of the loop).
`AnswersKept` rests on two facts about the operators: `ValidRenders`, that a spec
without errors names only queries and columns that exist in the library it was checked
against, for which the last of a repeated name is one of that name (`LastPosition`), and `DemoValid`, that
the offline builder's fall back to one table is valid for every catalogue, since
it binds no column and its query is of the catalogue; both are proved from a least
position of a set (`LeastPosition`), as the builder takes the nth of several.

`ReadsLastSave` speaks of requests that are over; `Kept` says what holds on the
way. A file under work is not in the book, and of its writers only a lone one may
put it back (`Uncontested`); what is in the book is in the file, in the directory that
the book names (`Booked`); a reader has seen what is in the book now (`Owes`), since
each write shows it to him; and the file a reader has found is that one, unless he has
met a write or the save is hidden from him (`Found`). The last is the heart of it: a
save that lands between the lookup and the read is one he has seen.
`OneHomeReadsAnySave` then needs only that what a reader has seen lies in the directory
of some process (`AtHome`): with one directory for all nothing is hidden. `AuditedWrites` needs that a save keeps its caller's rank and its
record from the gate on (`Right`). `OneRequest` serves the steps that write no
file, `WriteKept` the two that do. `DoorsAgree` rests on every setting of the
two doors being the same, which follows from `OneConfiguration`, and on one fact of the role
order: a name outside it ranks below every requirement, so it does not matter
that one door calls such a caller unauthorized and the other forbidden.

`WholeOrMixed` and `AgeBounded` speak of answers; `AllWhole` says of every sweep
that its pages are those below its cursor and of instances it has asked (`Progress`), so
that a sweep that has asked one only met no foreign cursor, and of the cache that it is
whole if one instance was asked; `AllAged` says that a sweep's pages are no older than
the sweep and the cache's no older than its stamp and one sweep, which is where the sum
of the bound comes from.

`OneOrigin` follows from `Origin`: while roots are read, the keys seen are exactly
those of the roots read (`RootsSoFar`), and rows of roots and rows without ids are
never listed together (`OneKind`), although a failure empties the rows and keeps the
keys. The two properties of the grouping are then about operators: `RootGoesBy`
shows that all rows of one root are in one group, so the last writer of `root_name`
is the only one, and `FirstIn` that the `CHOOSE` of a first row has a value.

`WorstExact` is not inductive, since the running set is not the lowest set but a
superset cut down now and then. `KeepsLowest` is: every score that was dropped ranks
at least `WorstKeep` among those kept. `PruneKeeps` shows that pruning preserves it
and `LowestOfKept` that the few then shown are the lowest of all; both need that
score and name order the scores strictly and totally (`BeforeOrder`), and that the
n lowest of a set are n (`LowestAtMost` by an injection into the ranks,
`LowestAtLeast` from the least rank outside). `SourcesAddUp` and `BandsWithinDatasets`
take a sum over a set: `PartsCounted` says what each counter counts, and
`SumOfParts` that such a sum over disjoint parts is the size of their union, for any
finite set of them, by a least counterexample. That the parts are disjoint is, for
the bands, that their limits do not overlap (`_TRUST_BANDS`).

`SurvivesRestart` rests on `OneCopy`: unless it is emptied the file restores what was
answered for of every field not lost, and so do the lines that each writer has read
(`Copies`); and a writer either is alone or the fields he writes count as lost until a
save of their own (`Writers`). A write that fails or crashes between reading and
truncating leaves the file as it was; one that does so after loses every field.

The shell's three properties need who waits for what: `OneAtATime` says of the
replies and the commands still queued, taken as one line (`Total`, `Cmd`, `For`),
that each url and ready command belongs to a chain that waits for just it and
that a restart is alone and shuts the retry button; `Bounds`, that no number of a
server to come is known anywhere. From these, `AllVouched`: a ready answer that is on
its way vouches for the url its chain has read, unless that server has been
replaced, even when the restart fell between url and answer; and `GoneTrue`: an
answer that the server is gone is true or has the result of a restart behind it
in the line, so that the page, for which `retrying` ends with that result, never acts on
it for the new server (`RetryShut`).

A board's invariant, `BoardIInv`, is what the entries are: those of the panels passed,
all of them `Resolvable`, each the answer to the last panel of its id (`BoardStepInv`; TLC has checked it on
`Panels`' instance before it was proved). The rest is about values, and the lemmas
follow the code: `IsView` is what the resolvers need, `ScopeIsView` that narrowing
keeps it although it puts None for a mean the source has not, and one lemma for each
resolver says that its answer is `Sound`; `ResolveSound` collects them. From it follow
`BoardComplete` and `ColumnsAddUp`: two or three groups, of which the last is what the
others leave (`PairAdds`, `TripleAdds`), and for the three that
quality/200 and 3/10 of a source, both rounded, fit in it (`HalfAndThirdFit`).

What sums need is one lemma, since induction over data is out of reach: a fold over a
finite set counts its marks, a set of x marks for each number x (`SumsAreMarks`, by a
least counterexample), so that sums are cardinalities, and adding, splitting and
bounding them is set theory (`SumStep`, `SumTwo`). `ScopesAddUp` then is that each share
is within a half of its exact quotient (`RoundNear`), that the quotients' numerators
add up to the whole (`SharesNear`) and that the assets cancel (`Cancel`).
`HeadlinesAgree` compares what two resolvers compute of one view (`HeadlineResolvers`);
its weakest source needs that the first of a stable sort is a minimum (`FirstRanked`).
`DrillCoversScope` weighs a source's rows against its assets: beyond the first, each
row of a source stands for a thousand (`DrillCounts`), so that with 20000 assets in
fifteen sources, none of them empty or all, no more than thirty rows are there
(`DrillFits`), and `FlattenSeq` has every source's (`FlattenParts`). `SignalsFirst` is
that all ranks of a sort by score are taken (`RanksTaken`, an injection of the places
into the ranks) and that of any two suggestions the signal goes ahead
(`SignalsAhead`): signals score more than fifty, or fifty and are collected first.

Only model-checked: `CallsEnd`, `SplashEnds` and `RequestsEnd`, which are
liveness under fairness, out of the prover's reach. Every safety property and action
property of the passing runs is proved. `CallsEnd` is checked for one thread; a
second one adds no way to wait, as nothing is locked. The two violated properties are
refuted by TLC; for `OneStrikeMasked`, `OneThreadMasks` gives the case in which it holds.

## Plan

Done: `PdcClient`, `LiveSnapshot`, `SourceInventory`, `SweepAggregate`,
`SettingsStore`, `DesktopShell`, `AccessControl` with `DashboardStore`, `ChatBuild`
with `Assistant`, `PanelData` with `Recommend` and `PanelBoard`, each with its proofs.
Left, in this order:

1. `SplashLog`: the shell's ring of 40 lines against the splash's count.
2. `ExplainView`: late answers in the frontend's drill, resolve and explain.

## Not modelled

Charts, layout, installers, icons and build scripts have no running state;
`_json_or_error`'s messages, `_clean_base` and the formatting of times and
percentages are wording, as are prompts, summaries and the deterministic notes of
`explain.py`; the LLM backends are single HTTP calls, so a completion is a text or
a failure; `routes/llm.py` and `model_advice.py` answer from a table and keep no
state. The splash's log and the frontend's late answers are planned, not done.
