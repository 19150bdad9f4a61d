# AlertMind in TLA+

AlertMind is a SOC triage assistant (`assistant/`), a set of read-only tools that
prepare a TLS change of the Wazuh dashboard's broker client (`siem/rbac/`), and the
scripts that verify its recorded evidence (`measurement/`). This directory holds
TLA+ models of it, the TLC runs that check them, and TLAPS proofs. All line numbers
are of the files below `src/`.

## 1. Inventory

| Component | State | Operations | Interacts with | What is hard |
|---|---|---|---|---|
| **Vendor-file reader** `siem/rbac/broker_tls/operator_fs.py` | held descriptors, the lstat of each, the bytes so far | `InstalledReader.__call__`, `_read_at` | the file system, which the service account and every administrator may change | some twenty system calls with anything in between |
| **Operator core** `operator_core.py` | none; a decision from an observation | `installed_checks`, `verify_installed_bytes`, `recovery_step` | the reader; a human who acts on the decision | the observation is old when it is acted on; crashes between the acts |
| **Bootstrap, launch, runtime observers** `operator_bootstrap.py`, `operator_launch.py`, `operator_runtime.py` | two passes of readings | `load_bootstrap`, `observe_launch_files`, `observe_package_runtime` | the reader | two equal passes are not a snapshot |
| **Service observer** `operator_service.py` | one child process, its pipe, a deadline | `_query`, `observe_service_configuration` | `busctl`, systemd | deadline, size limit, exit and kill race |
| **Process observer** `operator_process.py` | two procfs snapshots, an anchor | `observe_running_process` | procfs, the service observer | restarts and pid reuse between reads |
| **Candidate builder, client policy** `build_candidate.py`, `policy.cjs` | none | `build_from_tar`, the policy function | an archive; Node's TLS | pure |
| **Server inventory** `siem/rbac/collect_server_inventory.py` | one client: token, request count, deadline | `connect`, `request`, `fetch_collection`, `collect` | the Wazuh API, which others change | pages of a moving collection, limits in the middle |
| **Code inventories** `collect_broker_code_inventory.py`, `collect_dashboard_inventory.py` | as the reader, by path | `_read_public`, `collect` | the file system | reads by path, with no directory held |
| **Paste & inspect tab** `assistant/paste_tab.py`, `paste_core.py` | Streamlit session: text, settings, consent and its context, result, draft | `render`, `run_paste_pipeline` | sidebar, environment, provider client, audit log | events during a model call, consent and results that are out of date |
| **App shell** `assistant/app.py` | widgets; the process environment | sidebar, single triage, evaluator | the tab, the client | settings travel through `os.environ` |
| **Provider client** `assistant/llm.py` | timeout override (module global) | `call_llm_meta`, `_post`, `parse_response` | four providers | retries, timeouts, which endpoint is meant |
| **Ad hoc audit log** `assistant/audit.py` | one JSONL file | `append_jsonl_once` | the tab | scan-then-append, torn lines |
| **Batch runner, rebuild, scoring** `runner.py`, `rebuild_from_audit.py`, `scoring.py`, `schema.py` | a run directory | `main`, `rebuild`, `write_outputs` | client, file system | directory collisions, crashes, replay |
| **Redaction, views, markers, prompts** `redact.py`, `views.py`, `injection.py`, `prompts.py` | none | tree traversals | the tab, the runner | the order in which they are applied |
| **Preflight, samples, UI helpers** | none | a linear script, constants | the client | - |
| **Evidence verifier** `measurement/verify_frozen_evidence.py` | none | `verify_*` | committed files | - |

What makes each correct, in one line:

* reader: bytes returned are those of one instant, reached through trusted directories only; no leak, no endless call, no alarm without a cause;
* recovery: never a byte restored while startup is possible; repeated, it reaches the rolled-back state;
* two-pass observers: what is reported was true of each file at some instant of the call, and a change that stays is seen;
* service query: it ends by its deadline plus the cleanup's second, with the child reaped and the pipe closed;
* server inventory: one authentication, no request past a limit, no report after a drift that was seen;
* tab: nothing external without consent for exactly that; no delimiter leaves; the result is of the text on screen;
* audit log: one whole line per saved result, whatever was torn before;
* runner and rebuild: the log says what was sent and what was answered first; the rebuild of a
  log equals the run that wrote it.

`PROJECT.json` lists the hazards behind this at their lines, with the property that
covers each, or the reason why none does.

## 2. Plan

Done, in this order: the reader (the trust of every tool below `siem/rbac/broker_tls`
hangs on it), the tab (where an analyst's text leaves), the rollback with its abstract
specification, the two-pass observers, the manager query, the server inventory, the
batch pipeline with the provider client and the rebuild, the ad hoc log.

| Module | Models | Builds on |
|---|---|---|
| `OperatorFs` | `operator_fs.py` | |
| `TwoPass` | the observers of `operator_core`, `_bootstrap`, `_runtime`, `_launch`, `_service`, `_process`, and of the broker code inventory | the atomic read that `Atomicity` licenses, the query of `BusctlQuery` |
| `BusctlQuery` | `operator_service._query` | |
| `Recovery`, `Rollback` | `operator_core.recovery_step` in its loop; what it promises | `Recovery` implements `Rollback` |
| `ServerInventory` | `collect_server_inventory.py` | |
| `PasteInspect` | `paste_tab.py`, `paste_core.py`, the sidebar of `app.py` | `Triage` |
| `Triage` | `redact.py`, `views.py`, `schema.py`, `scoring.py` as functions | |
| `LlmPost` | `llm.py`: payload, record, attempts, outcome | `Triage` |
| `BatchRun` | `runner.py`, `rebuild_from_audit.py` | `LlmPost`, `Triage` |
| `AdhocAudit` | `audit.py` | |

The theorems are in a module of their own beside each of these that has behaviours:
`OperatorFsProofs`, `TwoPassProofs`, `BusctlQueryProofs`, `RecoveryProofs`,
`ServerInventoryProofs`, `PasteInspectProofs`, `BatchRunProofs` (which covers `LlmPost` and
`Triage`) and `AdhocAuditProofs`. Every safety property that a run checks is proved.

Left: the by-path reader of the code inventory, checked against the properties of
`OperatorFs`; two sessions of `PasteInspect` over one environment.

## 3. Modules

### OperatorFs - the reader against a changing file system

`OperatorFs.tla` follows `_read_at` (operator_fs.py:81-123) one system call per
action. Between two of them `Environment` may rebind a name, change owner or mode,
or rewrite a file.

| Code | Model |
|---|---|
| `InstalledReader.__call__`, `_platform`, `_identity` (23-42, 159-167) | `Call(code)`, with `Rejections` |
| `os.open('/')`, `root_before` (135-142, 91-92) | `OpenRoot` |
| `os.stat`, `_trusted`, size (98-101) | `Lstat` |
| `os.open` with `O_NOFOLLOW`, `O_DIRECTORY` (102-104) | `Open` |
| `os.fstat`, `_trusted`, stamps (105-109) | `Fstat` |
| `os.read` loop, size (110-116) | `Read`, `EndRead` |
| rechecks (117-122) | `RecheckFd`, `RecheckName`, `RecheckRoot` |
| `_os_error_code` (64-67) | the codes of `Lstat`/`Open`, and `IoError` |
| `ExitStack` (90, 104, 139-141) | `Unwind`, one descriptor per step |

`records`, `before`, `root_before` and `data` are `held`, `before`, `rootBefore` and
`data`. `since` and `genuine` are history: the clock at the call, and whether at the
leaf's recheck an atomic read would have returned the same bytes.

Abstractions. A directory is asked for one name only, so its contents are one
binding. Owner and mode are three classes: `root`, `service`, and `loose` (anything
`_trusted` refuses). A stamp is inode, class, size and ctime: `st_nlink` and
`st_mtime_ns` cannot change without `st_ctime_ns`. A cell of a file stands for a block
of bytes. The service identity is constant during a call: it is looked up once. That path and limit are those configured
(FS_TARGET, 160-161) is a precondition of `Call`, which its callers meet.

Two assumptions the code relies on and the model names. `Tick`: how far the timestamp
clock advances on a change. The atomicity theorem assumes `0 \notin Tick`; with a
coarse clock a second change of equal size within one tick shows no stamp (the run
`fs_race` is made with such a clock, for properties that do not need one). Mounts over
a component of the path are outside the model.

The docstring's warning that "equal reads are not an atomic snapshot" (line 5) is about
several reads and several files; `ReadIsAtomic` is about one call.

| Property | Says |
|---|---|
| `ReadIsAtomic` | whatever is returned was, at one instant of the call, what the whole trusted path led to |
| `NoFalseAlarm` | a race is reported only if something changed since the call began |
| `NoDescriptorLeak` | an ended call holds no descriptor |
| `ReadIsBounded` | never more than one byte past the limit is buffered; returned bytes fit limit and lstat size |
| `CallReturns` | a call that has begun ends |

Runs. `fs_read`: a path of two components, two directories, two files and a link that
compete for the names, one of them the service account's, a root directory that may
itself lose its trust; two changes anywhere in the call. Two changes are what a swap
and its reversal need, the smallest schedule that defeats a missing recheck.
`fs_race`: one component, but no bound on the number of changes: the clock stands
still, so the state space is finite though the environment runs for ever; files
longer than the limit, reads of one or two cells.

Fairness: weak fairness of the reader's own steps. The caller is one process running
straight-line code, and a system call on local disk returns. Nothing is assumed of the
environment (it may change files for ever or never), nor that anybody calls, nor that
an `IoError` happens. `CallReturns` needs the cap on the read loop: with a loop that
ends at end of file only, a writer that keeps appending starves it (its mutant).

### PasteInspect - the tab

`PasteInspect.tla` has one step per event: Streamlit reruns the script from the top
on each. The model call is the one place where it waits: `Run` leaves the result in
`calling`; `FinishRun` is the answer; any other event drops it, because Streamlit
abandons the run.

| Code | Model |
|---|---|
| `provider_endpoint` (paste_core.py:39-48) | `ConsentEndpoint` |
| `provider_request_info` (llm.py:419-454) | `CallEndpoint` |
| `requires_egress_consent`, `consent_context_hash` (paste_core.py:63-88) | `RequiresConsent`, `ConsentContext` |
| redaction, `apply_view` (paste_core.py:175-177) | `ModelBound`, of `Triage` |
| the gate's serialization and scan (paste_core.py:178-191, injection.py:83-91) | `Lines`, `ContainsBoundary` |
| the prompt's own serialization (prompts.py:98-105) | `Escape`, `UserMessage` |
| sidebar connection panel and `render` up to the button (app.py:57-112, paste_tab.py:56-77) | `Render` |
| `_input_changed`, example buttons (paste_tab.py:28-54) | `EditInput` |
| sidebar widgets | `Select` |
| the consent checkbox (paste_tab.py:70) | `Tick` |
| the Run button and the pipeline's gates (paste_tab.py:79-90, paste_core.py:145-202) | `Run` |
| the answer (paste_core.py:201-216) | `FinishRun` |

A usable text is an alert of `Triage`, so that redaction and view act on it as they do in
the batch run; a delimiter is two pieces side by side, in a value or in a key, and may be
put together only by the view, when it cuts an ATT&CK code out from between its halves. The
gate judges a serialization with `ensure_ascii=False`, while what is sent is serialized
again with escapes: `NoDelimiterSent` looks at the lines of the message, not at the verdict
of the gate. `view` stands for view and prompt. Consent is bound to the endpoint as it is
shown, without credentials and query (`Display`): two base URLs that differ in those only
are one. The environment starts in any
state a shell or a `.env` file may leave. One session is modelled, which is the
documented use; the environment is shared by the tabs of a process, and two sessions
are not composed. The reference label and the proof's layout decide nothing and
are left out. `allow_call` is never false in the application.

| Property | Says |
|---|---|
| `ConsentIsBound` | a message goes to an external endpoint only if the box was last ticked with that text, target and endpoint on screen |
| `NoDelimiterSent` | no message holds a delimiter in a key or a value, put together by the view or not, seen by the gate or not |
| `ResultIsOfInput` | the result on screen is of the text on screen, and no other draft is kept |
| `EndpointChangeIsStale` | an unmarked result was made at the endpoint shown (refuted) |

Runs. `paste_tab`: a plain text, an unusable one, one with a delimiter split by a code and one
with a delimiter for a key; three providers; one loopback and three external endpoints, two of
which differ in a credential; two clicks on Run, any number of other events. Two runs are enough for a late
answer to meet a newer run. `paste_stale` refutes what the documents say, see section 5. The
sidebar exports the base URL in both runs (`Sidebar`). There is no liveness here: everything waits for a user,
and a model call may be abandoned at any time.

### TwoPass - the observers

Seven functions look at several things one after the other, twice, and compare. A
*script* is the order of the looks of one of them, and with each look the earlier looks
it must by then be equal to; `Step` takes the next look at the world as it is now. So one
state machine serves all seven, and a script is checked against the body it translates:

| Code | Script |
|---|---|
| `verify_installed_bytes` (operator_core.py:113-136) | `VerifyInstalledBytes` |
| `load_bootstrap` (operator_bootstrap.py:69-86) | `LoadBootstrap` |
| `observe_package_runtime` (operator_runtime.py:88-106) | `ObservePackageRuntime` |
| `observe_launch_files` (operator_launch.py:56-82) | `ObserveLaunchFiles` |
| `observe_service_configuration` (operator_service.py:216-228) | `ObserveServiceConfiguration` |
| `observe_running_process` (operator_process.py:181-202) | `ObserveRunningProcess`, with `NativeSnapshot` and `Anchor` |
| `collect` (collect_broker_code_inventory.py:238-257) | `CollectBrokerCode` |

One manager configuration is two looks, `unit` and `service`, because `_read_configuration`
sends one query per group. Files are atomic, by theorem `Atomicity` (for the code
inventory, whose reader is another, this is an assumption). Of the module tree one file
stands for all. A pinned file has one content that passes; other files have two, since
dpkg may hold a package and a certificate may be wrapped anew and still pass.
`_executable` is one look: link, descriptor and digest are bracketed by its own stamps.
The process may be restarted under the same pid or another, its pid be taken over, its
start time in ticks be that of its predecessor; the manager's timestamp always differs.

| Property | Says |
|---|---|
| `SnapshotUnlessReversed` | unless something was changed and changed back, all that a successful observer saw was there together at one instant |
| `OneInstance` | a process observation is of one run of the service, from the first answer of the manager to the last |
| `NoFalseAlarm` | a change is reported only if there was one |

The docstrings say that two equal passes "are not an atomic snapshot"; the first property
is what they are, and the exception is exactly that warning. Run `observers`: two pids and
two changes per call, each of which may hit anything the observer looks at. Two are the
least for a change that is undone, and for a restart followed by a takeover of the pid.

### Recovery and Rollback - the rollback decision

`recovery_step` (operator_core.py:151-181) is pure: one decision from six facts. Its
docstring describes the caller, which is not in the repository: observe afresh, apply one
decision, observe again, never on old knowledge across a crash. `Recovery` is that loop.
Facts are read one at a time and may be old when the decision is applied (`Apply` does not
look again), a read may fail (the fact stays unknown), an action may fail, the operator
may crash. Meanwhile the service starts whenever nothing prevents it, dies, and others
write the client or the backup. Nobody else lifts the inhibition: it is to be durable.

`Rollback` is the promise: quiet first, then original bytes, then metadata, a stage at a
time and only while quiet; others may throw the stage back. `Stages` in `Recovery` maps
`quiet` to `inhibited /\ stopped` and `stage` to how far the client is restored;
`RollbackSpec` is checked as a property: every step of the loop is a step of `Rollback`
or none.

| Property | Says |
|---|---|
| `RollbackSpec` | the refinement |
| `RestoresSafely` | the client is touched only while inhibited and stopped, and, unless others wrote since it was read, only known bytes are replaced, by the original |
| `RolledBackIsTrue` | "rolled back" is true of the host, with the same proviso |
| `Ended` | the operator comes to an end |

The proviso is necessary: a decision on a digest cannot see a write after the read; the
history variable `sawAt` marks it. Run `recovery`: two foreign writes and two faults.
Fairness: the operator goes on (`WF_vars(Operator)`), nothing else. `Ended` depends on the
order of the decision: stopping before inhibiting lets a restarting service keep the
operator busy for ever (its mutant).

### BusctlQuery - one child process

`_query` (operator_service.py:104-144), call by call: `Spawn`, the loop of `Check`
(`remaining > 0`), `Select` and `Read`, then `Wait`, and the `finally` block as `Cleanup`
and `Reap`. An OSError of `select` or `os.read` is `Break`; nothing says when it happens. One of
`kill` or `wait` is not told from a wait that timed out: both end in SERVICE_CLEANUP. The child writes, closes its output, exits with any status, hangs beyond
SIGKILL, in any order; the pipe has a capacity. Time passes only while the observer is
blocked, so the bounds are bounds on waiting.

| Property | Says |
|---|---|
| `OkIsWhole` | what is returned is all the child wrote, of a child that exited with 0 and was reaped |
| `Bounded` | the call waits no longer than deadline plus grace and buffers at most a byte past the limit |
| `NothingLeft` | after the call the pipe is closed, and the child is reaped unless SERVICE_CLEANUP says that it was killed in vain |
| `Returns` | the call returns |

Run `busctl`: deadline 3, grace 1, limit 4, chunks of 2, a pipe of 3: a reply takes several
reads, fills the pipe, and may pass the limit. Fairness: of the observer's own steps and of
the clock. None of the child, nor of `Break`.

### ServerInventory - the collector

`main` and `collect` are one script of requests, `Script`; a request is `Ask` (count,
limit, connection, secrets) and `Answer` (page, context, checks) or `GiveUp`. The operator
may also end the input where credentials are asked for (`Decline`). Between the
two the server changes: items are created and deleted, links made and removed (a link is
shown by both its ends), the configuration edited. Each connection may reach another
process. The collections are two of the four (`users` and `roles`, which link to each
other), and a page holds one item of at most two. What `summarize` demands of names,
policies and rules is left out, except that links match from both ends and that the context
is acceptable. A page is as full as the collection allows. A collection is compared with that
of the first pass when it is read, not at the end of the second pass; a difference makes the
run fail at either place.

| Property | Says |
|---|---|
| `InventoryIsSnapshot` | an accepted inventory is the server at one instant, unless something was changed and changed back, however the pages shifted |
| `SecretsOnlyToPinned` | password and token go to the pinned peer only, the password once, and from a TLS stack that was seen to check host names |
| `LimitIsEnough` | the request limit never ends a collection |
| `Ends` | the collector ends, or waits for the operator to type |

Run `inventory`: three edits. `MaxRequests = 17` is what the model's script and pages need
to the last request, tighter than the code's 100, of which 89 can be needed: an
error of one in the code's count would go into that slack, and is seen only in the model. Fairness:
requests are made and every request ends (`GiveUp`); nothing is assumed of the operator at the
keyboard, nor that the edits stop. That a request ends is the work of the loop and the deadline
of `read_body` (170-204), and of the timeout for the headers, which are one step here: `Ends`
is about the script above them and says nothing of a response that never stops.

### Triage, LlmPost, BatchRun - the batch pipeline

`Triage` holds the pure steps. An alert is a function from fields (key, and whether at the
top) to strings. A string is a sequence of pieces, and what a regular expression looks for is
two pieces side by side: the name of a secret and its value, the letter and the digits of an
ATT&CK code, the halves of a delimiter. Redaction marks the value, the view cuts codes out and
joins what stood around them; so what one of them leaves may be something the other looks
for, or looked for in vain. A reply is its techniques, the form of that field, disposition and
the rest, or no string at all. Outside this abstraction: codes inside keys, and the leak detector
`evaluation_view_leaks`.

`LlmPost`: which parameters the payload has and which of them the recorded `request_config`
names, per provider; a missing key, a base URL or numbers that cannot be used; the attempts
with their outcomes; what metadata survives each kind of failure (llm.py:222-248, 288-314,
337-416, 457-616). A post is a connection: `Send`, the headers (`Arrive`), a body that may come
in pieces, the end (`Deliver`), or nothing for as long as the timeout (`Wait`, `Expire`), which
every byte sets back (`Dribble`). `broken` is every `requests.ConnectionError`: refused, reset
after the request was taken, or a body that paused for too long. Like the statuses of
`_RETRYABLE`, 504 among them, it is tried again: a model may work on one alert twice,
and no property denies it. Pauses and their doubling are left out.

`BatchRun` is `runner.main` for a selected corpus: redact, view, post, validate, score,
log; then the summaries, file by file. The log is buffered (`Flush` hands on any prefix,
possibly torn within a line; a line without its newline is a whole line for the rebuild); the
run may be killed anywhere, and so may the rebuild, which reads what is on the disk. No loss of
flushed data is considered.

| Property | Says |
|---|---|
| `RebuildReproduces` | what is rebuilt is what the run scored, for the lines that reached the disk |
| `SummariesAreOfLog` | summaries exist only beside the whole log they came from |
| `SentAsLogged` | the prompt in the log is that of every post of that alert, the configuration that of the payloads or missing; it is not missing after any of the outcomes for which the code keeps it |
| `OneSample` | the first answer to an alert, however bad, is its last post, and its line and row are of that answer; without an answer the line says so |
| `CreditIsDeserved` | gated credit goes only to valid, fitting, consistent replies |
| `Finishes` | left alone, a run ends with whole summaries, unless a provider sends byte after byte for ever |
| `InvalidIsRecorded` | no reply takes the run down (refuted) |
| `NoSecretSent` | no prompt that is sent has the name of a secret beside its value (refuted) |

Run `batch`: an attack and a benign alert under the evaluation view, five settings of three
providers (two of them unusable), one retry, one kill; the replies are chosen so that each
field alone is what is wrong with one of them. One kill is enough: a killed run is over, and a
killed rebuild may be started again. One retry is enough to tell a first post from a second one.
Fairness: the runner goes on, and time passes for it (`Wait` and `Expire` are its steps); nothing
is assumed of the provider, and none of rebuild, flush or kill. `batch_typed` and `batch_joined`
are the same system with one of the refuted properties each.

### AdhocAudit - the log behind the save button

`append_jsonl_once` (audit.py:88-108) as a scan and a write, by several writers. The id of a record
is the id of a result (paste_core.py:158), so writers of one id are overlapping reruns of one
tab; writers of different ids may be different tabs. Writes under
`O_APPEND` are atomic, as the code assumes (line 98), but may be short, which the code does
not look at: the text may be the record without its newline, its beginning, or its
beginning up to within a character (the JSON is not ASCII only). Writers fail and die.

| Property | Says |
|---|---|
| `SavedIsKept` | without a short write no reported record is ever lost; each short write costs at most two |
| `SavedOnce` | a record is in the log at most as often as there are writers, so once for the single writer the docstring names |

The two records of a short write are its own and the next one, which is glued to the torn line.
`SavedIsKept` bounds what the ignored result of `os.write` costs; it does not deny the cost
(section 5). After a line that was cut within a character no tab can save any more: decoding is outside
the `try` of `_existing_ids` (audit.py:76-84), so the scan raises (`Undecodable`). That a
lock-free scan lets two writers write a record twice is what the docstring's "single-writer"
concedes. Run `audit`: two writers, three results, two faults: two short writes can then cost
three reported records. Results are interchangeable, and so are writers, hence the symmetry.
There is no liveness: a tab saves when its user presses the button.

## 4. Proofs

### The reader: `OperatorFsProofs.tla`

For every path depth, set of inodes, limit and chunk, from `FsAssumption`:

| Theorem | Hypothesis | Statement |
|---|---|---|
| `TypeCorrect` | - | `Spec => []TypeOK` |
| `Atomicity` | `0 \notin Tick` | `Spec => []ReadIsAtomic` |
| `NoAlarmWithoutChange` | `0 \notin Tick` | `Spec => []NoFalseAlarm` |
| `Bounded` | - | `Spec => []ReadIsBounded` |
| `NoLeak` | - | `Spec => []NoDescriptorLeak` |

The hypothesis says that every change moves the clock; it is what the two theorems about
change are about. The other three hold of any clock, also one that stands still (`fs_race`).

`ReadIsAtomic` is not inductive. The argument: a stamp that is the same at two moments
says that the inode did not change in between, for a change would have given it a later
ctime (`ClockInv`: no ctime lies ahead of the clock). A directory that did not change
between its lstat and its recheck kept its binding all that time. The rechecks go up
from the leaf, so the leaf's recheck lies inside all these intervals: the instant
at which the leaf is compared is an instant at which every component was bound and
trusted as recorded. The invariant `IInv` says this for a call under way. `HeldInv` and
`Chain`: what the records hold was bound in its parent when it was opened, and still is
if the parent has not changed since. `DataInv`: the cells read are a prefix of the leaf's
content, if the leaf has not changed. `GenuineInv` and `Covered`: if `genuine`
is false after the leaf's recheck, some component not rechecked yet has a ctime later
than its record, and the recheck to come will find it.

`NoAlarmWithoutChange` has an invariant of its own, `QuietInv`: while the clock has not
moved since the call, each record equals the present stamp of its component and its name
is still bound to it. `Bounded` and `NoLeak` are inductive relative to `IInv`. What `IInv`
says of untouched inodes it says only of a clock that ticks (`Untouched`), so that without
one it still gives the types, the positions and the lengths these need.

### The tab: `PasteInspectProofs.tla`

For every set of texts, targets and endpoints and any number of runs, from
`PasteAssumption`:

| Theorem | Hypothesis | Statement |
|---|---|---|
| `PasteTypeCorrect` | - | `Spec => []TypeOK` |
| `Consent` | `Sidebar` | `Spec => []ConsentIsBound` |
| `ResultBelongs` | `None \notin Results` | `Spec => []ResultIsOfInput` |
| `NoDelimiter` | - | `Spec => []NoDelimiterSent` |

`Consent` needs the invariant that a ticked box was last ticked in the context that was
last shown (`ConsentInv`); a rerun keeps the tick only if that is the context of the new
screen (`RenderConsent`), and with the sidebar the consent gate's endpoint is the
client's (`RenderEndpoint`). The hypothesis `Sidebar` is the point where the proof
fails for a caller other than `app.py`: set `Sidebar = FALSE` in
`paste_tab.cfg` and TLC shows the counterexample (section 5).
`ResultBelongs` needs that a call under way is of the text on screen and that there is
no result beside it (`ResultInv`). `NoDelimiter` needs that escaping other characters neither
makes nor breaks a delimiter (`EscapeKeepsDelimiters`), so that the gate and the message agree
though each is serialized for itself (`SameDelimiters`).

### The observers: `TwoPassProofs.tla`

For every set of pids and any number of changes during a call, from `TwoPassAssumption`,
and for each of the seven scripts:

| Theorem | Statement |
|---|---|
| `TypeCorrect` | `Spec => []TypeOK` |
| `AlarmIsTrue` | `Spec => []NoFalseAlarm` |
| `OneRun` | `Spec => []OneInstance` |
| `Snapshot` | `Spec => []SnapshotUnlessReversed` |

The inductive invariant speaks of the history of worlds. `Past`: the manager's count of
starts never falls from one world to a later one, and while it stays, so do the service
and the identity, start time and owner of its main process. `Looked`: each look saw one of
these worlds, later looks no earlier ones. `Compared`: until it fails, an observer has
accepted every value and found every pair of its script equal. `Entered`: in a world that
does not change the directory held open is that of the main process, so that a process
that cannot be read has gone (`AlarmIsTrue`).

`OneRun` follows from `Past` and the equality of the manager's first and last answer. For
`Snapshot` the scripts have to be looked at: `Bracketed` says that every look has an equal
one at or before a certain middle look, and one at or after it; equal because the script
compares them, or because the file is pinned. What was equal on both sides and did not go
back was so in the middle. For the process script it holds of the manager's answers, the
executable, the command line and the environment; directory, start time and owner follow
from `OneRun` instead, which is why the proof needs the manager around both snapshots. The
instant is the middle look, the 12th of 24 for a process.

### The query: `BusctlQueryProofs.tla`

For every timeout, grace, limit, chunk and pipe size, from `QueryAssumption`:

| Theorem | Statement |
|---|---|
| `TypeCorrect` | `Spec => []TypeOK` |
| `QueryIsBounded` | `Spec => []Bounded` |
| `ReplyIsWhole` | `Spec => []OkIsWhole` |
| `CleanedUp` | `Spec => []NothingLeft` |

The invariant adds, by program counter, what is open and what is decided (`Stages`), that
one deadline holds for reading and waiting and one more for the reaping (`Deadlines`), that
the exit is only waited for once the output has ended and was read (`Ended`), and that the
last wait is for a child that was sent SIGKILL (`Signalled`).

### The rollback: `RecoveryProofs.tla`

For any number of foreign writes and of faults, from `RecoveryAssumption`:

| Theorem | Statement |
|---|---|
| `TypeCorrect` | `Spec => []TypeOK` |
| `RolledBack` | `Spec => []RolledBackIsTrue` |
| `SafeRestore` | `Spec => RestoresSafely` (an action property) |
| `Refinement` | `Spec => RollbackSpec` (step simulation under `Stages`) |

All of them rest on what an observation, made fact by fact and growing old, still says of
the host: a decision is `RecoveryStep` of the observation it was made on (`Decided`); seen
inhibited and then stopped, the host is both, since nobody else lifts the inhibition and
nothing starts under it (`Quieted`); facts about the files are true as long as nobody wrote
since, and a client that was seen as the candidate has not become the original by itself
(`Fresh`). The order of the reads matters: "stopped" is only good after "inhibited".

### The collector: `ServerInventoryProofs.tla`

For any collections, finite sets of items, page size, item limit and number of edits, from
`InventoryAssumption` (collections have names of their own, the server begins with finitely
many items, and the request limit covers nine reads and two passes):

| Theorem | Statement |
|---|---|
| `TypeCorrect` | `Spec => []TypeOK` |
| `SecretsAreSafe` | `Spec => []SecretsOnlyToPinned` |
| `LimitSuffices` | `Spec => []LimitIsEnough` |
| `Snapshot` | `Spec => []InventoryIsSnapshot` |

`Snapshot` is the hardest of them, because a collection is read page by page while items
come and go. The invariant `Between` claims an instant m such that each collection of the
first pass had, at its last page at or before m, as many items as were found, each of them
seen by then (`Ended`), and had as many again at its first page of the second pass, at or
after m, each of them seen since (`Began`). Pages alone do not tell what was there: a
deletion shifts the next page. But what was found twice, before m and after, and did not go
back, was there at m; and a set of as many items as the collection had at both ends cannot
have missed one, since what it missed would have been there at both ends and so in between
(`CollectionBetween`, with cardinalities). `LimitSuffices` counts: every page but the last
of a collection was full, so `n * PageSize` items cost n requests (`Counted`).

### The batch run: `BatchRunProofs.tla`

For every corpus, set of replies, settings, number of retries and kills, from
`BatchAssumption` and `PostAssumption` (the corpus is a sequence of alerts with a truth):

| Theorem | Statement |
|---|---|
| `TypeCorrect` | `Spec => []TypeOK` |
| `Reproduced` | `Spec => []RebuildReproduces` |
| `WholeLogFirst` | `Spec => []SummariesAreOfLog` |
| `LogIsTrue` | `Spec => []SentAsLogged` |
| `FirstAnswerCounts` | `Spec => []OneSample` |
| `CreditIsEarned` | `Spec => []CreditIsDeserved` |

`Scored` is what makes the rebuild agree: the row of a line is that of its raw reply and of
the corpus, and so what `rebuild_from_audit.py` computes from the line. `Calling` counts the
posts of the alert at hand by the attempts of the client, and says that all but the last were
transient; `Told` what the client knows after each
outcome, `Heard` what it heard. `Logged` carries both over to the lines, and `Repeats` the
order of the posts to the alerts that are done: together they give `FirstAnswerCounts` and
`LogIsTrue`. That the recorded configuration is the payload's is a lemma about the two
functions (`ConfigIsPayload`), for each provider. `Files` keeps summaries behind the whole log.
That credit is earned is a lemma about the operators of `Triage`, applied to `Scored`.

### The ad hoc log: `AdhocAuditProofs.tla`

For any finite number of writers, from `AuditAssumption`:

| Theorem | Statement |
|---|---|
| `TypeCorrect` | `Spec => []TypeOK` |
| `LossIsBounded` | `Spec => []SavedIsKept` |
| `CopiesAreBounded` | `Spec => []SavedOnce` |

Both count. `CopiesBounded`: the copies of a record in the log and the writers that still hold
its id from their scan are together no more than the writers. `LossBounded`: the records lost
and what a last line without its newline may still cost (the line to come, and itself if it
is a whole record) are together at most two for each short write.

TLC checks each of these on an instance as well, and checked the inductive invariants on
those instances before they were proved.

### Only model-checked

Liveness (`CallReturns`, `Ended`, `Returns`, `Ends`, `Finishes`) is out of the prover's
reach. So is deadlock freedom, which TLC checks in every run whose configuration does not
say otherwise. The three properties of runs that end in a violation are refuted by them.

## 5. Findings

* **A changed base URL does not mark a result stale** (`paste_stale`), though the README
  of the assistant and the tab's own warning say that settings do.
* **One odd reply ends a batch run** (`batch_typed`). A disposition that is a list, or an
  ATT&CK field that is a non-empty list or a number, raises `TypeError` in
  `validate_output` or in scoring, and content that is no string raises in `parse_response`, outside the `try` of the loop: no line for that alert,
  no summaries. `schema.py` says that invalid output is caught and recorded.
* **The view can put a secret together** (`batch_joined`). Redaction runs first; with an ATT&CK
  code between the name of a secret and its value it finds nothing to redact, and the view
  cuts the code out and joins the two. `redact.py` says that secrets never leave.

Four more disagreements are in the models, where a property states what is left of the claim,
but no run is made to refute the claim itself:

* Two ideas of the endpoint. With `OPENAI_BASE_URL` alone set, the consent gate sees Ollama's
  loopback default (paste_core.py:39-48) and the client calls `OPENAI_BASE_URL` (llm.py:429-436),
  although paste_core.py:40 calls the first "the effective provider endpoint". Within the app
  the sidebar exports `OLLAMA_BASE_URL` on each rerun and so hides it: `Sidebar` in `Consent`.
* Some failures lose the request config. A body that is no JSON, or JSON of an odd shape, raises
  something else than `ProviderError` before the config is attached (llm.py:306-308, 339,
  368-375, 522), although llm.py:160-161 says that a failure carries "always the request config":
  the outcomes missing from `Promised` in `SentAsLogged`.
* The timeout of a call is one between bytes. A provider that keeps sending holds the post, the
  run and the tab (llm.py:229), although llm.py:15 calls it a "per-call timeout": the exception
  in `Finishes`.
* A short write is reported as written. The result of `os.write` is not looked at (audit.py:101),
  and "True if the record was written" (audit.py:90) is returned for a torn line: the two lines
  per short write in `SavedIsKept`.

Noticed and outside the models: `validate_output` accepts `null` queries and an empty
technique id, which the "equivalent" `JSON_SCHEMA` (schema.py:12, 24-47) does not; two
runs of one configuration started within a second share a directory (runner.py:133-138)
although its header calls run directories non-overwriting; codes in keys, and codes that appear
only when a code within them is cut out, survive the view (views.py:15-20, 47-52).

## 6. Not modelled

Formatting, rendering and logging; the contents of prompts; the regular expressions of
redaction and views (their effect on pairs of pieces is modelled); the redaction trace and the
advisory injection markers, which decide nothing; argument parsing and corpus selection of
the runner; `.env` loading, mock replies and `timeout_override` of the client, which only
the single-threaded preflight uses. The parsers of the observers (manifest, dpkg status,
PEM, busctl replies, procfs) appear as the contents they accept. The candidate builder, the
rotation payload and the evidence verifier are sequential, run by hand on committed files,
and share no state with anybody. The dashboard inventory reads three files once and claims
nothing about time. Detections, playbooks, evidence and documents are not programs.

## 7. Running

    tlc -workers 2 -config fs_read.cfg MCOperatorFs
    tlc -workers 2 -config fs_race.cfg MCOperatorFs
    tlc -workers 2 -config paste_tab.cfg MCPasteInspect
    tlc -workers 2 -config paste_stale.cfg MCPasteInspect     (ends in a violation)
    tlc -workers 2 -config observers.cfg MCTwoPass
    tlc -workers 2 -config recovery.cfg MCRecovery
    tlc -workers 2 -config busctl.cfg MCBusctlQuery
    tlc -workers 2 -config inventory.cfg MCServerInventory
    tlc -workers 2 -config batch.cfg MCBatchRun
    tlc -workers 2 -config batch_typed.cfg MCBatchRun         (ends in a violation)
    tlc -workers 2 -config batch_joined.cfg MCBatchRun        (ends in a violation)
    tlc -workers 2 -config audit.cfg MCAdhocAudit
    for m in OperatorFs TwoPass BusctlQuery Recovery ServerInventory PasteInspect \
             BatchRun AdhocAudit; do tlapm ${m}Proofs.tla; done
