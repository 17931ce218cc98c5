# A TLA+ development of the licensing package

This directory models and verifies `src/licensing/`, the Python package that decides whether an
installation of the application may run, and `src/docker_entrypoint.py`, which calls it in
containers. The modules are translated from the source; TLC checks them on small instances, and
TLAPS proves the results listed below for every value of the constants.

Contents: [system](#1-the-system) · [modules](#2-the-modules-and-the-code) ·
[runs](#3-what-is-checked) · [conditions](#4-what-the-properties-depend-on) ·
[disagreements](#5-where-code-and-documentation-disagree) · [fairness](#6-fairness) ·
[proofs](#7-what-is-proved) · [not modelled](#8-what-is-not-modelled-and-why) ·
[how it is built up](#9-how-the-development-is-built-up).

## 1. The system

A license is a signed token in `license.key`. A container first *activates* it (binds it to the
host), the application then validates it in layers at startup, a *heartbeat* thread validates it
again every interval, and each request asks the *gate* whether the license in force allows its
pipeline.

    docker_entrypoint.main ──► AutoActivator ──► activation.json  (volume, shared by replicas)
            │ execs
            ▼
    startup_license_check ──► LicenseValidator ──► .ntp_cache, .hwid_history
            │                       └──► RevocationChecker ──► revoked.json ◄── revoke() of the operator
            ├──► ConcurrencyGuard ──► .active_lock  (license directory, shared by machines)
            ├──► PhoneHome, AuditLogger
            └──► LicenseHeartbeat ── _heartbeat_validate, _on_heartbeat_success, _on_heartbeat_fail
                        │ writes _license_info, the failure counter, the grace timer
                        ▼ reads
    request ──► PipelineGate.__call__ ──► check_pipeline_access ──► TierManager

### Inventory

| component | state | operations | interacts with | what is hard |
|---|---|---|---|---|
| **Heartbeat** `heartbeat.py` | `_running`, `_stop_event`, `_thread`, `_failure_count` | `start`, `stop`, `_heartbeat_loop`, `is_healthy` | three callbacks of its owner; read by requests | a `stop()` that waits at most 5 s; callbacks that raise inside the same `try`; a loop that must never end |
| **License in force** `license_middleware.py` | `_license_info`, `_heartbeat_first_fail_time` (closure) | `_heartbeat_validate`, `_on_heartbeat_success`, `_on_heartbeat_fail` | heartbeat, validator, lock, requests | three pieces of state updated one after the other while others read them |
| **Startup check** `license_middleware.py` | the globals above, `_heartbeat`, `_concurrency`, `_phone_home` | `startup_license_check` (8 layers) | everything | a layer that fails leaves the work of the earlier ones behind |
| **Request gate** `license_middleware.py` | none | `PipelineGate.__call__`, `check_pipeline_access` | `_license_info`, heartbeat, tiers | reads a global several times while it is replaced |
| **Tier manager** `tier_manager.py` | a table | `get_allowed_pipelines`, `is_pipeline_allowed` | gate | none; limits are returned, not enforced |
| **Concurrency guard** `concurrency.py` | `.active_lock` | `acquire`, `refresh`, `release` | startup, heartbeat, other machines | read, decide, replace without a lock; staleness by wall clock |
| **Container activation** `auto_activator.py`, `docker_entrypoint.py` | `activation.json` | `is_activated`, `verify_activation`, `activate`, `_write_with_lock` | entrypoint, startup check, other replicas | truncation before the write, renewal of `license.key`, moving hosts, clock corrections |
| **License validator** `license_validator.py` | `.ntp_cache`, `.hwid_history` | `validate`: read, signature, claims, hardware, expiry, revocation | time servers, hardware, revocation list | sources of time that differ; a history that is rewritten in place |
| **Revocation list** `revocation.py` | `revoked.json`, `_revoked` | `reload`, `check`, `revoke` | validator, operator tool | a list that is emptied and rewritten beside a reload |
| **Phone-home** `phone_home.py` | last status, last server time | `send`, `send_sync`, `verify_or_fail` | startup, heartbeat, remote server | failure in the last layer |
| **Audit log** `audit_logger.py` | monthly log files, `_last_hmac` | `log`, `verify_chain` | all components | chain across months, failed writes, several writers |
| **Integrity** `integrity.py` | baseline hashes | `verify`, `enforce` | startup | which of three references counts; builds without source files |
| **Docker hardware id** `docker_hwid.py` | none | `check_bind_mounts`, `generate_docker_hwid`, `is_docker` | entrypoint, startup, hardware id | an order of sources, each missing, unreadable or implausible in its own way |
| **Hardware id** `hwid_generator.py` | none | `generate_hwid` | validator, startup | commands with a time limit: the answer of one machine may change |
| **VM detection** `vm_detector.py` | none | `check_all` | startup | checks that fail silently; a threshold |
| **License generator** `tools/generate_license.py` | none | issue, `--revoke` | validator | arithmetic of durations |
| **Set-up, build** `setup_license.py`, `tools/obfuscate.py`, Docker and Kubernetes files | none | file copying | none | none |

### What makes each component correct

* **Heartbeat**: a second loop only where `stop()` has given up on the first; a failure count that
  is right although callbacks fail and loops share it; `stop()` ends it; nothing else does.
* **License in force**: a license dies only after one unbroken series of alarms that lasts the
  grace, always dies then, and always comes back when validation succeeds again; the gate and
  the timer never disagree for longer than one success takes.
* **Request gate**: grants and denials are backed by a license that was in force during the
  request; when validation fails for good, requests for pipelines get
  through no more, but for those that are already past its first reads.
* **Concurrency guard**: one machine; a stale lock is a dead one; a dead one is replaced.
* **Activation**: the limit on hosts, the monotonic boot counter, no refusal without a cause, no
  boot that waits for a dead one.
* **Validator**: expiry and offline grace within the error of the clock, revocation, and the
  limit on migrations, through crashes, outages and unreadable files.

* **Startup check**: nothing runs that a layer has not cleared; one machine at a time; no start
  is refused for what an earlier start of the same machine left behind; what a failed start
  leaves behind does not last.
* **Audit log**: what nobody disturbed verifies; a failed write costs one break; what was written
  is shown; what was edited never verifies again.

The hazards, each at its line with the properties that would catch it going wrong, are in
`PROJECT.json` under `hazards`.

## 2. The modules and the code

| module | models | extends / uses |
|---|---|---|
| `LicenseHeartbeat` | `heartbeat.py`, callbacks left open | |
| `LicenseMiddleware` | the callbacks, `_license_info`, the grace timer | EXTENDS `LicenseHeartbeat`; INSTANCE `LicenseWatchdog` |
| `LicenseWatchdog` | abstract specification of the two above | |
| `PipelineGate` | requests through the gate | EXTENDS `LicenseMiddleware`, `TierManager` |
| `TierManager` | the default table of tiers | |
| `ConcurrencyGuard` | the lock file and its instances in time | |
| `AutoActivator` | boots of containers around `activation.json` | |
| `RevocationList` | `revoked.json`, `revoke()`, `reload()`/`check()` | |
| `LicenseValidator` | `validate()` and its files, with a changing world | EXTENDS `RevocationList` |
| `AuditLog` | the log files and the loggers that append to them | |
| `DockerHwid` | the identity of a container's host: a pure module | |
| `HardwareId` | the identity of a machine: a pure module | EXTENDS `DockerHwid` |
| `VMDetector` | checks and threshold: a pure module | |
| `IntegrityChecker` | comparison of files and hashes: a pure module | |
| `PhoneHome` | the beacon and the server that receives it | |
| `StartupCheck` | a start of the application, layer by layer, on several nodes | EXTENDS the five above |
| `*Proofs` | theorems of the module they are named after | EXTENDS it and `TLAPS` |
| `MC*` | small instances for TLC | EXTENDS the module |

An operator whose comment starts with *Mutant* is not part of a specification: it is the form a
definition would take under a plausible slip, and shows that a property is able to fail.

**LicenseHeartbeat.** `pc[t]` is the place of thread `t` in `_heartbeat_loop`; one action per
statement that changes or reads shared state: `Wake` (the wait and the test of the event),
`ValidateReturns`/`ValidateRaises`, `RecordSuccess` (line 101), `OnSuccessReturns`/`Raises`,
`RecordFailure` (line 111, with the comparison at 124), `OnFailureReturns`. `on_failure` and
`audit_fn` run inside the `except` handler, where nothing catches what they raise; they are
taken to return, which is true of the application's (`_on_heartbeat_fail` only compares and
assigns, `AuditLogger.log` catches everything). An owner whose `on_failure` raises loses the
loop. `Start` and `Stop`
return at once, `StopReturns` is the end of `join(timeout=5)`: with the end of the thread, or, when
the thread is in the middle of a beat, without. `abandoned` are the threads `stop()` gave up on, and
`overlapped` says that `start()` has added a loop to one that was alive. The failure count saturates at
`MaxFailures`, which is all it is compared with. `_failure_count += 1` is one step: CPython
3.11, the interpreter of the Dockerfile, switches threads only at calls and backward jumps. `misses` and `failedBeats` are history
variables. The time stamps that only `status()` reports are left out.

**LicenseMiddleware.** `verdict` is what `validate()` would answer now. The heartbeat's callback
points become `HeartbeatValidate`, the three statements of `_on_heartbeat_success`
(`InstallLicense`, `ResetGraceTimer`, `RefreshLock`; `refresh()` may raise), and
`OnHeartbeatFail`. `failingFor` is the age of `_heartbeat_first_fail_time`. The license that
`_on_heartbeat_fail` kills is the object that is in force at that moment, so a later success
replaces it. `TrustStatus`/`SuspendedFor` map the state to `LicenseWatchdog`: between
installing a license and resetting the timer the license already counts as trusted.

**PipelineGate.** The gate reads `_license_info.valid`, then `is_healthy`; the pipeline check
reads `tier`, then `in_grace_period`: four steps, between which the heartbeat may do anything.
`facts` is a history variable: everything a request could have observed while it was in
progress.

**ConcurrencyGuard.** `acquire()` is `AcquireRead`, `AcquireDecide` and `AcquireReplace` (the
`os.replace`), `refresh()` is `RefreshRead` and `RefreshReplace`, `release()` is `ReleaseRead` and
`ReleaseRemove`. A time stamp is kept as its age. A beat is due `Interval` after the one before and
starts within a further `Delay`; the time from a stamp to its replacement is at most `Delay`.
`MissBeat` is a beat that does not refresh the lock. `disturbed` records how the exclusion was
broken: `race`, `expired`, `release`. `release()` is never called by the application as it is;
it is modelled because the class offers it.

**AutoActivator.** `pc` follows `docker_entrypoint.main` through `activate_if_needed`. The order
of the code is kept: `verify_activation` compares the HMAC, then the clock, *rewrites* the record
with the boot counter, and only then compares host and license. A write is `OpenForWriting` (the
truncation), `TakeLock` (the `flock`, the one place where a boot waits for another),
`ReleaseLock`, and `CloseRewritten`/`CloseActivated`: the text is buffered and reaches the file at
close. So the truncation comes before the lock is taken and the text after it is given up, and the
lock makes boots wait without protecting anything. `disturbed` records how the count of
activations was lost: `race`, `crash`, `home`.

**LicenseValidator / RevocationList.** `validate()` is one action per layer, so that time, the
network, the clock, the operator and crashes can come between. The local clock shows `now +
skew`; a cached answer keeps the true time and the skew at which it was saved, from which the
age the code computes follows. Saving may fail or leave an unreadable cache (`ExpiryByNtp`). The history is emptied
(`RecordOpens`) and then written (`RecordCloses`), as `revoked.json` is (`RevokeOpens`,
`RevokeCloses`). A list carries the key it was signed with, and `OperatorKeys` are the keys
`revoke()` may be made to sign with: the tool's `--revoke` names no public key and signs with the
fallback key. `misSigned` remembers that the list had another key than the checker's at some moment
of a validation. Reading the file, its signature and its claims is a choice between going on
and refusing: nothing of it is remembered.

**AuditLog.** An HMAC is the number of the event it was computed for; a line is that number, the
number it continues, and whether it has been edited. `log()` is `Log` (the HMAC is computed and
remembered) and `AppendLine` or `AppendFails` (nothing, or a fragment without a line end, gets
into the file, and only a warning is logged); `Open` is the constructor, which in a new month
continues the chain of the month before with an event of its own. A logger keeps the file of the
month it was made in. `causes` records for each file what has happened to it: `linked`,
`shared` (a second logger is open on it), `failed`, `torn`, `edited`.

**The hardware.** `DockerHwid`, `HardwareId` and `VMDetector` are operators on a *view*, the
record of what a process would find on its machine: its platform, the files mounted from the
host and its own, the DMI fields, the environment, the answers of the commands. SHA-256 is
injective: an identity is the sequence of components that is hashed. A probe that is lost is a
set of sources that do not answer (`lost`) or of checks that raise (`failed`). The entropy test
of a machine-id is the constant `Implausible`, the placeholders are `Placeholder` (dropped when
read) and `Vague` (read, and only then refused by the validation).

**StartupCheck.** `pc` is the layer a node is at, with one action per layer in the order of
`startup_license_check`, preceded by `docker_entrypoint.main` in a container. What a layer leaves
behind stays when a later one refuses: the migration recorded in layer 3, the lock of layer 7, the
beacon the server has received although its answer was lost. Two components are reduced to what
the other layers see of them: activation, signature, time and revocation to `licensed`, and the age
of the lock to fresh or stale, where `ConcurrencyGuard`'s `StaleMeansDead` says when it may go
stale. `acquire()` and `refresh()` read the lock (`ReadLock`, `Beat`) and replace it (`ReplaceLock`,
`Refresh`) in two steps, with other nodes in between. Layer 6 reads the license file again
(`Baselines`): if it is gone or illegible by then, the files are compared with hashes of their own.
A refused process is started again. `blind`, `shaken`, `lapsed`, `raced` and `unsettled` are history:
a VM detection that lost its checks, a host that has been taken for two, a lock that went stale
under a running node, one that was replaced by a node that had not read it, and a license that
changed between layers 5 and 6 and gave layer 6 no hashes. The flags of
`startup_license_check` have their defaults: integrity and concurrency checked, hardware id not
skipped.

## 3. What is checked

| run | instance | properties | shows |
|---|---|---|---|
| `middleware_restarts` | 2 threads, 1 restart, 2 failures, grace 1; 240 k states | `TypeOK`, `LoopsOverlapOnlyWhenAbandoned`, `MissesShutTheGate`, `UnhealthyIsEarned`, `TimerRunsWhileUnhealthy`, `ImplementsWatchdog`, `StopTerminates`, `KeepsBeating`, `FailureKills`, `RecoveryRestores` | heartbeat and callbacks together implement the watchdog, and are live, also when `stop()` has left two loops |
| `gate_requests` | 1 request, 1 thread, 3 licenses, 2 pipelines; 520 k | `GateTypeOK`, `GrantIsBacked`, `DenialIsBacked`, `FailureShutsPipelines` | torn reads never grant or deny without a reason that held |
| `concurrency_shared` | 2 instances on one machine and 1 on another, 1 fault; 510 k | `TypeOK`, `OneMachineUnlessDisturbed`, `StaleMeansDead`, `DeadHolderIsReplaced` | the only ways in which exclusion breaks; takeover of dead locks |
| `activation_replicas` | 3 replicas on 3 hosts, limit 2, 4 boots, and one crash, clock set back or renewal; 3.6 M | `TypeOK`, `LimitIsEnforced`, `StartsAreCounted`, `RefusalsHaveCauses`, `LockHasALivingHolder` | limit and counter are lost in the named ways only; no boot is refused, or waits, without a cause |
| `validator_time` | hours 0..10, clock wrong by -2, 0 or 1; 448 k | `TypeOK`, `ExpiryIsRespected`, `OfflineIsBounded` | wrong clocks cost at most their own error |
| `validator_files` | 3 machines, 2 licenses, 2 revocations, 1 crash; 2.7 M | `RevokedIsRefused`, `OnlyRevokedIsRefused`, `MigrationsAreLimited` | rewritten files beside validations, whichever key the list is signed with |
| `audit_months` | 2 loggers, 3 months, 4 events, 2 failed writes or edits; 2.7 M | `TypeOK`, `UndisturbedVerifies`, `OneBreakPerFailure`, `AcknowledgedIsShown`, `LinkLeadsBack`, `BrokenStaysBroken` | whatever `verify_chain` reports and `get_recent` misses has a cause |
| `startup_layers` | 2 nodes, 7 installations, 1 lost probe, 2 attempts of the beacon; 250 k | `TypeOK`, `TwoHostsLookAlike`, `NothingRunsUncleared`, `RefusalsAreEarned`, `HealthyMachineStarts` | what runs was cleared by every layer, what is refused has deserved it, and a failed start does not block the next |
| `middleware_grace`, `activation_renewal`, `validator_tool`, `validator_secondcheck` | | one each, violated | section 5 |

**Bounds.** Two threads are the smallest number that can overlap, and one restart makes them do so;
a dead thread stands for a new one. Two failures let a count survive a restart, and let two loops
add up to the limit; a grace of 1 has a first and a last tick. Requests do not
influence each other or the license, so one request stands for any number. In
`concurrency_shared` an interval of 3 and a delay of 1 are the smallest values for which three
delays fit in an interval, and one machine has two instances so that release and refresh under a sibling happen;
one fault is a crash or a failed beat at any place. `activation_replicas` has one host more than
the limit, a boot for each of them at once and one to come back; its three replicas are
interchangeable, which is the symmetry the run uses. `validator_time` lasts long enough for the
license to expire, for its grace and for two offline graces; `validator_files` has one machine
more than the license may migrate to, and a second revocation that rewrites the list of the first. In
`audit_months` three months hold one whose predecessor has itself a predecessor, and a month that
is skipped; four events are a chain, its continuation in the next month and two more beside or
after a fault; a second fault is an edit of what a first one broke. The seven installations of
`startup_layers` (`MCStartupCheck`) are two Docker hosts; two Docker hosts without a machine-id
whose serial numbers say nothing; Docker Desktop beside a host with an implausible machine-id; a host with only a
short vendor name beside a pod made from the template as it is; two pods on one node; the machine the license was issued for beside a compiled installation on another;
that machine with an altered file beside a virtual one. A container is made anew and a machine
repaired while they run through these. One probe may be lost in each behaviour: which is enough for one machine to have
two identities and for its only migration to be used up; layer 0 loses all of its
checks at once, since a lost check is one that finds nothing. Two attempts have a first and a last.

Bounds are constants named `Max...`, are guards of the
actions they bound, and do not enter the theorems except as "some natural number".

**Deadlock** is checked except in the runs of `AutoActivator` and `AuditLog`, where the number of
boots and of events is bounded and the system stops when they are used up.

## 4. What the properties depend on

Some properties hold under a condition that is a constant or a bound of the runs. What happens
without it has been examined with the same modules, and is recorded here so that nobody relaxes
a condition by accident.

| property | condition | without it |
|---|---|---|
| `LoopsOverlapOnlyWhenAbandoned` | `stop()` did not give up on the thread (`abandoned`) | `join` gives up after 5 s on a thread whose validation may last 21 s, `start()` clears the event that was to end it, and two loops share one counter and one timer (`heartbeat.py:78`, `87`) |
| `UnhealthyIsEarned`, `TimerRunsWhileUnhealthy`, `ImplementsWatchdog` | no two loops so far (`overlapped`) | the failures of two loops add up, and an alarm of one starts the timer after the success of the other (`heartbeat.py:111`, `license_middleware.py:380`, `410`) |
| `UnhealthyIsEarned` allows one callback failure | | beats whose `on_success` raises reset the counter first, so they never reach the limit (`heartbeat.py:101`, `107`): a lock that cannot be refreshed never closes the gate |
| `StaleMeansDead` | the instance's last beat did not fail | with `stale_seconds` of two intervals a single failed beat lets a lock go stale under a running instance (`concurrency.py:98`) |
| `LimitIsEnforced` | the host that is bound did not activate again (`home`) | a record that fails the clock check is re-activated before hosts are compared; back on its own host the count restarts at 1 (`auto_activator.py:274`, `335`) |
| `LimitIsEnforced` | no crash while writing (`crash`) | the truncated file reads as "no activation", and the next host is the first again (`auto_activator.py:315`) |
| `LimitIsEnforced`, `StartsAreCounted` | no two replicas that read, decide and write beside each other (`race`) | two hosts find no activation and each writes its own as the first; two boots read the same counter and write the same increment (`auto_activator.py:218`, `275`, `312`) |
| `RefusalsHaveCauses` | tampering: no renewal; the limit: no other host was activated | section 5, disagreement 2 |
| `LimitIsEnforced` is an upper bound | | a host that is returned to counts again: with a limit of 2, moving from A to B and back is refused on A (`auto_activator.py:253-255`) |
| `OfflineIsBounded` | within `ClockError` | the age of the cache is measured with `time.time()`: a clock set back lengthens the offline grace by as much (`license_validator.py:177`) |
| `NothingRunsUncleared` | the license did not change between layers 5 and 6 (`unsettled`) | a license file that is missing or illegible when layer 6 reads it gives it no hashes, the files are their own baseline, and altered code passes (`license_middleware.py:266`, `277-278`) |
| `RevokedIsRefused` | the list stands still during the validation | while a second `revoke()` rewrites the list, a validation finds it empty and accepts a license revoked earlier (`revocation.py:76`, `123`) |
| `OnlyRevokedIsRefused` | the list did not have another key during the validation (`misSigned`) | section 5, disagreement 3; a later revocation with the key of the checker mends it |
| `MigrationsAreLimited` | at most one migration allowed, or no crash | a crash while the second one is recorded forgets the first (`license_validator.py:411`, `435`) |
| `RecoveryRestores` | `MaxFailures >= 2`; for two loops, a lock that can be refreshed | a failing `refresh()` counts as one failure after each success, which is then enough, as are those of two loops |
| `GrantIsBacked` does not say that one license gave the grant | | a renewal between the two reads of `check_pipeline_access` combines the tier of the old license with the grace flag of the new one: a pipeline is granted that neither allows (`license_middleware.py:502`) |
| `OneMachineUnlessDisturbed` | no two `acquire()`s at once (`race`), no lock that expired under a running instance, no `release()` | two machines that start together both read no lock and both run, whatever the atomic rename does (`concurrency.py:80`) |
| `UndisturbedVerifies` excepts the first line of a linked month | | `verify_chain` begins every file with GENESIS (`audit_logger.py:178`) |
| `UndisturbedVerifies`, `LinkLeadsBack` | one open logger per file; no failed write | two loggers each continue the HMAC they remember, and both chains are in the file (`audit_logger.py:140`); an HMAC whose line was not written is remembered (`:141`) |
| `TwoHostsLookAlike` | neither node's lock was replaced by one that had not read it (`raced`) | two hosts that start together both find no lock, replace it one after the other and both run; a refresh may also undo a lock it has not seen (`concurrency.py:80-104`, `114-128`) |
| `TwoHostsLookAlike` | the beats of neither node failed until its lock was stale (`lapsed`) | staleness is two intervals, the gate shuts after three failed beats: another machine gets in while requests are still granted (`license_middleware.py:294`) |
| `TwoHostsLookAlike` allows two hosts that share an identifier | | a host without a machine-id whose serial number is "Not Specified" has the identity of every other such host: the value counts for nothing when it is validated and is hashed all the same (`docker_hwid.py:236`, `448-454`) |
| `FailureShutsPipelines` says nothing of a request past the gate | | `check_pipeline_access` never looks at validity and health again, and serves a request whose license was killed after its first reads (`license_middleware.py:498-517`); `GrantIsBacked` bounds what it may be served |
| `RefusalsAreEarned` allows a refusal after a lost probe | | a command that needs more than 5 s gives way to the next source: layer 3 records a migration or refuses, and layer 7 may find the own lock foreign (`hwid_generator.py:79`, `license_validator.py:374`) |
| `RefusalsAreEarned` | the containers of a host are given the same mounts | two containers of one host with different mounts are two machines to the lock, and refuse each other (`docker_hwid.py:439-454`) |
| `RefusalsAreEarned` | a container installed as a machine can read its host's identity | `generate_hwid` falls back to the container's own components, which a lost probe or a new container changes (`hwid_generator.py:235-246`) |
| `RefusalsAreEarned` allows a pod to be refused by the lock of its predecessor | | without a mounted machine-id or a `kubepods` line in `/proc/1/cgroup` a pod is no container to `is_docker`, and locks in the name of its own network card (`docker_hwid.py:54-69`) |

## 5. Where code and documentation disagree

1. **`GraceIsTolerated`** (`middleware_grace`). The report and the parameter promise 72 h of
   tolerance before anything is killed; the gate refuses as soon as the heartbeat is unhealthy,
   which is when the grace begins.
2. **`HomeIsNeverRefused`** (`activation_renewal`). The documented renewal changes the key the
   record's HMAC is derived from: the container reports tampering at each restart.
3. **`RevocationIsSelective`** (`validator_tool`). The list is "Manually updated via `python
   tools/generate_license.py --revoke <jti>`" (`revocation.py:12`); that tool names no public key
   (`generate_license.py:314`), so the list is signed with the fallback key, and a checker that has a
   public key takes it for tampered with and refuses every license.
4. **`MigrationLasts`** (`validator_secondcheck`). A migration is counted, but the new hardware
   id is never compared with: the next validation on the same machine asks for another one.

Others were met while reading, and have no run of their own:

* "Prevents the same license from running on multiple machines simultaneously"
  (`concurrency.py:4`), and "In grace period: only standard tier pipelines allowed"
  (`license_middleware.py:496`): see the rows of `OneMachineUnlessDisturbed` and `GrantIsBacked`
  in section 4. Those properties pass because they name the exception.
* "atomically rename (prevents TOCTOU race)" (`concurrency.py:60`): the rename is atomic, the reading
  before it is apart; see `TwoHostsLookAlike` (`raced`).
* "file locking for multi-replica safety" (`auto_activator.py:312`): the lock is taken on a file that
  is already emptied and given up before the text is written; see `race` in section 4.
* "Max unique machines that can activate" (`generate_license.py:296`): moves are counted, not
  machines; see `LimitIsEnforced` in section 4.
* "Cross-month chain linkage" (`audit_logger.py:59-61`): a linked month is exactly one that
  `verify_chain` rejects. `verify_chain` is called nowhere in the application, nor is
  `ConcurrencyGuard.release`, "called on shutdown" (`concurrency.py:137`).
* `k8s-deployment.yml:50-56` sets `LICENSE_HWID` without a signature and an empty
  `PHONE_HOME_URL`, "optional": the entrypoint refuses both (the view `Template`).
* "On heartbeat: re-computes and compares" (`integrity.py:7`): integrity is checked only at startup.
* "All layers passed" enters the audit log before layer 8 (`license_middleware.py:308`).
* "independent and fail-closed" (`README.md:18`): layer 0 goes on when its detection raises
  (`license_middleware.py:191-192`).
* The claims `mode` and `max_hwid_changes` are written into each license
  (`generate_license.py:128-129`) and read nowhere: the application passes its own.
* `--hours` between 1 and 23 announces "exact hour-based expiry" and issues a license for a day
  (`generate_license.py:344-352`).

## 6. Fairness

* `MwFairness`, `GateFairness`: a heartbeat thread that can step does (waits have a timeout,
  network calls of a validation have timeouts, callbacks end), `time.monotonic()` advances, a
  `join` returns (it has a timeout), a request handler runs on. Nobody is obliged to call
  `start()` or `stop()` and no verdict is obliged to change.
* `ConcurrencyGuard!Fairness`: time advances; an instance that is starting, due for a beat or
  replacing the lock gets to its next step. Crashes, failed beats and releases are never obliged
  to happen, and a process that is off may stay off for good; only one that was refused is
  started again (`restart: unless-stopped` in `docker-compose.yml`).
* `StartupCheck!Fairness`: a start that has begun goes on (every probe, attempt and check ends),
  a refused process is started again, as `restart: unless-stopped` in `docker-compose.yml` does,
  and a lock that nobody refreshes gets old. The network and the license are not obliged to
  recover, nor a node to exit: `HealthyMachineStarts` has them as its premise.
* `AutoActivator`, `LicenseValidator` and `AuditLog` have no liveness property and no fairness.

Only weak fairness is used.

## 7. What is proved

TLAPS checks every proof to the last leaf. Nothing is assumed but the named `ASSUME`s of the
modules (types of the constants) and the premises shown.

| theorem | statement | premise |
|---|---|---|
| `LicenseHeartbeatProofs!LoopsOverlapOnlyByTimeout` | `HbSpec => []LoopsOverlapOnlyWhenAbandoned` | |
| `LicenseHeartbeatProofs!GateFollowsBeats` | `HbSpec => [](MissesShutTheGate /\ UnhealthyIsEarned)` | |
| `LicenseMiddlewareProofs!MwTypeCorrect` | `MwSpec => []TypeOK` | |
| `LicenseMiddlewareProofs!TimerFollowsHealth` | `MwSpec => []TimerRunsWhileUnhealthy` | |
| `LicenseMiddlewareProofs!MiddlewareImplementsWatchdog` | `MwSpec => ImplementsWatchdog` | |
| `PipelineGateProofs!GateTypeCorrect` | `GateSpec => []GateTypeOK` | |
| `PipelineGateProofs!GrantsAreBacked` | `GateSpec => []GrantIsBacked` | |
| `PipelineGateProofs!DenialsAreBacked` | `GateSpec => []DenialIsBacked` | every license has one of the tiers of the table |
| `ConcurrencyGuardProofs!TypeCorrect` | `Spec => []TypeOK` | |
| `ConcurrencyGuardProofs!Exclusion` | `Spec => []OneMachineUnlessDisturbed` | |
| `ConcurrencyGuardProofs!StaleLockIsDead` | `Spec => []StaleMeansDead` | `Interval + 3 * Delay <= Stale` |
| `LicenseValidatorProofs!TypeCorrect` | `Spec => []TypeOK` | |
| `LicenseValidatorProofs!ExpiryHolds` | `Spec => []ExpiryIsRespected` | |
| `LicenseValidatorProofs!OfflineEnds` | `Spec => []OfflineIsBounded` | |
| `LicenseValidatorProofs!RevocationHolds` | `Spec => [](RevokedIsRefused /\ OnlyRevokedIsRefused)` | |
| `LicenseValidatorProofs!RightKeyIsSelective` | `Spec => []RevocationIsSelective` | no revocation is signed with the fallback key |
| `LicenseValidatorProofs!OneMigration` | `Spec => []MigrationsAreLimited` | `MaxHwidChanges = 1`, the default everywhere |
| `LicenseValidatorProofs!MigrationsAreCounted` | `Spec => []MigrationsAreLimited` | no crash |
| `AutoActivatorProofs!ActivatorTypeCorrect` | `Spec => []TypeOK` | |
| `AutoActivatorProofs!HomeIsWelcome` | `Spec => []HomeIsNeverRefused` | one host, no renewal |
| `AutoActivatorProofs!RefusalsAreCaused` | `Spec => []RefusalsHaveCauses` | |
| `AutoActivatorProofs!NobodyWaitsForTheDead` | `Spec => []LockHasALivingHolder` | |
| `AutoActivatorProofs!StartsNeverUncounted` | `Spec => []StartsAreCounted` | |
| `AutoActivatorProofs!LimitHolds` | `Spec => []LimitIsEnforced` | |
| `AuditLogProofs!AuditTypes` | `Spec => []TypeOK` | |
| `AuditLogProofs!AuditChainVerifies` | `Spec => []UndisturbedVerifies` | |
| `AuditLogProofs!BreaksAreEarned` | `Spec => []OneBreakPerFailure` | |
| `AuditLogProofs!AcknowledgedStaysShown` | `Spec => []AcknowledgedIsShown` | |
| `AuditLogProofs!LinksLeadBack` | `Spec => []LinkLeadsBack` | |
| `AuditLogProofs!TamperingStaysEvident` | `Spec => BrokenStaysBroken` | |
| `StartupCheckProofs!StartupTypes` | `Spec => []TypeOK` | |
| `StartupCheckProofs!RunningIsCleared` | `Spec => []NothingRunsUncleared` | |
| `StartupCheckProofs!OneIdentityAtATime` | `Spec => []OneIdentityRuns`, the half of `TwoHostsLookAlike` that rests on the lock | |
| `StartupCheckProofs!TwoHostsAlwaysLookAlike` | `Spec => []TwoHostsLookAlike` | every view is `Legible` |
| `StartupCheckProofs!RefusalsHaveCauses` | `Spec => []RefusalsAreCaused`, what `RefusalsAreEarned` says of any machines | |
| `StartupCheckProofs!RefusalsStayEarned` | `Spec => []RefusalsAreEarned` | `InOrder` |
| `StartupCheckProofs!AgreeingIdentities` | containers that `Agree` have one identity | |

The premises that are not constants: `Legible(v)` says that a machine has a network card, and
that neither a machine-id nor the name of a Kubernetes node is one of the placeholder texts of
DMI fields. `InOrder` has three parts. `SharedMounts`: the containers of one host, and a container
and the one that replaces it, are given the same mounts and variables (`Agree`; their network
cards, hostnames and, if the host's machine-id is mounted, own machine-ids may differ).
`MachinesAreDetermined`: what is installed as a machine and is recognised as a container can read
the identity of its host; in docker mode the entrypoint sees to that. `IssuedForHome`: the machine
the license was issued for has the identity it was issued for when it is installed. The instance of
`startup_layers` satisfies all of them. None can be dropped, nor the premise of
`MigrationsAreCounted`, nor an exception that a property names (`abandoned`, `overlapped`, `raced`,
`lapsed`, `unsettled`, `race`, `crash`, `home`, `misSigned`): for each of them TLC finds a violation
in an instance that breaks only that one.

**The arguments.**

* *Heartbeat.* `HbInv = HbTypeOK /\ LoopInv /\ CountInv`. `LoopsOverlapOnlyWhenAbandoned` alone is
  not inductive: `start()` must know that whatever lives besides the thread it adds was given up.
  `LoopInv` says that of the threads that were not, at most the one `_thread` names lives, and
  none once `stop()` has returned; and that before a first overlap nothing else lives either.
  `CountInv` ties the failure count to the two histories, place by place in the loop; its lower
  bound (`misses <= failureCount`) survives any number of loops, its upper ones do not.
* *Middleware.* Every step is a step of the heartbeat (`MwStepIsHbStep`), so `HbInv` carries
  over. `MwInv` adds, until two loops overlap, what stage of the success callback the loop is in
  (`StageInv`) and that a killed license has a timer that has run out (`KillInv`). Without
  `KillInv` the refinement fails: a `Kill` of the watchdog must start from a full suspension.
  `WatchdogStep` maps each action to a step or a stutter; `TimerRunsWhileUnhealthy` is needed to
  know that an alarm does not interrupt a success.
* *Lock.* `OwnerInv` says more than the property: while undisturbed, the lock exists and names
  the machine of every live instance. `AgeInv` bounds the age of the lock of a live instance by
  its own timer and the stage it is in, which gives the premise on the delays.
* *Validator.* `IInv` adds to the two properties that a cached answer is no younger than the
  last one (`CacheInv`) and that the last one is not in the future. The clock enters in one
  lemma, `ClocksAgree`: the estimate of the code differs from the true time by at most the
  difference of two skews.

* *Gate.* `ReadInv` says what each read has established: a request past `valid` has seen a valid
  license, and the tier it holds either covers its pipeline, and was that of a license in force,
  or stands for a license that forbids it (`TierInv`). The step that combines the two reads
  needs that every tier covers the standard pipelines (`StandardIsLeast`).
* *Revocation.* `ListInv` follows a serial number through `revoke()`: while it is idle, all that
  was revoked is on the list; while it works, all is in what it has read. `CallInv` carries what
  held when a validation began to its end, the key of the list included. `RightKeyIsSelective` adds
  that a list nobody signs with the fallback key never has another key than the checker's.
* *Migration.* `MigrationInv` says which machines besides the bound one have been accepted, none
  before the migration is recorded and one after; the crash that empties the history leaves
  none that counts. For more than one migration and no crash, `CountedInv` bounds the number of
  these machines by the history, or by what was read of it while it is being rewritten, with
  room for the machine that is on its way to being accepted.
* *Activation.* A record never has a key from before the first renewal but the first, and never a
  host that no activation was written for (`KeyInv`, `BoundInv`): the causes of a refusal.
  `WritersAlone` says that until the first race one replica writes at a time and none has decided
  while it does; a race is noticed at the moment a replica decides or opens the file
  (`RacesAreNoticed`). Under it `CountInv` holds: a record that is there, or about to be written,
  counts all boots that wrote it. `LimitInv` adds that, until the count is lost, an empty file is
  being written, and that each record, in the file or on its way there, `Covers` every host the
  application has run on or is about to (`Used`): it counts them and the host it is bound to, up to
  the limit. Binding another host raises the count by one (`BindCovers`).
* *Audit.* `ChainInv` says of every quiet file (whose causes are none, or the link alone)
  that it continues itself, that all its lines are genuine, and that a logger that is open on it
  remembers its last line or is about to append the one after it; `Unwritten`, that a file that is not there has no lines.
  `ShownInv` keeps every acknowledged event in a line that is neither torn nor joined to another,
  from `JoinedAppends`: appending to a file that ends in a whole line changes no line of it.
  `LinkInv` follows the HMAC a linked month starts from, from the line it was read off to the first
  line of the month. `BreakInv` is the budget of breaks: a logger that remembers something else
  than the last line (`Behind`) has a failed write that has not been paid for. For
  `BrokenStaysBroken` there is no invariant: a break at a line depends on that line and the one
  before, and a step appends or joins but leaves these two (`JoinedStaysBroken`).
* *Startup.* `ClearedInv` says at each layer what the layers before have cleared, `PlaceInv` which
  layers a node passes in which mode, and `LockInv` that a node past layer 7 holds the lock unless
  it has lapsed or lost a race: two of them then hold one lock, which has one identity. A node that
  is about to replace a lock has read one that did not block it; if that is still the one, it
  takes it from nobody, and if not, its holders are `raced`. Whatever the
  probes answer enters only through `IdentityIsOne`: a lost or complete set of them gives
  one of `Identities`.
* *Refusals.* `HostInv` follows identities through the lock: a host that is not `shaken` has one
  identity (`OneIdentityPerHost`), which is what a process past layer 7 has taken (`OwnIdentity`)
  and what the lock its host wrote carries (`KeeperIdentity`); so a lock of the same host that
  blocks has a shaken host. `OrderInv` adds, in an installation that is in order, that containers
  of one host agree now as at the start, that one past layer 2 can tell its host, and that
  the lock of such a host carries the identity the host has in every container, probes or not.
* *Likeness.* Whatever a running process took for its identity was built from its view
  (`OwnIdentity`), and each way of building one leaves a component that is an identifier of the
  machine at a place two equal identities share: every component of a container's host
  (`ContainersTell`), the network card of a machine (`MachinesTell`).

**Only model-checked:** the liveness properties (`StopTerminates`, `KeepsBeating`,
`FailureKills`, `RecoveryRestores`, `FailureShutsPipelines`, `DeadHolderIsReplaced`,
`HealthyMachineStarts`), which the prover does not reach; and the runs that expect a violation.
Every invariant and every action property of a passing run is stated by a theorem.

## 8. What is not modelled, and why

* Cryptography, decoding, token formats and logging: a validation that fails for any of them is
  the same refusal. Licenses without a serial number are never on the list.
* Who calls `stop()` and a second `start()`: the application itself never does; they are operations
  the class offers, and an owner may call them at any time, one after the other.
* The result cache of `validate()`: it is used within one startup only, where it is empty.
* Differences between the clocks of two machines in `ConcurrencyGuard`. They shift ages by a
  constant, and are covered by a smaller `Stale`.
* A crash of the operator in the middle of `revoke()`: the list stays unreadable, and the next
  `revoke()` raises before it writes.
* The optional beacon of a machine outside of containers: nothing depends on it, and it sends the
  identity in the license whatever the machine. The time that the server returns is stored and
  used nowhere.
* Fields of audit entries, events that are logged elsewhere, and the size of the log.
* The durations `generate_license.py` computes: the only state is the file it writes once.
* Whether a mount is a real one (`_validate_bind_mount`): its answer is only logged.
* Two runs of `revoke()` at once: the tool is started by hand, and a second run would lose the
  serial number of the first (`revocation.py:104`).
* Set-up, obfuscation, images and deployment: no behaviour at run time. The restart policy and
  the documented renewal are taken from the compose file.

## 9. How the development is built up

In the order of dependence, each with its small instance and its proofs:

1. `LicenseHeartbeat` → `LicenseMiddleware` (refines `LicenseWatchdog`) → `PipelineGate`: what a
   running process trusts.
2. `ConcurrencyGuard`, `AutoActivator`, `RevocationList` → `LicenseValidator`: the files that
   processes share.
3. `AuditLog`: the chain of lines.
4. `DockerHwid` → `HardwareId`, `VMDetector`, `IntegrityChecker`, `PhoneHome` → `StartupCheck`: the
   layers, on several machines.

What would add most from here: two operators in `RevocationList`; the step from `ConcurrencyGuard`
to the lock of `StartupCheck` as a refinement, where it is now an argument (`StaleMeansDead`); and
the result cache of `validate()`, should an application begin to call it for each request.
