# Verification of dbus-mpp-p18

TLA+ models of the programs in `src/`: a supervisor that keeps a hotplug manager
alive, the manager that runs one `inverterd` backend and one D-Bus driver per P18
inverter, the driver itself, what they agree on (device instances, the number of
parallel chargers) and store, the migration of an old installation, and the
updater that replaces all of them; the TLC configurations that check them on small
instances; and theorems, proved with TLAPS, that hold for every instance.

Check a module with `tlc -config X.cfg M`, its proofs with `tlapm M.tla`.
`PROJECT.json` lists the runs, the source lines behind every definition, and the
hazards with the properties that cover them.

| Module | Models | Configurations |
|---|---|---|
| `Hotplug`, `MCHotplug` | the manager's scan, its processes, ports and devices | `Hotplug`, `HotplugErrors`, `HotplugOrphan` |
| `Directory` | abstract: what D-Bus shows of the devices | property of `Hotplug` |
| `Driver`, `MCDriver` | a driver's polling cycle | `Driver` |
| `Supervisor` | the supervisor and the life of the manager process | `Supervisor`, `SupervisorEarlyStop` |
| `Topology` | the number of parallel chargers, from the worker to the drivers | `Topology` |
| `Instances` | Device Instances: settings, manifest, drivers, slots | `Instances` |
| `Storage` | a state file: save, load, quarantine, timer | `Storage` |
| `AtomicFile` | abstract: a file that changes as a whole | property of `Storage` |
| `Migration` | the migration from `config.json` | `Migration` |
| `Updater` | the update script, its rollback and its lock | `Updater`, `UpdaterLock` |
| `*Proofs` | the theorems about the module in their name | |

## 1. Inventory

### Components, their state and their operations

| Component | State it keeps | Operations | Talks to |
|---|---|---|---|
| Supervisor, `mppsolar-supervisor.py` | `child`, `stop_event`, failure count | start, wait, back off, stop (TERM, 25 s, KILL) | the manager, by signals and exit |
| Manager, `mppsolar-manager.py` | `records`, `failed`, `manifest`, topology counts | scan every 2 s, start and stop pairs, publish slots, accept slot writes, refresh the topology every 60 s, shut down | backends (TCP), drivers (spawn, D-Bus `SetValue`), localsettings, `devices.json` |
| Backend, `inverterd` (external binary) | one open HID device, a TCP port | answer commands, exit after three device errors | the inverter |
| Driver, `dbus-mppsolar.py` | poll flag, `_last_charge_voltage`, failure count, published values, history | poll, write the charge voltage, publish, react to settings, save history, quit | its backend (TCP under a file lock), the battery service, localsettings, its history file |
| Persistence, `mppsolar_common.py` | `devices.json`, `<serial>.json` | atomic write, load with quarantine | the disk |
| Migration, `migrate-config.py` | the legacy `config.json` | read serials through legacy backends, build the manifest, merge the history, rename the file | backends, D-Bus, the disk |
| Updater, `update.sh` | lock directory, backups, `UPDATE_STARTED`, `SERVICES_TOUCHED` | check, back up, migrate, stop, archive, pull, integrate, start, verify; roll back | git, the services, udev, `/data` |
| Start script, `start-dbus-mppsolar.sh` | pid file | start the supervisor unless the pid is alive | udev, rcS, the updater |
| Runtime verification, `verify-runtime.py` | none | read the D-Bus values and compare | D-Bus, the state files |
| Installers, QML pages | none of their own | copy files, patch one page | the file system |

### How they interact

* The supervisor owns one manager process. It learns of the manager's end by
  `wait()` and asks for it with SIGTERM; an end without `shutdown()` leaves the
  manager's children running.
* The manager is one GLib main loop. `scan()` lists `/dev/hidraw*`, stops the
  pairs whose path went or whose process exited, starts a backend for every other
  path on the lowest free port, asks it for its serial, and starts a driver. A
  scan may last minutes, and everything outside the manager goes on meanwhile.
* A driver polls its backend from a worker thread, one cycle at a time, and hands
  the result to its main loop with `GLib.idle_add`. Three failed cycles in a row
  end the process; the manager's next scan replaces it.
* A backend ends after three device errors, so an unplugged device is noticed by
  its path or by its backend's exit, whichever comes first.
* The udev rule and the updater both start the services through the start
  script, which does nothing when the pid file names a live process.

### What is hard

* **Interleaving**: devices, backends and drivers change between any two steps of
  a scan; the timer fires while a worker is still reading; signals arrive before
  there is a main loop; udev acts while the updater has stopped the services.
* **Failure half-way**: a scan that raises loses its timer or its process; a
  cycle that raises has published half of its values; an updater may fail at any
  of its steps and in its backup.
* **Identity**: paths and ports are reused, serials may be claimed twice, and a
  driver must never publish one inverter's values under another's name.
* **Crash and restart**: what a killed manager leaves holds ports and D-Bus names.
* **Time**: backoff and stability, the 25 seconds of a stop, limits that count
  consecutive errors.

### What makes each component correct

* *Supervisor*: never two managers; a dead one is replaced; a stop is carried
  out and leaves no process behind.
* *Manager*: serials and ports are unique; every process it started belongs to a
  record; a driver reads the device of its serial; flapping devices are slowed
  down; in the end exactly the plugged P18 devices are served; it keeps scanning.
* *Driver*: cycles do not overlap; what it remembers to have written is what the
  inverter has; the inverter follows the battery; a fault code is visible as a
  state; alarms are lowered only by complete data; a driver without a backend ends.
* *Settings*: two registered drivers never show one Device Instance; service,
  stored setting and manifest agree in the end.
* *Topology*: every driver is told the count its slot shows, and both come to be
  the count the devices tell.
* *Persistence*: a state file is old or new as a whole, whatever crashes; what
  was durable is not lost.
* *Migration*: the old configuration survives whole until everything is stored;
  a history forgets nothing, however often the migration is repeated.
* *Updater*: one at a time; a failure restores revision, integration and state; a
  success means the new revision runs; what the services saved is not lost.

## 2. Plan

Order: what the installation is for comes first (an inverter is found, named and
followed), then what keeps that alive, then what is stored.

| Step | Modules | Status |
|---|---|---|
| 1 | `Hotplug`, `HotplugProofs` | done |
| 2 | `Driver`: polling cycle, charge voltage, state and alarms | done |
| 3 | `Supervisor`, `SupervisorProofs` | done |
| 4 | `Updater` | done |
| 5 | `Directory`: what the manager promises to D-Bus; `Hotplug` refines it, checked in the run `hotplug` and proved in `HotplugProofs` | done |
| 6 | `Instances`: drivers, manager slots and localsettings with their check-then-act on the Device Instance | done |
| 7 | `Topology`: worker, snapshot, publication and stale retries, restarted drivers | done |
| 8 | `Storage` with its abstract specification `AtomicFile`, and `Migration` as a client of such files | done |
| 9 | the pure functions, each in the module that uses it: `allocate_instance` (`Allocate`), `count_parallel_members` (`Members`), `merge_history` (`Merge`), `changed_charge_voltage` (`Changed`), `restart_delay` (`Delay`) | done; `normalize_p18_alerts` left out, section 7 |
| 10 | `DriverProofs`, `StorageProofs`, `MigrationProofs`, `UpdaterProofs`, `InstancesProofs`, `TopologyProofs` | done |

There is one passing run per module (two for `Hotplug`, with and without what the
code does not survive), and violation runs only where the code contradicts a line
of the repository. Parameters are CONSTANTS with a named
assumption, there is one action per operation, invariants are conjunctions of
named parts, and no module uses RECURSIVE operators, so each can be proved about.

## 3. The models

In all of them the environment acts through actions that use up a budget,
`MaxFaults`; a budget is what makes "in the end" meaningful and the state space
finite. Definitions preceded by a comment "Mutant" are not part of a
specification: each is a plausible error in the code that makes a property fail,
which shows that the property depends on the code.

### Hotplug

State: `dev`, what is plugged in at each path; the control point of `scan()` with
its locals `seen` (`paths`), `todo`, `port` and `own` (is the backend of the
device being started alive?); `records`, `failed` and `manifest` as in the code;
`saved`, the serials in `devices.json`; and the processes themselves: `listener`
says for each port which device the backend there has open, `owner` for each
serial which port the driver that owns its D-Bus names polls. That records and
processes are separate is the point of the model: a record may point to a dead
process, and a process may outlive its record.

`scan()` is split where the world can change under it: `ScanBegin`, one step per
record swept (`SweepRemoved`, `SweepExited`, `SweepHealthy`), `BeginStarts`, which
reads the clock, two steps per device (`StartDevice`, then `ProbeSucceeds` or
`StartFails`), and `FinishScan`. The ways an exception leaves it are steps of
their own (`SweepRaises`, `NoFreePort`, `SaveFails`, `StartRaises`, `FinishRaises`)
and end in `Raise`: inside `main()` the process ends without `shutdown()`, inside
the GLib timer the timer is gone and the process lives on. A backend that finds
its port taken exits at once, and the probe then speaks to whoever holds the
port; a driver whose names are taken exits at once. `Delay` is the backoff as a
function of the attempts; `Stabilise` is the passing of 300 seconds.

Left out: D-Bus slots and their writes (`Instances`), topology (`Topology`), the
log handles. `inverterd` is external and does only what the manager relies on.

`Directory` is the manager seen from D-Bus: `shows` is the device a serial's
services show. Devices arrive and leave, a serial starts to show a device that is
plugged in and has that serial, and stops. `Hotplug` refines it with `Shown`,
the device behind the backend that the owner of the serial's names polls: that a
serial never passes from one device to another in one step is the manager's
central promise, and it spans scan, backends, drivers and ports.

### Driver

State: the battery's request, the inverter (voltage, mode, alerts), whether the
backend answers, the process phase, `_poll_in_progress`, a cycle per worker
thread, `_last_charge_voltage`, `_consecutive_errors`, and the published state,
fault code, validity and one alarm. `Tick` is `_update()` with the start of the
thread; the reads of `_read_PI18()` are three steps, because the mode and the
alerts may change between them; `Write` is `setMaxChargingVoltage()`, where the
inverter may obey and the answer be lost (`ackLost` remembers it); `PollSucceeded`
and `PollFailed` are the idle callbacks, publishing in the order of
`_apply_PI18()`: state first, measurements, and the alerts only if those did not
raise. `Quit`, `Exit` and `Start` are the process, which may be asked to end
between any two steps.

Left out: the measurements themselves, the history (`Storage`), the settings
callbacks (`Instances`, `Topology`) and the three current limits, which are written
like the voltage but compared with nothing that is remembered.

### Supervisor

State: where `run()` is, `stop_event`, `child`; for each manager process where its
`main()` is (`init` before the signal handlers, `boot` in the first scan, `loop`,
`scan`, `shutdown`, `gone`) and whether `loop.quit()` reached a running loop; the
managers that have children; and two history variables, the managers that
`crashed` and what was short of time (`haste`): the stop came before the loop ran,
or `STOP_TIMEOUT` ended before a manager that was on its way out. A process that
starts has a fresh name as long as children of an earlier one live. The delays
themselves are left out. `OutsideTerm` is `install.sh`, which terminates the manager
but not its supervisor.

### Topology

State: the devices that are plugged in, their wiring and whether one has moved to
another path; the records with their ports; per device the driver process, the
`NumberOfChargers` it divides by, and the calls the manager made that it has not
handled; the manager's counts, the set they are for, `due` and `running`; the
worker's snapshot and answers; the counts to be retried. `Scan` changes records
and schedules a refresh (`Schedule` with its early returns), `Ask` is one device's
turn of `_calculate_topology()` in the worker thread, `Apply` the idle callback,
`Retry` the five seconds later, `Deliver` the driver's `_change_number_of_chargers()`,
and `TimesOut` a call that the driver answers too late: it is retried although it
will be handled. `late` is a history variable, the drivers whose count only the
next refresh can repair: those replaced within one scan, which keeps the set of
serials and so starts no refresh, those a retry brought an old count, and all of
them when `save_manifest()` raises in `_update_service()`, which leaves
`_apply_topology()` before it publishes (`ApplyRaises`).

Left out: an exception in `scan()` itself, after which the manager does not scan any
more (`Hotplug`).

### Instances

State: for each device the value in localsettings, in the manager's manifest, on
its driver's services (`inst`), and the one its driver's settings object last knew
(`seen`); the driver's progress from start to registration; the change signals and
idle callbacks it has not handled. `Check` is the driver's start up to its
services: it enumerates the instances in use, which may miss a service that does not
answer, and stores what it chose. Values change through the driver
(`DriverWrite`), the manager's slot (`SlotWrite`), both of which refuse used values,
or directly (`DirectWrite`), which nothing checks. `Changed` then either restarts
the driver or puts the old value back, both in idle callbacks, and the restore is
itself a change with a signal. `crowd` remembers that a driver checked while
another was between its check and its registration, or did not see them all.

### Storage

State: where the driver is in load or save, its history as a version number, the
timer, the temporary file, the directory as the programs see it and as it is on
the disk. `atomic_write_json()` is call by call: open and write, fsync, replace,
fsync of the directory, whose failure is ignored. A power loss brings the disk's
directory back and tears what was never synced. `Quarantine` may fail to rename,
which is ignored, and a failed read takes the same way as a corrupt file.
`AtomicFile` is what this promises: the file holds one of the contents put there,
and a power loss goes back to what was durable.

### Migration

State: `config.json` and its `.legacy` copy, the manifest, each device's history
file and what its legacy service shows, and the script's progress. Every entry is
asked in turn, then the manifest and the histories are saved one by one, and the
old file is renamed, or copied and unlinked if there is a `.legacy` file. The
script may stop anywhere and start again in any mode, while the services go on
counting, restart from nothing, or are gone. A history is a counter and a
minimum, the two ways in which `merge_history()` merges.

### Updater

State: for each run of the script its control point and the shell variables that
decide what it does (`noRestart`, `started`, the state backup, the integration
backup, the outcome); the lock directory; the disk (revision, integration,
`config.json` with its legacy copy, state); the revision of the running manager;
and two history variables, what the services had saved when they were stopped
(`owed`) and what the script does not expect (`disturbed`): two runs at work
(`crowd`), a udev event while the services are stopped (`udev`), a signal
(`signal`), a truncated state archive (`backup`), `--no-restart` before the
migration (`unmigrated`), a signal while the tracked `config.json` is back beside
the edited one (`leftTracked`), and a signal, or services that start, while the state
directory is removed and not unpacked yet (`emptied`). The steps end where a signal
or a failure leaves something else behind: `Checkout` (`git checkout`) and `Pull`
(`git pull`) are two, and so are `UndoState` (`rm -rf`, `mkdir`) and `Unpack` (`tar`) of
`restore_state()`, and `UndoConfig`, the copy back of the configuration. A save adds to
what the state directory holds, the least a running service can know. A failure inside a
step is the failure of the step that follows, or one before it changed anything;
only the state archive may fail and leave a file. `OnError` is the ERR trap,
`Undo*` the rollback, `Interrupt` the INT and TERM traps, `Cleanup` the EXIT trap.
`UdevEvent` runs the start script when no manager is alive.

Left out: commands of the rollback that fail (it runs under `set +e`), a run that
is killed and leaves its lock, what the archives, git and the checks contain.

## 4. The runs

| Run | Bounds | States | What it shows |
|---|---|---|---|
| `hotplug` | two paths, three ports, two P18 devices and one alien, four faults | 527,000 | every process belongs to a record, every driver reads the device of its serial, `Hotplug` implements `Directory`, and after the last fault exactly the plugged P18 devices are served |
| `hotplug_errors` | three paths, two ports, two devices with one serial, two faults; crashes, stuck processes, disk errors | 1,377,000 | types, unique serials and ports, records that say the truth about their processes, and a backoff that is forgotten only after 300 s of life, when the path goes, or with the manager |
| `driver` | two threads, two voltages, two modes, three alert states, three faults | 503,000 | one cycle at a time; `_last_charge_voltage` is what the inverter has, unless an answer was lost; the inverter comes to follow the battery; fault codes are shown; only complete alerts lower an alarm; a driver without a backend ends |
| `supervisor` | three manager processes, two crashes, failed starts or signals from outside, a stop at any point | 4,800 | one manager at a time, a dead one is replaced, every stop ends, a stop that finds the loop running leaves nothing |
| `topology` | two devices alone or in parallel, two ports, one unhandled call per driver, two faults | 587,000 | a driver that divides by another count than its slot shows is told, and all come to agree with the devices |
| `instances` | two devices, any old settings and manifest, three instances, three faults | 353,000 | registered drivers show different instances and what is stored; every sequence of writes, restores and restarts comes to rest |
| `storage` | versions 0 to 3, three faults | 100,000 | the calls implement `AtomicFile`; nothing durable is lost; every poll is saved while the timer lives |
| `migration` | two entries, counters 0 to 1, minima 0 to 2, two faults, every mode | 2,500,000 | the configuration survives whole and is put away last; histories only grow |
| `updater` | two runs of the script, two failures, signals or udev events, three kinds of installation, with and without `--no-restart` | 3,900,000 | a rollback restores everything, a success runs the new revision, saved state and an edited `config.json` survive, but for the signals named in section 4 |

Why the bounds are enough: two paths are needed for a permutation, three devices
for a swap that brings in another identity, fewer ports than paths for the
exhausted pool, and two devices with one serial for the duplicate; a second
thread for an overlap of cycles (the code has one at a time, which is the
property); three failures in a row are the limit of the driver, and its budget of
three holds a dead backend and two more; three manager names for two crashes that
leave orphans and a clean one; two updaters for the lock; two drivers for a
conflict of instances, with a third value to move to; two counts (one and two
chargers) to tell a stale one, and two faults to change the devices and then fail
to tell; three versions, for a durable one, a newer one in the file and one in
memory; minima 1 and 2, because 0 is "not known". `CHECK_DEADLOCK FALSE`
appears where the system may stop: a manager whose timer is lost and whose faults
are used up, a supervisor that has stopped, updaters that have all ended, a state in
which all agree and nobody writes, the last version of a history, a migration that
is done.

### Where the code contradicts the repository

Each of these is a run that TLC must find violated.

| Run | What happens | What it contradicts |
|---|---|---|
| `hotplug_orphan` | after an uncontrolled end of the manager an orphaned driver polls a port that the new manager gives to another device's backend, and publishes that device under its own serial | README.md:67-69, the P18 serial as permanent identity |
| `supervisor_early_stop` | SIGTERM during the manager's first scan calls `loop.quit()` before `loop.run()`; the manager runs on, is killed after 25 s, and its children stay | mppsolar-supervisor.py:2, "forward controlled shutdowns" |
| `updater_lock` | a refused run removes the lock of the run it was refused for, because the EXIT trap is set before the lock is taken | update.sh:312, "Another update is running" |

`supervisor_early_stop` is one way into `hotplug_orphan`: the kill leaves what the
next manager stumbles over.

Further behaviour the models have and the passing properties exclude by name:

* A write that the inverter obeyed but whose answer was lost makes the driver
  take the battery's return to the earlier voltage for already written
  (`ackLost` in `FollowsBms` and `LastIsApplied`).
* A cycle without measurements publishes the state of the mode and raises before
  the alerts (dbus-mppsolar.py:734): the fault code stays and the state no longer
  shows it, which verify-runtime.py:168-171 would report. `FaultShown` asks for it
  only while no failure is counted.
* `_terminate_process()` lets the `TimeoutExpired` after SIGKILL out of `scan()`
  (mppsolar-manager.py:321). GLib removes the timer; the manager lives on and never
  scans again, against README.md:64-65 (`StuckProcs`, off in the run `hotplug`).
* A failed write of `devices.json` is never repeated, because the entry is in the
  manager's memory when the serial comes again (`SaveFails`).
* A driver that is replaced within one scan starts with one charger and keeps it
  until the 60 s refresh; a retry may overwrite a newer count until then; and when the
  manifest cannot be saved while counts are applied (mppsolar-manager.py:484), they are
  shown but sent to no driver before the next refresh (`late` in `Agree`).
* Drivers that check their instance at the same time may choose the same one, and
  the one that later hears of a change can put an old value back (`crowd` in
  `Distinct` and `Settles`).
* A save that raises loses the history timer: from then on only the end of the
  driver saves (`timer = "raised"` in `Saved`), against the five minutes of
  README.md.
* A read error is treated as a corrupt file; if the rename fails too, the next save
  overwrites a good history (`excused` in `NothingLost`).
* A history that a legacy service does not give (`dbus_history()` warns and goes on)
  is not migrated; `DoneMeansAll` speaks of what was captured.
* A udev event between the updater's stop and its start brings up the old
  revision, which `start_services` then leaves alone: the update completes and
  the old code runs (`"udev"` in `SuccessRunsNew`).
* SIGINT and SIGTERM end the updater without a rollback (`"signal"` in
  `RollbackRestores`).
* A signal between `rm -rf` and the end of `tar` in `restore_state()`
  (update.sh:272-274) leaves the state directory empty, and nobody unpacks the
  archive of a run that has ended; services that udev starts in between save what
  little they know (`"emptied"` in `StateSurvives`). The archive itself stays in the
  backup directory. Any other signal leaves the saved state where it is.
* A signal while the tracked `config.json` is back leaves it beside the edited
  `config.json.legacy`, and the next migration copies it over that one
  (migrate-config.py:128-130). That is so during `git pull`, after
  `git checkout -- config.json` (update.sh:364-367), and in a rollback until the edited
  file is copied back (update.sh:282-285) (`"leftTracked"` in `LocalConfigKept`; the code
  archive still has the edited file).
* With `--no-restart` the migration is skipped, and the edited `config.json` of a
  legacy installation is overwritten without a copy (update.sh:364,
  `"unmigrated"` in `LocalConfigKept`).
* A state archive that cannot be written in full is still unpacked over the emptied
  state directory by the rollback (update.sh:360 and 271, `"backup"` in
  `StateSurvives`).

## 5. Fairness

Liveness is checked only under fairness that the code's own scheduling gives.

* `Hotplug`: the scan goes on (GLib's timer and the finite timeouts of every call
  in it), the clock ticks, the supervisor restarts a manager that is down, a
  backend whose device went ends (`--device-error-limit 3`), a driver without a
  device behind it ends (three failed cycles). No fairness for devices or faults.
* `Driver`: some tick happens while the driver may start a cycle, worker threads
  and idle callbacks go on (sockets have timeouts), a process that was asked to
  quit exits, and the manager starts a new one.
* `Supervisor`: `run()` goes on, and so does each manager's `main()`: what it
  waits for has a timeout.
* `Topology`: scans, the refresh, the retries and the worker go on, and each driver
  registers and handles its calls.
* `Instances`: a scan ends in the copy of the settings, starts what has no record
  and drops what has ended; each driver gets through its start and handles its
  signals and idle callbacks. Nobody has to write anything.
* `Storage`: the driver's own steps go on, the timer among them. No poll, stop or
  sync by the file system is assumed.

All of it is weak fairness. In `Updater` and `Migration`, whose scripts may stop
anywhere, only safety is checked.

## 6. The proofs

TLC checks instances; the theorems hold for every value of the constants.

### HotplugProofs

* `TypeCorrect`: `Spec => []TypeOK`, under `ConstantsAssumption` alone, with
  crashes, stuck processes and disk errors allowed. One lemma for the steps of the
  scan and one for the environment; `LeastIsMember` and `FreePortIsFree` say what
  the CHOOSE behind the lowest free port returns.
* `RecordsAreUnique`: `Unique`, serials and ports, under the same assumption
  alone. Every step but two only removes records or keeps them (`Shrinks`), which
  keeps both; `StartDevice` takes a port that no record has, and `ProbeSucceeds`
  adds one record with a serial that the duplicate check just found unused and
  with that port. That needs the second half of `UniquePort`, that the port of
  the device being started is in no record: without it the invariant is not
  inductive.
* `TheManagerKnows`: `RecordsAreTrue`, under the same assumption alone: a record
  whose flags say that its backend and its driver live is right, and the backend
  has the device of its path, however many processes an earlier manager left
  behind. What a process that ends or loses its device changes, it changes in
  both places (`Unplug` takes the device from the path and from the backend that
  has it); a backend is only started at a port where nobody listens, or else it
  ends at once and `own` says so; and a port is in one record (`Unique`), so
  that what happens to the backend there is not the concern of another. `Swept`
  (see `AttemptsAreKept`) says that the sweep stops a pair whose record is there.
* `DriversKeepTheirDevice`: `NoOrphans` and `DriverTalksToItsDevice`, under
  `Reliable`: no crash, stuck process or disk error, finitely many paths, and at
  least as many ports as paths (the code has twice as many). The inductive
  invariant adds `Pending`, no path still to be started has a record, and
  `Truthful`, a record's port is answered by a device with the record's serial or
  by none. The argument: with enough ports no exception leaves the scan
  (`NoRaise`), so records and processes change together; the only step that
  creates a driver has just read the serial through the port it hands over; and a
  backend is replaced only after the record that knows it was popped. The run
  `hotplug_orphan` shows why `Reliable` is needed. `NothingIsOrphaned` is the
  corollary for `NoOrphans`.
* `AttemptsAreKept`: the action property `FlappingBacksOff`, under
  `ConstantsAssumption` alone. The invariant it needs is `Swept`, a path the sweep
  has still to visit has its record: without it the step that resets the attempts
  might look at the age of a record that is no longer there.
* `SerialsAreKept`, no step takes a serial out of `devices.json`, failures and
  restarts included; and `ServedIsSaved`, under `~DiskErrors`: what is served is
  in it, from `manifest = saved`, which one failed write breaks for good.
* `ScanningGoesOn`: under `Reliable` no exception leaves `scan()`, so the timer is
  never lost and the manager ends by a signal only. `ScanVisitsOnce`: under
  `ConstantsAssumption` alone each step of a scan lowers the phase that is left or
  takes a path off `todo`, so that with finitely many paths a scan ends: the part of
  liveness that is within reach.
* `ManagerIsDirectory`: the refinement `Spec => IsDirectory` under `Reliable`. The
  invariant of `DriversKeepTheirDevice` and `Here` (a device is at one path, and a
  backend's device is plugged in) map every step of `Hotplug`: most steps only end
  processes (`Falls`), which is `Stop` or a stutter; a device that goes takes its
  backend along, which is `Leave`; `StartDevice` listens at a port nobody reads, so
  nothing shows; and `ProbeSucceeds` is `Start`, because the device that answered
  is plugged in and has the serial.

### SupervisorProofs

* `TypeCorrect`, `NeverTwoManagers` (`OneManager`) and `ControlledStopIsClean`
  (`StopLeavesNothing`), under `ConstantsAssumption`. The inductive invariant is
  `Sole`, a living manager is `self.child` and there is none when `run()` starts
  one, backs off or is over; `Accounted`, while time was never short what is left
  belongs to a living or a crashed manager; and `Told`, a stop that was not early
  has reached the running loop of the living manager. `Told` is what rules out
  the kill of a manager that nobody told: it relates the supervisor's event to the
  manager's control point.
* `StopIsCarriedOut`: an action property, the half of `StopEnds` that needs no
  fairness. After a stop `Left`, the distance to the end of `run()`, goes down with
  each of its steps, the stop is not forgotten, and the only manager that may still
  start is the one a `Popen` that was due brings up.

### DriverProofs

`TypeCorrect`, `NeverTwoCycles` (`OnePoll`), `RememberedIsApplied`
(`LastIsApplied`), `FaultsAreShown` and `AlarmsArePreserved`, under
`ConstantsAssumption`. `Alone` ties the flag `_poll_in_progress` to the worker: no
two are busy, a busy one has the flag, a process that is gone has none. `Brought` is
what makes `LastIsApplied` inductive: a worker that has written and is done brings
the voltage the inverter has, and while none does, the remembered one is right.
`WritesAreNeeded` uses both: a voltage that is about to be sent is not the one the
inverter has, unless it is the first of this driver or an answer was lost. `Chosen`
says that the comparison made at the beginning of the cycle (`changed_charge_voltage()`)
still holds two reads later, because only the one cycle there is writes.

### StorageProofs

`TypeCorrect`, `NothingIsLost` and `FileIsAtomic`, which is the refinement
`Spec => IsAtomic`. `Durable`: whatever is named in a directory was synced
before; `Writing`: a save writes what is in memory; `Remembers`: what is in the file
is in memory, too, or in a quarantined file, so replacing it loses nothing.

### MigrationProofs

`TypeCorrect`, `ConfigurationIsKept`, `PutAwayLast` (`DoneMeansAll`) and
`HistoriesOnlyGrow` (`NoHistoryLost`). The lemma `MergeCovers` says that
`merge_history()` knows what both its arguments know; `Complete`, that while entries
are asked each is found or still to be visited, and that what is no longer to be
saved is in its store; `Untouched`, that the old file stays until then. `MergeIsJoin`
is about the operator alone: merging is idempotent, commutative and associative,
and what it makes is the least history that covers both, so that neither the order
nor the repetition of migrations matters and nothing is made up.

### UpdaterProofs

`TypeCorrect`, `SavedStateSurvives`, `EditedConfigIsKept` (`LocalConfigKept`),
`CompleteMeansNew` (`SuccessRunsNew`) and `RollbackIsComplete`
(`RollbackRestores`), under `ConstantsAssumption`, for any number of runs of the
script. While `crowd` is not in `disturbed` one run works and has the lock
(`Sole`), and the rest of the invariant says how far the disk is by where that run
is: `Held`, the state it must not lose is on the disk, or in the archive that it is
about to unpack, and no archive it has is older than the stop;
`Forwards` and `Replaced`, on the way forward what is behind it is new; `Known`,
on the way back what is not undone yet is still to come, and with nobody at work
nothing is new unless the code is; `Kept`, the edited configuration has a name that the
next step does not overwrite, and the tracked one is beside it only from `git checkout`
to `git pull` and on the way back (`Beside`). `NothingIsHalfDone` reads `Known` between the runs: the
services run, and nothing new is there without the new code. `RunsEnd` is an action
property: each step of a run takes it further on one way forward and back (`Way`), so
a failure in a rollback starts no other, and a run ends after eighteen steps at most.

### InstancesProofs

`TypeCorrect`, `InstancesAreDistinct` (`Distinct`) and `ShownIsStored` (`Persisted`),
under `ConstantsAssumption`: finitely many devices and a range of instances at least
`2 * n - 1` wide, so that `allocate_instance()` always finds one (`AllocateIsFree`,
by counting). `Apart` extends `Distinct` to drivers on their way to registration,
of which there is one while `crowd` is false. `ShownIsStored` is the harder one.
`Told`: the changes a driver has still to hear of lead from what it knows to what is
stored, and none of them is a change to the same value, so each one it handles adds
an idle callback; `Restless`: the last value it is going to restore is not the one
it knows, so restoring it is a change again. A driver can therefore only run out of
both when it shows what is stored, and a restart keeps it busy until it ends.

### TopologyProofs

`TypeCorrect` and `DriversAreTold` (`Agree`), under `ConstantsAssumption`: at most
seven devices, any wiring, ports and number of unhandled calls. `Agree` is about
drivers that have read their last message; `Promised` extends it to every driver: what
it will divide by when it has read all its messages is what its slot shows, or
more is coming. `Scheduled` says why more is coming whenever the set of serials is not the
one the counts are for, and `Counted` that a count that was applied is never 0, so
that a slot does not fall back to another number by itself. The step that needs
most of it is `Apply`: it changes all slots at once, forgets who was `late`, and sends the new count to
every driver that can be reached; who cannot is in `retries`. `ApplyRaises` changes the
slots and sends nothing: all its drivers are `late`.

### Only model-checked

The liveness properties `EventuallyConverged`, `FollowsBms`, `GivesUp`, `StopEnds`,
`KeepsAlive`, `EventuallyAgree`, `Settles` and `Saved`, because temporal proofs under
fairness need ENABLED, which this prover does not handle. Every other property
of a passing run is stated by a theorem.

## 7. Not modelled

* `normalize_p18_alerts()` and `parse_p18_result()`: pure functions over the fields
  of one answer; `Driver` takes their results as values.
* Custom name and poll interval: copied between setting, slot and driver like the
  Device Instance, without a condition that depends on other devices.
* The index of a slot: a writer captures it (mppsolar-manager.py:146), and a device
  that comes or goes shifts the slots; which device the user meant is in no state.
* `verify-runtime.py`, the installers, the QML pages and the build files: one-shot
  programs without state of their own; where they take part in an update they are
  one step of `Updater`. Their checks are quoted by the properties.
* Two simultaneous runs of the start script, which can start two supervisors: what
  they do depends on the order in which D-Bus grants the manager's name.
* A power loss during the migration: `shutil.copy2()` does not sync the copy before
  the original is unlinked; what is left depends on the file system alone.
* `inverterd`, velib_python, localsettings, git and tar: external, present only
  through what the programs here rely on.
