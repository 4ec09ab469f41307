# ATB: a TLA+ model of how evidence is captured and stored

ATB records what an AI system did as *evidence*: NDJSON bundles whose records
form a hash chain. This directory models the part of ATB where evidence can be
lost, duplicated or misreported by timing alone: continuous capture
(`atb intercept` with its journal, bundle and checkpoint), its status command,
and the file lock and whole-file rewrite all bundle writers share. TLC checks
the models on small instances; TLAPS proves the central properties for every
instance.

## The system's parts

| Part | Code | State it keeps | What makes it hard | Here |
|---|---|---|---|---|
| Capture journal | `internal/capturejournal` | append-only file, two marker files | torn lines, failed fsync, repair interrupted by a crash | `CaptureJournal` |
| Capture coordinator | `internal/proxy/capture.go` | journal, bundle and checkpoint files, gap flag | a crash between any two of three files' writes; files deleted between runs | `Capture` |
| Acquisition checkpoint | `internal/acquisition/checkpoint*.go` | position, incarnation, bound bundle head | bound to a bundle that is not durable | `Capture` |
| Capture status | `internal/proxy/status.go` | none; reads four files | reads taken at four moments of a running capture | `CaptureStatus` |
| Bundle lock | `internal/bundle/lock*.go`, `rooted.go` | sidecar file, flock | the name and the locked inode drift apart | `BundleLock` |
| Bundle store | `internal/bundle/bundle.go`, `write.go`, `sign.go` | the bundle file | whole-file rewrite of a copy loaded earlier | `BundleStore` |
| Command-line writers | `cmd/atb` (append, snapshot, anchor, import, capture) | a loaded copy | load outside the lock; beside a running capture | `BundleStore`, `CaptureWriter` |
| Proxy recorder | `internal/proxy/recorder.go` | mutex, stopped flag | append racing Stop | `Capture` (with capture enabled) |
| Proxy sessions | `internal/proxy/session.go` | table, idle timers, counters | timer against request against shutdown | planned |
| Proxy forwarding | `internal/proxy/forward.go`, `handler.go` | body budget | budget released on every path | planned |
| Local agent | `internal/agent` | sessions with in-memory bundles | two sessions on one path; close failing half-way | planned |
| Import, reconciliation | `internal/acquisition` | bundle, checkpoint | crash between the two saves, re-import | planned |
| Archive ledger | `internal/archive`, `cmd/atb/archive.go` | chained ledger file | no lock; one of several files failing | planned |
| Hash chain, verification | `internal/hash`, `internal/verify`, `internal/trust` | none | pure algorithms | planned |
| Anchoring, push | `internal/anchor`, `push`, `mortise` | none | retries of calls already done | planned |
| Everything else | signers, identity, encryption, packs, profiles, MCP, OTLP translation, HTTP API, SDKs, web UI | none shared | sequential or cryptographic | not modelled |

`PROJECT.json` lists every part with its files, and every hazard with the line
where it bites.

## The modules

**`CaptureJournal`** is `journal.go`. `jFile` is the file's complete lines,
`jTorn` a fragment behind them, and `jSafe` how many lines an fsync covers: a
kill keeps everything written, a power loss any length from `jSafe` on. `jMem`
is the process's `entries`; `jPhase` is where `Open` or `Append` is. `Open` is
`OpenRead`, then `WriteRepairMarker` and `TruncateTornTail` when the tail is
torn; `Append` is `WriteLine` and `SyncLine`, or one of its error returns.
`outcome` is a history of what became of each observation. `MarkerMayFail`
says whether the best-effort degradation marker can fail too; `Faults` is the
set of faults the environment commits: `"kill"`, `"power"`, `"io"` (a system
call fails) and `"loss"` (a file is deleted while capture is down).

**`Capture`** extends it with the coordinator. The recorder mutex makes it
sequential, so one `pc` says where the only call in progress is. `Start`,
`RepairStep` and `Recover` are `enableCapture` and `recover`'s checks;
`Observe`, `Journal`, `CommitPending` are `commit`; `ReplayEntry`, `ReplayDone`,
`SaveRename`, `SaveSync`, `CheckpointRename`, `CheckpointSync` are the loop and
the two saves that `recover` and `commitPending` share (`mode` tells which
runs). Every file has two variables: what the running system shows (`bun`,
`cpFile`), and the set of contents a power loss may leave (`bunDisk`,
`cpDisk`): a rename adds to the set, a directory fsync reduces it to one.

Records chain by hash, so the hash of a record stands for the whole prefix up
to it: a checkpoint's head hash and record count are modelled by that prefix.
A bundle's manifest holds a random id; two bundles created separately differ by
it even when both are empty. An observation's payload is a model value, its
digest is the value itself, and its `observation_id` is (incarnation, position).

**`EvidenceLog`** is what capture promises: a log that only grows, and evidence
that grows towards it in order. `Capture` implements it with `log <- jFile`.

**`CaptureStatus`** adds a reader that takes marker, bundle, journal and
checkpoint in four steps among the coordinator's, and decides as
`ReadCaptureStatus` does, in its order. The cases that need a malformed file
(failed integrity, an unreadable checkpoint, another adapter) are left out:
no action of the model writes such a file.

**`CaptureWriter`** adds a command that loads the capture bundle, appends and
saves. `Overlaps` says whether commands run while capture is up. The bundle was
created by capture, which refuses one that is not manifest v3.

**`BundleLock`** is `lockPath` and `lockPathRooted`. `name` is the inode the
sidecar's name stands for, `fd` the inode each process opened, `holder` whose
flock an inode carries. `Create` and `Open` are the two `OpenFile` calls of
`openLockFile`; `Unlock` and `RemoveSidecar` the two halves of `release`.
Several calls in one process are several members of `Proc`: each opens its own
descriptor.

**`BundleStore`** adds the file and its writers: commands `Load` before they
lock and keep the copy while they wait; a signer does `Read` inside the lock.
Both `Rename` a whole new file over the old one. A record is named by the
process that wrote it.

The `MC*` modules only give TLC a root; the configurations give the constants.

## The runs

| Run | Faults, constants | Question |
|---|---|---|
| `capture_kill` | kill, io; 3 observations | Does evidence follow the journal, is `healthy` honest, is every loss marked, does recovery always succeed, is `EvidenceLog` implemented, and is the journal drained in the end? Yes. |
| `capture_power` | power; 3 observations | Do the three files agree after any power loss? Yes: position and binding are durable and recovery is never refused. |
| `capture_mixed` | kill, power, io, marker may fail; 3 observations | Does an acknowledged observation ever leave the evidence, an identity name two records, or the journal become unreadable? No. |
| `capture_loss` | kill, loss; 2 incarnations, an operator token | Can capture run over evidence it cannot account for, or mix two sources? No. |
| `capture_bind` | kill | Is the checkpoint bound only to durable bundles? No: see below. |
| `status` | kill, io; 2 observations | Can a reader report healthy over a loss? No. |
| `writer_between` | kill, io; 2 observations, 2 command records | Do commands between capture runs lose, or cost, a record? No. |
| `writer_overlap` | no fault | And commands that overlap a commit? Yes: see below. |
| `store_stable` | 3 processes, a sidecar present | Do lockers exclude each other, and is a signature over what was hashed? Yes. |
| `store_live` | 2 processes, no sidecar | Can crashes, stale or vanishing sidecars wedge the lock or leave half a bundle? No. |
| `lock_unlink` | 3 processes, no sidecar | Does `lockPath` exclude when it creates the sidecar? No: see below. |
| `store_append` | 3 processes, a sidecar present | Do commands keep each other's records? No: see below. |

Every passing property has a mutant: the code changed the way a plausible slip
would change it (a marker written after the truncation, a commit without the
directory fsync, a replay from the newest entry, ...), which breaks the property.

**Bounds.** Three observations are a backlog of two (one committed late, one
lost or torn) and a commit on top of it; an observation is used once, which
bounds the journal. Two incarnations are the recorded one and another; two
bundle ids are the bundle and one created in its place. Faults are not counted:
they strike any number of times. Where a reader or a writer is added, two
observations keep the product small and still leave one committed and one
pending. Three processes are what the unlink race needs at most (one that
releases, one that opened early, one that comes late). `MaxRecords` and
`MaxForeign` bound the records writers add. Symmetry is not used.

**Fairness.** `LiveSpec` assumes that a call in progress goes on, that a
supervisor restarts capture when it is down, and that faults and stops end.
Nothing makes an observation arrive. `StoreLiveSpec` assumes that a process
inside `lockPath` or between lock and release goes on until it crashes. Neither
assumes a step the code does not take by itself; a process that waits for the
lock may always give up.

## Where text and code disagree

Each is a run TLC refutes.

- `capture_bind`. `BindBundle`'s comment and `recover`'s say a checkpoint is
  bound only to a durable bundle. A kill between the bundle's rename and the
  fsync of its directory, followed by a start that has nothing to replay, binds
  one whose rename is not durable.
- `writer_overlap`. The capture guide says a durable observation is never
  silently lost. A command that loads the bundle, lets capture commit, and then
  saves, removes the committed observation; the lock is held only for the save.
- `lock_unlink`. `Save` documents an exclusive lock. `release` removes the
  sidecar after unlocking it, so one process can lock the removed inode and
  another a new one. `lockPathRooted` keeps the sidecar for this reason.
- `store_append`. The architecture document calls bundle mutations append-only
  and safe from concurrent writers. Two commands that load before either saves
  leave one of the two records; waiting for the lock makes it certain.

Four smaller ones have no run of their own:

- `journal.go:321,332` call what `Len` and `Entries` return durable; after a
  kill inside `Append` and a reopen they include a line no fsync has covered.
  A power loss then can leave a bundle or a checkpoint ahead of the journal,
  and startup fails closed. This is why `capture_power` has no kills: with
  both, `PositionIsDurable` and `NeverRefused` do not hold.
- `continuous-capture.md:106-108` says the status shows `degraded` or
  `recovery_required` after a refused start. A start refused for its token
  changes no file, and the status is what it was.
- `continuous-capture.md:184-187` says a lost journal is reported with
  `possible_unknown_gap`. With a degradation marker present its case comes
  first, and the flag stays false (the state is `degraded` all the same).
- `continuous-capture.md:68-70` says deleting the checkpoint resumes under a
  fresh incarnation. `enableCapture` adopts the journal's.

## What is proved

TLAPS checks every step; no constant is bounded.

| Theorem | Statement | Under |
|---|---|---|
| `JournalTypeCorrect`, `CaptureTypeCorrect` | the type invariants | any faults |
| `JournalStaysReadable` | `PositionsAreDense`, `AppendsStartClean` | any faults |
| `ReturnedEntriesSurvive` | `ReturnedIsDurable` | any faults of `JSpec` |
| `LossIsDisclosed` | `LossIsMarked` | the marker can be written |
| `AcknowledgedSurvives` | `AckedIsEvidence` | no file deleted |
| `EvidenceInOrder` | `EvidenceFollowsJournal` | no power loss, no deletion |
| `CaptureImplementsLog` | `Spec => ImplementsEvidenceLog` | no power loss, no deletion |
| `StableSidecarExcludes` | `MutualExclusion` | nobody removes the sidecar: all lock rooted, or it was there |
| `SignatureCoversBundle` | `SignedIsCurrent` | the same |
| `LockedReadsAppend` | `AppendOnly` | the same, and every writer reads inside the lock |

The arguments. *Journal*: `PositionsAreDense` is inductive only with what each
phase knows: in `open` and `written` the memory equals the file, up to the line
being written, and after a failed write or fsync the journal no longer appends.
*Acknowledged observations*: the invariant carries, through load, replay, save
and fsync, that the bundle in memory extends every bundle a power loss may
leave, so replacing the file never drops an acknowledged record; and that once
the loop is done the newest journal entry is in the bundle about to be saved.
*Refinement*: the bundle is a prefix of the journal, and the checkpoint's
position never exceeds that prefix, so each replayed entry is either committed
(and skipped) or exactly the next one. Recovery starts from the checkpoint and
not from the bundle's end, which is why the position has to be in the
invariant. *Lock*: when the sidecar is stable, every open descriptor refers to
the inode the name stands for, and a process inside the lock is that inode's
holder. *Store*: from that, nobody else renames between a read inside the lock
and the write.

Only model-checked: liveness (`RestartDrainsJournal`, `AloneGetsTheLock`), and
`HealthyIsComplete`, `NeverRefused`, `BindingIsDurable`, `PositionIsDurable`,
`IdentityIsUnique`, `RunsOnlyWithContinuity`, `OneSource`,
`HealthyReportIsComplete`, `CommandRecordsStay`.

## What is left out

In the modelled parts: malformed and foreign files (the readers reject them and
change nothing), size limits, timestamps, digests as bytes, a disk that fails to
keep what it fsynced, and the Windows lock. An entry the journal accepts and
the bundle's append rejects does not occur in the model.

## The plan

Done: the journal, capture and its refinement, status, commands beside capture,
the lock and the store, with the proofs above. Next, most important first:

1. `ProxySessions`: `Resolve`, `NoteExchange`, idle timers, `CloseAll` and the
   recorder's close callback; one close record per session, counts that match,
   every session closed in the end.
2. `AgentSessions`: sessions over bundle files, two on one path, a close that
   fails half-way, shutdown.
3. `ImportCheckpoint`: the two saves of a checkpointed import, crashes between
   them, re-import of the same source.
4. `ArchiveLedger` and the hash chain: append and verification, a run that fails
   at one of several files; the anchor's two reads.
5. The body budget of the proxy, and push retries.
6. Proofs: `IdentityIsUnique` and `OneSource` from the refinement's invariant,
   `NeverRefused` under kills, `HealthyIsComplete`, `RunsOnlyWithContinuity`,
   then the invariants of the new modules.
