# A verification development for Freshen

Freshen (Rust, `src/`) updates a desktop application: it finds the newest signed
release, downloads and unpacks it, and replaces the program files from a helper
process, with a journal that lets an interrupted update be rolled back. This
directory holds TLA+ models of that code, TLC runs on small instances, and proofs
checked by TLAPS for every instance. Paths and line numbers are those of the
repository; `PROJECT.json` gives for every definition the lines it translates.

    tlc -workers 2 -config install_portable.cfg MCInstallTransaction
    tlapm InstallTransactionProofs.tla

## 1. The system

| Component (code) | State | Operations | Interacts with |
|---|---|---|---|
| Installation transaction (`src/install.rs`, `src/fsutil.rs`) | `.freshen/transaction`: `journal.json`, `plan.json`, `stage/`, `backup/`; `update.lock`; the program files | `arm`, `apply`, `finish`, `rollback`, `recover_installation`, `discard_finished_installation`, `installation_status` | its files are shared by application, helper and later boots; one lock |
| Helper handoff (`src/helper.rs`) | three token files (`ready`, `cancel`, `confirmed`), three processes, deadlines | `launch`, `Handoff::cancel`, `run_helper`/`execute`, `confirm_startup` | runs the transaction; the application starts the helper, the helper starts the new application |
| Release discovery (`src/updater.rs`, `check`) | the list being read, best candidate, history | `check` | a transport; a `Cancellation` of another thread |
| Download and preparation (`src/updater.rs` `prepare`, `src/archive.rs`, `src/transport.rs`, `ffi/src/transport.rs`) | `package.zip`, the stage, the sink's counters | `prepare`, `extract`, `download`, `freshen_sink_write`, `freshen_sink_set_total` | the host's callback writes through the sink; a `Cancellation` |
| Shared folder (`src/shared.rs`) | metadata file, synchronised program files | `publish`, `inspect` | a synchronising client outside the code |
| Manifest and trust (`src/manifest.rs`) | the sets of a walk over one manifest | `ReleaseManifest::validate`, `check_path`, `TrustStore::verify` | used by all of the above |
| Install policy (`src/install.rs`) | none | `InstallPolicy::validate`, `items`, `safe_join` | used by `arm` and the plan, on the artifact that was verified |
| C interface (`ffi/src/*.rs`) | the objects behind opaque handles, strings, the last error of each thread | create, use, consume, free | a host with several threads and callbacks; the bindings |
| Bindings (C++, .NET, Objective-C) | a handle each | wrappers | the C interface |
| Release tool, helper program (`src/bin/*.rs`) | packages, manifests and signatures on disk | `keygen`, `pack`, `merge`, `sign`, `recover` | each command is a process beside others and beside the build; `recover_installation` |

What is hard in it, and what must hold:

- **Crashes and failing saves.** `apply` and `rollback_inner` are sequences of
  durable steps, and any may be the last, or fail after taking effect (the
  directory is synced after the rename). Journal and backups on disk must always
  lead back to the original files, and a terminal state must be true.
- **Three processes and one lock.** The lock is handed from the application to the
  helper by letting it go: `arm` drops it, the helper takes it, and discard or
  recovery may come in between. The helper then looks at the cancel file, the
  application, its clock, the confirmation and the new application one after
  another, while they all change. Nothing may be installed under a running
  application or against a cancellation, and a commit must be confirmed.
- **Untrusted data in pieces.** Lists repeat themselves, feeds change while they
  are read, archives hold anything, and the host may go on after an error. The
  result must be exactly what the signed documents say, within the limits.
- **Files that change while they are read.** A synchronising client replaces files
  while `inspect` hashes them one after another; a build changes the directory that
  `pack` reads twice. What is then reported or signed must still be true of it.
- **A boundary with manual ownership.** A call that fails half way must not create
  an object nobody can free, use half an update up, or let one thread read
  another's reason.
- **Waits.** `launch` has a deadline; `Handoff::cancel` has none of its own. Each
  must return.

`PROJECT.json` lists these hazards at their lines, with the properties that cover
them.

## 2. The modules

    AtomicUpdate          <- what an update promises
      InstallTransaction  <- the transaction; refines AtomicUpdate
        UpdateHandoff     <- + the processes around it; refines InstallTransaction
    ReleaseDiscovery      <- Updater::check
    PackagePreparation    <- Updater::prepare, extract, the sink
    PackageRules          <- ReleaseManifest::validate, InstallPolicy::validate
    SharedFolder          <- publish, inspect and what synchronises the folder
    SingleUse             <- what the C interface promises of updates and handoffs
      HostInterface       <- the calls of the C interface; refines SingleUse
    ReleaseTool           <- pack, merge, sign

Each has an `MC` module with the values of its constants and a `Proofs` module (not
`AtomicUpdate` and `SingleUse`, which are what others refine). The modules meet
in what one proves and another takes as a constant: a manifest that PackageRules
accepts is the `Manifest` of PackagePreparation and the release of
InstallTransaction, and `AgreesOn` in ReleaseTool is what PackagePreparation compares
for each file. Definitions named with a comment `Mutant:` are plausible mistakes in
the definition after them; they are used nowhere, and replacing the definition by its
mutant breaks the property `PROJECT.json` pairs with it.

**AtomicUpdate.** The files and a phase. Between settled moments the files are
those from before or those from after, whatever goes on in between.

**InstallTransaction.** One action per step another process or the next boot can
see. `root` is the program files, `dir`, `journal`, `plan`, `stage`, `backup` what
is on disk, `op`/`pc`/`mem`/`todo`/`mine` the operation that holds `update.lock`
with the journal in its memory, and `launch[t]` how far helper `t` got outside the
lock. An item's content is one value: the release it comes from, something of the
user's, `Absent`, or `Damaged` for a bundle that is half copied, a bundle's backup that has
lost some of its files, or a stage that was tampered with. `LoseBackup` leaves nothing
of a backup or, of a bundle's, a part (`Trims`).

| Code | Actions |
|---|---|
| `arm` | `ArmBegin`, `ArmStage`, `ArmJournal`, `ArmPlan`, `ArmFails` |
| `discard_finished_installation`, `remove_tree` | `DiscardBegin`, `RemoveEntry`, `RemoveDir`, `RemoveFails` |
| `launch`, `run_helper` up to the lock | `LaunchCopy`, `HelperLoad`, `HelperLock`, `LaunchEnds` |
| `apply` | `HelperStops`, `ApplyBegin`, `ApplyRejected`, `ApplyBackup`, `ApplyBackupPart`, `ApplyStart`, `ApplyBackupFails`, `ApplyIntent`, `ApplyAside`, `ApplyReplace`, `ApplyFinish`, `ApplyFails` |
| `finish`, `rollback`, the end of `execute` | `Conclude`, `RollbackBegin`, `Mark` |
| `rollback_inner`, `recover_installation` | `RecoverBegin`, `RbSave`, `RbSaveFails`, `RbRestore`, `RbRestorePart`, `RbFinish`, `RbFails` |
| the machine, other programs | `Crash`, `Tamper`, `LoseBackup` (each only when `Faults` has it) |

**UpdateHandoff** extends it with the processes: every step of the transaction is
a step here, with what the protocol adds to its guard (`Plain` are those it adds
nothing to). `look` is what the helper looks at next, so that any process may move
between two of its looks. `app[t]` and `child[t]` are the applications before and
after; `ready`, `cancel`, `confirmed` are the files. `asked` and `acked` are
history, for the properties. `confirm_startup` takes no lock and is four actions: the
plan and its token (`LoadsPlan`), the program's hash (`HashesProgram`), the journal's
state (`ReadsState`) and the write (`Acks`), or a failure of one of them
(`ConfirmFails`). A hash does not tell two releases with the same program apart:
`HoldsProgram` says in which contents the program of a release is found. Recovery is
run offline (`RecoveryIsInTime`), as its comment asks, or, with the fault `"online"`,
under the new application, since nothing enforces it.

**ReleaseDiscovery.** `pairs` is the list of locations, `at` the index of the
loop, `seen`/`got` what was read, `history` and `best` the two results. What a
location serves is chosen when it is read, so a feed may change at any time; the
`Cancellation` may be set at any time.

**PackagePreparation.** `step` is where `prepare` is; `zip` the length of
`package.zip` and whether its bytes are the published ones; `sink` what
`FreshenSink` has counted and whether it has recorded an error; `index`, `opened`,
`seen`, `stage` the loop of `extract`. The host may write, announce a total, go on
after an error, and return anything. `Checks` is the look at the `Cancellation`
before each write, entry and block; the cancellation may come between it and the
write. `HttpTransport::download` is a host that stops at the first error.

**PackageRules.** `manifest` and `policy` are the documents; `art`, `file`,
`targets`, `paths` are the loops and sets of `validate`, which is a walk:
`OpensArtifact`, `ChecksFile` and `ClosesArtifact` (with the search for a file that
is a folder of another) until a `verdict` is there. `Decides` is then
`InstallPolicy::validate`, as `PortableAllows` and `BundleAllows`. A path is the
sequence of its parts; `Fold` is the case the code ignores, `Begins` the texts that
start alike, for what a comparison of texts would confuse. `VerdictIsRight` states
what a sound manifest is without the walk.

**SharedFolder.** `source` is the folder on the machine that installs and
publishes, `folder` the one where `inspect` runs; `incoming` and `locked` are the
client's. A copy of a file is named by the release whose installation wrote it, or is
`Torn` or `Link` while it is being replaced; `Content` says what is in it, and that is
all the client and `inspect` can see (`Seen`, `Matches`). Only the program is assumed to
differ in every release, as it knows its version: any other file may stay as it was, or
be put back to what it was some releases ago. `inspect` is one action per look: the metadata
(`ReadsNothingNew`, `FailsOnMetadata`, `ReadsRelease`), each file (`HashesFile`,
`FailsOnLink`), the result (`Reports`). `Installs`, `RollsBack`, `Fetches`, `Lands`,
`LetsGo` and `Restarts` are the surroundings, modelled from what the code's
documentation says of them.

**HostInterface.** `object`, `whole` (the handles whose `Option` is still full),
`flagOf`, `staged` (updates with files on disk) and `strings` are what the library
holds for the host; `known` and `handed` what the host was given. The host keeps to
the contract in `ffi/src/lib.rs`: `Usable` says what it may pass. A call that
blocks begins and ends (`BeginsCheck` ... `Finds`, `BeginsArm` ... `Arms` or
`ArmFails`), so that other threads, callbacks and `freshen_cancel_cancel` come in
between; the others are one action. `Stores`, `Hears` and `Creates` are the idioms
all calls share: the out-pointer is written first, the message is the thread's own,
an object is created last. `FailsWithin` is a call that fails in a callback, on the
thread of the outer call, and a panic where there is no status to return.

**SingleUse.** What the calls amount to for the two things that are good for one
use: a prepared update and the handoff that comes of arming it. `life` says of each
handle whether it holds one, a call has it, or it is spent; in HostInterface that is
`LifeOf`, of `object`, `whole` and the calls under way.

**ReleaseTool.** `pack[p]` is a run of `pack` at its place in the code (`at`), with
its list of files; `zip`, `single`, `merged`, `signature` are the files it, `merge`
and `sign` write, none of which overwrites another. A file is read three times: its
length (`Stats`), its hash (`Hashes`), its bytes (`Adds`); `Edits` may come between.
`touched` is history, for the property: the files that were changed after a run read
their length and before it put them into its package. `Fails` ends
a run anywhere, with what it has written left behind.

## 3. The runs

| Run | Instance | States | Shows |
|---|---|---|---|
| `install_portable` | two releases (one adds a file), a file of the user's, three handoffs; failing saves, crashes, tampering, deleted backups; fair | 143 k | the inductive invariant, which says among other things that only vouched-for bytes are installed; terminal states are true, as rollback stops rather than delete a program or report success; intent first, legal transitions, refinement of AtomicUpdate; no operation keeps the lock, recovery settles an update interrupted in a state that `recover_installation` names |
| `install_bundle` | one directory that is backed up, renamed in and copied back file by file; the same faults, but for deleted backups | 73 k | a mixture of versions only while unfinished, only vouched-for bytes; the originals can always be restored; the process with the lock never goes back to work it has done |
| `handoff_protocol` | one item, two handoffs of one release; whoever holds the lock may crash; fair | 210 k | `arm` and `launch` agree with the lock, installs offline only, cancellation is final, commit is confirmed, a running new application is left alone; `confirm_startup`, with three reads and a write and no lock, accepts only the start of its own handoff, installed as a whole; refinement of InstallTransaction; helpers, `launch` and `cancel` all end |
| `discovery_stable` | every list of up to five of three locations; versions 1 to 4, two notes, foreign and untargeted manifests | 144 k | newest release, exact history, ties, justified errors |
| `prepare_any_archive` | every archive of up to three of ten kinds of entry; packages too long to download or unpack; fair | 28 k | a prepared update is exact; limits; the sink's errors; cancellation; unpacking ends |
| `package_rules` | every package of up to three of ten paths (nested, differing in case, beginning alike, unsafe), other artifacts around it, policies of both layouts | 272 k | the verdict of the walk is the declarative one; what is replaced are separate places outside the state directory |
| `shared_folder` | three releases of two files, one not for this machine, one that leaves a file as it was; one file rolled back; torn, locked and linked files; fair | 195 k | what `ReadyToRestart` can be relied on for, restarts go forward, the other machine gets there |
| `host_calls` | two threads, three handles, one flag, missing out-pointers (that of `report_status` included), panics; symmetric | 156 k | no object is lost, failures explain themselves; refinement of SingleUse: an update is armed and a handoff cancelled once, and files last as long as the update |
| `release_tool` | two runs of `pack` for the same outputs and one for another target, two files, one edit, failures anywhere; symmetric | 2.6 M | a signature describes what is published; its manifest is wrong only about files that were changed while they were packed |
| `install_stranded`, `handoff_stale_helper`, `handoff_late_ack` | see section 4 | | three disagreements |

**Bounds.** Two releases and two or three handoffs are needed for one transaction
to meet another's leftovers (a late helper, a discarded stage); three handoffs let
a third arm after a stale helper. Two program files make the loops of apply and
rollback interleave with a crash in each position, one existing before and one
not, and the third file is one nobody may touch. In `UpdateHandoff` one item is
enough, because the files are the transaction's business, which is checked with
more; what matters there is two handoffs, of the same release, so that a helper or a
confirmation can take one for the other. Three locations in lists of five give
repeats and lists over the limit (100 in the code, 4 here). Archives of three
entries contain the complete one, with a directory, and every way to miss or
repeat an entry. Sizes count blocks; `MaxStray` bounds the bytes that failed
writes leave in `package.zip`, which the sink does not count. Packages of three
files have a file, a folder of it and a stranger, in every order and case; deeper
nesting is two levels up, and the proof has any. Three releases are needed for a
newer one to arrive while an older is being hashed; `MaxReverts` is one, because
the properties that a rollback breaks are broken by one. Three handles are an
updater, a candidate and what one of the two becomes; a cancellation takes the
place of one of them. `MaxEdits` is one edit of one file, which can fall between
any two of the three reads. Tokens are used once each, so
the number of handoffs is the bound on the length of a history. `MaxStrings` caps
the strings that are in being at once; nothing else is capped.

**Fairness.** Safety properties use none. `FairSpec` of InstallTransaction: the
process that has the lock goes on (`WF(Holder)`; every wait of `execute` has a
deadline and every retry loop gives up after ten seconds), and the host calls
`recover_installation` as long as the status is one of the three its comment names
(`RecoveryNeeded`); that it may be called in others is in the model, but owed by nobody.
`Holder` leaves out the steps in which a save or copy fails: that a disk fails is never
owed. `RecoverySettles` adds the assumption that crashes and failures of recovery cease,
and speaks of those three states and of updates that have their plan; section 4 says
what it leaves out. `HandoffFairness`: processes are scheduled; the
deadlines of the two polls are strongly fair, because a poll that goes round again
reads the clock each time; the application and the new application are free never
to exit or confirm. `FairSpec` of PackagePreparation: only the part after the
download is fair, because the download waits for a host that owes nothing; and of that
only what the code does, not a failure of the disk (`DiskFails`), so that the end of
unpacking rests on the loops alone.
`FairSpec` of SharedFolder: installations on the other machine succeed in the end,
the client copies what differs and lets go of it, the host asks again and again; a
restart is strongly fair, because the client may take the program away between the
advice and the restart. That is what the README asks of the folder's owner, not a
promise of the code, and `Converges` is what the code adds to it. The other three
modules have no liveness: `PackageRules` is two loops over finite lists, and what a
host or a publisher does next is theirs to decide.
`CHECK_DEADLOCK FALSE` stands wherever the system may stop: an update is settled
and tokens have run out, a verdict is there, every run of `pack` has ended. It is
not in `shared_folder` and `host_calls`, where there is always something to do.
The liveness of `UpdateHandoff` has the form "infinitely often not waiting", which
for processes that never wait twice is the same as "waiting ends".

## 4. Where the code and its documents disagree

- **`install_stranded`.** `launch` copies the helper into the transaction
  directory after `arm` dropped its lock, and the copy creates the directory again
  if it was discarded meanwhile. Without a journal it is refused by `arm`
  ("resolve or discard the previous transaction"), by discard and by recovery
  alike. A crash inside `arm` and a half-failed discard leave the same.
- **`handoff_stale_helper`.** The helper's token is compared before the lock is
  taken; a delayed helper works on the transaction of a later handoff of the same
  release.
- **`handoff_late_ack`.** "If it exits without confirmation, the helper rolls
  back"; it also rolls back one that confirmed and exited between the helper's look
  at the file and its look at the process.

Seen in the models without a run of their own:

- A helper loads its plan before it takes the lock (`src/helper.rs:98`). A discard
  that removes the plan in between and fails later lets it apply an update that
  recovery has no plan for. `RecoverySettles` therefore speaks of updates that have
  their plan.
- "Run before normal startup when status is Applying/RollingBack/Failed", says the
  comment of `recover_installation` (`src/install.rs:528`). A helper that dies while it
  waits for the confirmation leaves `AwaitingConfirmation`, and nobody is left to decide
  it. `arm` and discard refuse that state; `recover_installation` rolls it back, which
  its comment does not say, so a host that goes by the comment keeps an unfinished
  update for ever. `RecoverySettles` speaks of the states the comment names.
- "Recovery failures remain visible rather than reporting success" (`README.md:161`). A
  backup that is missing is refused (`src/install.rs:512-515`), but the backup of a
  bundle is a directory, and one that has lost some of its files is there: the installed
  bundle is removed, what is left of the backup copied into its place, and `RolledBack`
  reported. With a bundle and the fault `"lose"`, `RecoveryFailuresAreVisible` is false
  for that reason, and so are `OnlyVouchedBytes` and the refinement; the theorems exclude
  this case (`~Trims`), and no run that has bundles has lost backups.
- `README.md:179` says of `inspect` that it checks every declared file hash, so that
  a small metadata file that arrives early does not trigger an early restart. When
  an installation is rolled back and then succeeds, the metadata may find files of
  the first attempt still in place while copies from the rollback are on their way:
  the files match, and older ones land after `ReadyToRestart`. `ReadyMeansArrived` and
  `RestartsAdvance` speak of folders in which nothing was rolled back. The same happens
  without a rollback when release 2 puts a file back to what it was in release 0: a
  machine that has not yet received release 1's copy has a file that matches, and the
  copy, which the client fetched before, lands after `ReadyToRestart`; the restart then
  runs program 2 beside file 1. `ReadyMeansArrived` therefore leaves out the files that
  a release has put back to earlier contents (`NeverPutBack`), which nothing in the code
  or its documents forbids. Also, "ready" does not mean that all files are of
  that one release: a newer one may be arriving, which `Arrived` allows for.
- `freshen_arm` documents that `prepared` is consumed whether it succeeds or fails
  (`ffi/src/install.rs:118`); with a null `out_handoff` it returns before it takes
  the update, which stays usable (`Refuses`).
- `report_status` loses both strings when it is given no place for the state
  (`ffi/src/install.rs:223`), as `TESTING.md:134-138` says, against "strings out are
  owned by the caller" (`ffi/src/lib.rs:15`). `host_calls` has this (`"nostate"`), so
  `strings` and `handed` come apart there, and no property says that they do not.
- The confirmation is not looked at by recovery: a helper that dies after the
  confirmation was written, before it saved `Committed`, leaves an update that
  `recover_installation` rolls back.
- "The installation must be offline" for `recover_installation` (`src/install.rs:529`),
  which it does not check. When it is run under a new application that is at its start,
  `confirm_startup` can read `AwaitingConfirmation` just before and return true for an
  update that is being rolled back. `ConfirmsWholeRelease` is checked and proved without
  that (`"online" \notin Faults`); the other theorems about the handoff hold with it.
- `pack` reads every file three times and compares nothing (`src/bin/release.rs:73-117`).
  A file that is changed between its hash and its copy gives a manifest that looks like
  any other and can be signed, and whose package `prepare` refuses.
  `OnlyTouchedFilesDiffer` says that nothing else has this effect.
- A panic in a call that has no status to return replaces the message of the call
  before it, which `FailureIsExplained` allows for.

The other properties hold with these behaviours in the models: they are exact about
what still holds.

## 5. What is proved

For every value of the constants that satisfies the named assumptions (finite or
not, except that an archive's `Paths` are finite):

- `InstallTransactionProofs`: `Spec => []IInv`, then type correctness,
  `TerminalTruthful`, `Restorable`, `OnlyVouchedBytes`, `IntentFirst`,
  `LegalTransitions` and the refinement of `AtomicUpdate`. `IInv`, `IntentFirst` and
  `LegalTransitions` hold for all faults; `TerminalTruthful`, `OnlyVouchedBytes` and the
  refinement unless bundles are backed up and lose files of their backups (`~Trims`; with
  it they are false, see section 4); `Restorable` unless any backup is lost.
  `Restorable` alone is
  not inductive: a rollback uses the journal in memory, which may name more or
  less than the one on disk after a save that failed, and a lock holder's loop has
  only done a part. `IInv` says for each point of each operation how memory, disk
  and the files relate: both journals are enough to restore (`Consistent`), what
  the loop has backed up so far is captured (`Captured`), and the plan and stage
  are those of the goal.
  Then `WorkAdvances`, by the measure of the work left (below).
- `UpdateHandoffProofs`: each step of the processes is a step of the transaction or
  leaves it alone (`HandoffRefinement`), so what is shown of the transaction holds
  among the processes too, under the same conditions: `HandoffIsAtomicUpdate` and
  `HandoffIsRestorable`. Then
  `HandoffInv` (`AppInv`, `WaitInv`, `ChildInv`) gives `ArmedIsLocked` and
  `KillIsHarmless`, `InstallsOffline`, `CancelIsFinal`, `CommitIsConfirmed` and
  `RunningChildIsLeftAlone`. It says where the application can be for each place of
  its helper, that a helper past its wait has seen it gone, and that an asked-for
  cancellation is on disk while the helper can still see it. `OneTransaction` is what
  `ConfirmsWholeRelease` needs besides, if recovery is run offline: between its reads a
  new application has before it the transaction whose plan it has loaded, still awaiting
  its confirmation or failed for the lack of one, because nothing but recovery leads out
  of those states while it runs.
- `ReleaseDiscoveryProofs`: the loop invariant `LoopInv` (best and history are
  right for what was read so far, and all before the index was read), and from it
  `BestIsNewest`, `HistoryIsExact` and `ReadOnce`, for lists of any length; then
  `OrderInv`, which gives every location that was read its first place in the list,
  for `TiesGoToTheFirst` and `ErrorsAreJustified`.
- `PackagePreparationProofs`: `PrepInv` is `UnpackInv` (nothing of the archive is
  looked at before the package is verified; on the stage are exactly the files met so
  far, all whole but the open one) and `TotalInv` (what those files were declared to
  be, the open one included, is within the limit in all). From it `ReadyIsExact`,
  `DownloadIsBounded`, `SinkErrorIsKept`, `VerifiedFirst`, `NoWorkAfterCancel` and
  `StageIsBounded`. That equal counts of files mean equal sets of files rests on the
  theorems about finite sets.
- `PackageRulesProofs`: the walk invariant (what was passed so far is sound, and
  `paths` is what it passed), from it `WalkIsRight` and `ItemsStayApart`, for
  manifests of any size and paths of any depth.
- `SharedFolderProofs`: `SharedInv`, which says that contents only go forward from
  `source` through `incoming` to `folder` (`CopiesGoForward`) and that a file that
  matched stays arrived while the others are hashed (`MatchedStays`, for files that are
  never put back); it is invariant as long as nothing is rolled back, and gives
  `ReadyMeansArrived` and `RestartsAdvance` for any releases, files and contents.
- `HostInterfaceProofs`: the two invariants of `host_calls`, `UpdatesAreHeldOnce`
  and the refinement of SingleUse (`HostKeepsSingleUse`), for any number of threads,
  handles and flags, and all faults. The refinement needs one fact more than
  `HostInv`: a call that arms or cancels has exactly one handle, and has already emptied
  it (`CallsHaveTaken`), which holds because nothing in use is freed, created again or
  filled.
- `ReleaseToolProofs`: `ToolInv` (the run that created a package alone writes to it;
  what its list says of a file is right unless that file was touched), and from it
  `SignedDescribesPackages` and `OnlyTouchedFilesDiffer`.

**Sums.** `StageIsBounded` is about the sum of the files' lengths, a fold over a
finite set. A fold cannot be unfolded by an induction theorem with an operator
parameter, so `SubsetInduction` is proved from the well-foundedness of strict
inclusion on finite sets (a least counterexample). `SumsExist` then gives the partial
sums over the subsets as a function, and the lemmas `BytesMonotone` and
`BytesOneMore` say of it what the loop of `extract` needs.

**Ends.** Fairness is out of the prover's reach, but what it rests on is not: that
no operation can go round for ever. `Measure` of InstallTransaction is the phase of
the operation, the set of items it has still to do, and what is left of the item at
hand; `EveryStepAdvances` shows that every step of the process with the lock, those
in which a save or a copy fails included, lowers it in lexicographic order, and
`NoOperationIsEndless` that this order has no infinite descent when there are finitely
many items. PackagePreparation has the same for the unpacking of any archive
(`UnpackingGoesForward`, `NoUnpackingIsEndless`). With the scheduling assumed by
`FairSpec` that is why `OperationsEnd` and `UnpackingEnds` hold; the step from one to
the other, and that some step is always enabled, are TLC's.

**Only model-checked:** the liveness (`OperationsEnd`, `RecoverySettles`,
`HelpersEnd`, `LaunchCallsEnd`, `CancelEnds`, `UnpackingEnds`, `Converges`), which
TLAPS does not do under fairness. Every invariant and action property of the passing
runs is also a theorem.

## 6. What is abstracted, and what is not modelled

- A save is one step: the temporary file of `atomic_write` is seen by nobody. A
  power failure is a crash between steps; what a file system does with unsynced
  data is outside, as the repository's README says.
- Copying the stage in `arm` is one step. A half-copied stage is never looked at:
  `arm` verifies it before it goes on, and without a journal nobody else reads it.
- A signature is valid or not, a hash is right or not; a manifest that verified is
  a constant, and `TrustStore` (valid under any one of its keys) is not modelled.
  Which parts of a path `check_path` refuses is a set; that they are refused in
  every part is modelled. `safe_join` refuses its input before anything changes.
- Windows refuses to replace a program that runs: the rename in `apply` fails, which
  is among the failures, and a client of a shared folder waits, which is among its
  delays.
- `keygen` writes two new files and reads nothing. `recover` and the helper program
  are calls of the library.
- How a `ReleaseSource` is parsed into a list, URLs and their schemes, text of
  errors and events, file modes, code signing checks on macOS (part of "verifies").
- The components with status `not_modelled` in `PROJECT.json`, each with its reason.

- The languages' own memory management in the bindings: destructors, finalizers,
  pinned delegates, reference counts, dispatch queues. What they may do with the
  handles they wrap is HostInterface.

## 7. Plan

Done: InstallTransaction with AtomicUpdate, UpdateHandoff, ReleaseDiscovery,
PackagePreparation, PackageRules, SharedFolder, HostInterface and ReleaseTool, each
with its runs and its proofs. What would add most from here:

1. **Composition**: the whole life of an update, from `check` to discard, refining
   one abstract specification in which the user sees an old or a new application.
2. **The bindings**: callbacks that outlive their call in .NET and Objective-C, as a
   refinement of HostInterface's handles.
3. **Proofs**: that a helper's steps outside the lock are finitely many too, as a
   measure of UpdateHandoff that the polls lower when their deadlines pass; and that
   the holder of the lock is never without a step, as an invariant.
