# Verification of the openvela OTA framework

TLA+ modules for the programs of this repository, TLC runs that check them on
small instances, and TLAPS proofs of the properties that matter most for every
value of the constants. `PROJECT.json` lists components, runs, mutants, the map
from definitions to source lines, hazards, findings and theorems.

## 1. Inventory of the system

| Component | State it keeps | Operations | Interacts with |
|---|---|---|---|
| `bootctl/bootctl.c`, A/B slot manager | seven booleans in KVDB: active, bootable, successful of slots a and b, and `try` | boot loader entry `bootctl_boot`; commands success, update, done, slot | KVDB; the boot loader and the running system are two programs that share nothing but the flags; an upgrade client writes the other slot between update and done |
| `tools/gen_ota_zip.py`, packaging | the file lists and the generated `ota.sh` | full and differential packages, user files, signature | its `ota.sh` runs on the device |
| `ota.sh` (generated) | properties `ota.progress.current` and `.next`, the partitions | version and device checks, `avb_verify -c`, `dd`, `ddelta_apply`, user scripts | otaUI through the two properties |
| `ui/ui_ota.c`, `ui/ui_display.c`, otaUI | displayed progress, tick counters, visible page | read the properties, advance the display, show the end pages, run the end command | ota.sh; LVGL; reboots the device |
| `verify/avb_verify.c`, `avb_main.c` | rollback indexes in KVDB | verification at a start, check before an upgrade (`-c`), ignore rollback (`-i`), image information (`-I`), partition reads and writes for libavb | libavb, KVDB, ota.sh, the loader script |
| `verify/zip_verify.c` | none | check the signature block and the digest of a package | minizip, libavb's SHA and RSA |
| `ui/ui_config_parse.c`, `ui/extra/lv_upgrade.c` | LVGL objects | parse the configuration, draw the progress | LVGL |
| `tools/avb_sign.sh`, `lvgl_image_converter`, jars, keys | none | build-time helpers | not modelled |

What is hard here: a save of bootctl is seven separate property writes that a
power failure or a failing write can cut anywhere; the boot loader infers from
seven flags what happened before a reset; ota.sh and otaUI run concurrently and
communicate by two properties that are neither read nor written together, read
only every fourth turn of otaUI's loop; two bootctl programs may run at once without a lock; the
verification programs return a variable that earlier calls have set, and accept
short reads. `PROJECT.json` lists each hazard at its line.

A turn of otaUI's loop counts `UI_TICK_MS`, which is `10*1000` with the comment
"10ms"; how long it takes is up to LVGL. Kconfig's 40,000 "milliseconds" are four
turns, and all that is said here of the period is said in turns.

## 2. Modules

| Module | Models | How |
|---|---|---|
| `BootCtl` | the computations of `bootctl.c` | a configuration is the set of flags that are true (an absent property reads as false, the default of `property_get_bool`); each command is an operator from the configuration read to the one handed to `bootctl_write_config` |
| `BootDevice` | the device around it | `SetProperty` is one `property_set_bool`, `Commit` the `property_commit`, `SetFault` a failing call; `Bootloader`, `Success`, `Update`, `Done` enter a save; the installation, the watchdog, reboots and power losses are external |
| `ABUpgrade` | what an A/B upgrade promises | target, confirmed and tried slots, without flags or saves: a start runs the target unless its trial has failed; `BootDevice!Implements` instantiates it |
| `BootRace` | two `bootctl` processes at once | the property reads and writes of the start script's `success` and of a client's `update` and `done` interleave; failed commands are called again |
| `BootDeviceProofs` | | theorems about `BootDevice`: the flags, the trials and the refinement of `ABUpgrade`, power cuts inside saves |
| `BootRaceProofs` | | `BootRace` when the commands do not overlap |
| `GenOta` | `gen_full_sh`, `gen_diff_ota_sh` | a script is a sequence of instructions; progress nodes are computed from weights |
| `GenOtaProofs` | | what the scripts of all full packages and of all packages of patches have in common |
| `OtaProps`, `OtaScript` | the properties, and a device running `ota.sh` | one action per kind of shell command; `dd` and `ddelta_apply` take time and may fail |
| `OtaUI` | `main`, `ota_calc_progress`, `ota_sync_upgrade_progress`, page handling | each of the two property reads is a step of its own; one step per turn of the loop for the display |
| `UIConfig` | `ui_config_parse.c`, `ui_find_page` | a configuration file is a sequence of pages with elements, each reduced to what the parser tests; operators give the pages and the progress widget that result |
| `LvUpgrade` | the value and the pictures of `lv_upgrade.c` | the value as `int8_t` and as digits, the pictures of the digits and of a bar |
| `OtaUpgrade` | composition of the two | interleaving of `Script` and `UI`; they share `current`, `next` and `up` |
| `MCOtaUpgrade` | | packages and page configurations for TLC; assumes (`ShippedPictures`), and TLC evaluates, that the bars end with a picture for 100 |
| `OtaUpgradeProofs` | | theorems about `OtaUpgrade` |
| `GenOtaFiles` | file selection of `gen_diff_ota`, `gen_full_ota`, user files, signing, exit code | the loop that removes from the list it iterates is modelled turn by turn; `Exit` is `exit(ret)` with a wait status |
| `GenOtaFilesProofs` | | theorems about `GenOtaFiles` |
| `ZipBlocks` | the parser of the signing block | memory as a sequence of words; the format signapk writes is the reference (external) |
| `ZipVerify` | `zip_verify.c` | one step per call that can fail, with `res` as in the code; chunks as offset and length |
| `ZipVerifyProofs` | | theorems about `ZipBlocks` and `ZipVerify` |
| `AvbVerify` | `avb_verify` and its options | one step per rollback location; an image has a validity and an index per location it uses |
| `AvbVerifyProofs` | | theorems about `AvbVerify` |
| `AvbIO` | the partition operations of `avb_verify.c`, key comparison, `avb_hash_desc` | one call from open to result; each `read` or `write` transfers any number of bytes, is interrupted, meets the end or fails |
| `AvbIOProofs` | | theorems about `AvbIO` |

Operators whose name has a suffix and whose comment starts with "Mutant" are
plausible wrong versions of the definition below them. Each property is shown
to fail when one of them replaces it; no specification uses them.

Abstractions. An image is good, bad (never calls `bootctl success`) or partial.
Logging and texts are left out. In `AvbIO` a partition has a fixed length and a
write does not extend it, and libavb asks `get_preloaded_partition` for no more
bytes than the partition has (the code returns the number unchecked). `OtaUI`
keeps the remainder of `count_tick_ms` by the period; the turns up to its overflow
at 2^32 are not counted, so an overflow may come at any turn (`CountTurn`, at most
`MaxOverflows` times; `WRAP` is by how much it shifts the remainder). A tool that
`gen_ota_zip.py` calls fails with one of `Failures`: 256, the wait status of exit
status 1, and 9, a signal. A weight (`speed * size`) is a positive integer
and nodes are computed exactly, where the tool uses floating point: an inner
node may be one lower in reality. A property value is in flash when the set
call returns, as with the `CONFIG_KVDB_DIRECT=y` of the repository's README. A
hash is what was fed to it.

## 3. Runs

Passing runs:

* `BootAtomic` (6,833 states): up to three power losses anywhere except inside
  a save, three upgrades with good or bad images, both initial contents of slot
  b. Active flags are exclusive (`ActiveExclusive`), a mark is never on an image
  that does not come up (`NoFalseSuccess`), the active slot is the running one
  until `done` (`ActiveIsRunning`), a bad image is started at most once
  (`BadImageTriedOnce`), the running slot is not overwritten
  (`RunningSlotKept`), a slot to fall back to remains (`FallbackKept`), the
  device comes up after every reset (`Recovers`) and a good upgrade takes effect
  when no trial is on record (`UpgradeTakesEffect`). `SlotInv` is the inductive
  invariant of the proofs. `Implements` is the refinement: with the active flag
  as the target, the marks as the confirmed slots and the started images as the
  tried ones, every step is a step of `ABUpgrade` or invisible there; a save
  takes effect with its first call, since nothing reads the flags before its
  last one. One start is excepted by name and shown by the run `BootStaleTry`:
  with the `try` flag of an earlier trial still stored the loader gives up a target
  that was never tried (`StaleTry`, which `ABUpgrade` calls `GiveUp` and does not
  allow). Three losses and upgrades let each slot be installed, fail and be
  fallen back to; a fourth adds no new combination of flags.
* `BootFaults` (356 k): the power may also fail between two calls of a save
  (three times) and two calls may fail. Under all of that only
  `bootctl_success` marks a slot (`MarkedBySuccessOnly` and its invariant
  `MarksInv`; they do not say that a trial is recorded, which a failing call may
  prevent). While no call has failed, no half-written image is started
  (`NoPartialStart`), and the device recovers as long as no bad image is
  installed (`GoodRecovers`). The condition is needed: a `done` that fails half
  way and is called again toggles back. The other properties of `BootAtomic` do
  not hold there: see the findings.
* `OtaUpgrade` (1.30 M): two full packages (one of two partitions, one behind
  `avb_verify -c`, with version check, and one of a single partition with user
  scripts) and a differential one, each interleaved with otaUI, in upgrade and logo mode, with eleven
  configuration files: the sample's pages with a bar, the upgrading page alone
  with numbers, and nine defective ones. The success page means that every
  partition was
  written or skipped (`SuccessMeansInstalled`), the device is not rebooted by
  otaUI during a write (`RebootOnlyWhenIdle`), the display does not run ahead of
  the announced nodes (`NeverAhead`) nor back (`ProgressMonotone`), the
  properties are read every period (`ReadsEveryPeriod`), a reported failure ends
  in a reboot when there is a progress object (`FailureReboots`), every upgrade
  ends (`UpgradeEnds`); these three until `count_tick_ms` overflows. The digits agree with the value (`ValueInSync`) and the
  pictures chosen for them make up that number (`NumberReadsRight`); the full bar
  is drawn only when all is installed (`FullBarMeansInstalled`).
  `SLOW_TICKS` is 4 instead of 100, so that crawling and catching up still
  alternate within one period. `count_tick_ms` may overflow once, at any turn: then
  (after 429,497 turns) its remainder by the period passes by 0, since 2^32 is not a
  multiple of 40,000, otaUI does not read the properties again, and it sees neither
  the end of the upgrade nor a failure. The three properties above except that case
  by name; what is shown stays true behind it. `MCOtaUpgrade` with
  `stale <= Period` as invariant shows it.
* `GenFiles` (504 k): all sets of three files of the three kinds in both
  directories, all orders of the list of new partitions, up to two user files,
  failures of `ddelta_generate` and `signapk`. `PackedAtEnd` says what a package
  holds when the tool has run to its end; it bounds what the loop that removes from
  its own list lets through, and says that the user files behind a missing one are
  left out. An end by `exit(ret)` is not the end it speaks of: see below.
* `ZipVerify` (8,864): signing blocks with one or two digests of two algorithms, parsed
  by the code's offsets; chunk 3, buffer 2, block lengths below, at and above one
  and two chunks and empty, all combinations of genuine and forged parts, a
  failure at every step, the ignored short reads of the signing block and of the
  key included, except the two of the constants `CertOpenFails` and
  `EocdReadEmpty`.
* `AvbRollback` (261 k): two locations, indexes 0..2 or unused, two power losses
  and failing writes anywhere, downloads, checks and writes in between. Two
  locations are enough for an update cut between them.
* `AvbIO` (899 k): partitions, buffers and keys of up to three bytes out of
  three values, every offset from either end, every way to cut the transfer, an
  interrupt and a failure anywhere. `TransferExact`: what was transferred is in
  its place and nothing else changed, and OK with fewer bytes means a read that
  met an error or the end. `TrustMeansEqual`: although `key_length` is ignored, a
  trusted key agrees with the key file in every byte that is not zero; the
  zeroed buffer stands in for what a short read left out, so zero bytes of the key
  beyond the end of the key file are trusted too. `PrintedWasRead`: `-I` prints only
  a descriptor that was filled in from bytes the partition holds. Not more than
  that: libavb looks for the descriptors in the bytes read, the public key and the
  padding follow them, and `avb_hash_desc` does not compare `vbmeta_num_read` with
  the size of the image, so a read that fails behind the descriptors prints with
  OK. `Ends`: every call returns. Three bytes give
  transfers in one, two and three pieces, before, at and beyond the end.

Runs that show a disagreement between the code and what the repository says:

* `BootStaleTry`: a bad upgrade sets `try`; the fall back to the other slot does
  not clear it, because that slot is successful already and `bootctl_success`
  returns early. The next upgrade is given up without having been started.
* `BootCutBrick`: a power failure inside a save followed by a bad image leaves
  flags with which the loader starts the bad image for ever.
  The same kind of cut also leaves none or both slots active, and lets an upgrade
  overwrite the running slot (checking `ActiveExclusive` or `RunningSlotKept`
  with `PowerCutInSave = TRUE` shows it).
* `OtaNewPartition`: with `--newpartition` the patches alone take the progress
  to 100, and the success page appears before the new partition is written. With
  two new partitions a node above 100 even makes otaUI reboot during `dd`.
* `BootRace`: the start script's `bootctl success` has read the flags, a client's
  `bootctl update` clears the mark of the other slot, and `success` writes its
  copy back, mark included: the slot that is being overwritten counts as
  successful. When the commands do not overlap and no call fails
  `CommandsTakeEffect` holds (`BootRaceProofs`); with one failing call alone, a
  `done` called again after its failure switches back to the old slot.
* `ZipCertOpen`: `res` is still 0 when `open(cert_path)` fails after `stat`.
  `EocdReadEmpty = TRUE` shows the same for a read that returns 0 in
  `verify_digest`.

More were met and are not runs. `newpartition_list.remove(file)` in the loop
over the list skips the next name, so a file that is not firmware can stay in
(`gen_ota_zip.py:233`). `avb_verify -I <image>`, as the usage text has it, only
prints the usage, since `main` wants two more arguments and takes the second
(`avb_main.c:54`). After `bootctl done` `bootctl_active` reports the slot that
will be started, where the README says "the partition currently running".
Number and animation mode draw with an `image_dsc` whose `src` is never set
(`lv_upgrade.c:220`, only bar mode sets it), so no picture appears whatever
`NumberReadsRight` says about the choice; `animation_fps` and `arc_radius` share
their storage. A label in front of the progress object, or
one page that does not parse (`ui_config_init` reports success all the same),
lets otaUI leave its loop at once, and a failure later on does not reboot. otaUI
does not run its end command when the progress ends at exactly 100
(`ui_ota.c:190`). `exit(ret)` of `gen_ota_zip.py`
(lines 255, 307 and 483) is given the wait status of `os.system`, of which the
caller gets the low byte: when `ddelta_generate` or `signapk` fails with status 1,
that is 256, the tool ends with exit code 0 and leaves a partial or an unsigned
package under the final name, where the README says "ota.zip is a signed ota
package". `ZeroMeansSigned` as an invariant of `GenFiles` shows it (`MatchFails` or
`Sign` with 256), and the theorem `SignedWhenZero` says when it holds. A speed
configuration that does not parse ends the tool with `exit()`, exit code 0 too
(`gen_ota_zip.py:63`). A missing
user file ends the loop over them, and those behind it are silently left out
(`gen_ota_zip.py:279`). `bootctl update` called after `bootctl done` and before the
reboot clears the marks of the running slot, which is then the one that is not
active.

`CHECK_DEADLOCK FALSE` is set where programs end (the runs of `MCOtaUpgrade`,
`ZipVerify`, `GenOtaFiles`, `BootRace` and `AvbIO`); a device of `BootDevice` or `AvbVerify` never stops.

Fairness. `BootDevice!FairSpec`: a started program goes on (weak fairness of the
loader and of the calls of a save), a good image calls `bootctl success`, the
watchdog resets a hung one, and after `bootctl done` the client reboots; nothing
is assumed of upgrades, reboots or power losses. `OtaUpgrade!Spec`: both
processes are scheduled and the commands of the script end. `ZipVerify!FairSpec`:
the program runs on. `AvbIO!FairSpec`: so it does, and no failure of a read or a
write is assumed, so that a loop that waits for one would not end.

## 4. Proofs

Proofs stand in modules of their own, together with the inductive invariants they
need; those that are worth a run of their own (`SlotInv`, `MarksInv`,
`RollbackInv`) stand with the properties. TLC checked each invariant on the
instance of the component's run before it was proved. The constants keep the
assumptions named in the modules (`BoundsAssumption`, `UIAssumption`,
`ZipAssumption`, ...): sizes are naturals, sets of inputs are what the code's
types allow.

`BootDeviceProofs`, for any number of power losses and upgrades:

* `TypeCorrect`: under every fault.
* `SlotsInvariant`, and from it `OneSlotActive` (`ActiveExclusive`),
  `MarkedComesUp` (`NoFalseSuccess`), `RunningIsActive` (`ActiveIsRunning`),
  `RunningSlotSafe` (`RunningSlotKept`) and `FallbackSafe` (`FallbackKept`), for
  a device whose saves are not interrupted (`~ PowerCutInSave`,
  `MaxFaults = 0`). The properties are not inductive: while a save runs the
  store mixes two configurations. `SlotInv` therefore speaks of `Config`, the
  configuration that the save will complete, says which flags have reached the
  store already (`SavedPrefix`), and adds what the commands rely on: the slot
  about to be overwritten has lost its mark (`TargetUnmarked`), the running one
  keeps it (`RunningMarked`). Lemmas state what each command makes of a
  well-formed configuration (`UpdateFacts`, `DoneFacts`, `SuccessFacts`,
  `FallbackFacts`, `BootFacts`).
* `MarksInvariant` and `MarksOnlyBySuccess`: `MarksInv` and
  `MarkedBySuccessOnly` under every fault.
* `TrialsInvariant` and `OneTryOnly` (`BadImageTriedOnce`), again for saves that
  are not interrupted. `TrialInv` adds to `SlotInv` what flags and `try` say of
  the starts there have been: an active slot without a mark and without `try` was
  never started (`TrialRecorded`), the loader has set `try` unless it starts a marked slot (`ChosenFresh`), what was
  installed is whole and fresh, and while nothing is marked slot a holds the
  image the device came with.
* `Refinement`: `Implements`. Every initial state is one of `ABUpgrade`, and
  every action of `BootDevice` is one of its steps, leaves target, confirmed
  and tried slots alone, or is the start `StaleTry`. `PromisedUpgrade`: a behaviour
  without such a start is one of `ABUpgrade`. The lemmas go action by action
  (`BootloaderRefines`, `SaveRefines`, `CommandRefines`, `InstallRefines`).
* `PartialInvariant` and `PartialNeverStarted` (`NoPartialStart`), with power
  cuts between any two calls of a save. While no call has failed, a half-written
  slot is `Spare` in the store and in the configuration being saved, and so in
  every mixture of the two that a cut can leave (`SavedPrefix`): it has no flag,
  and if it is slot a, the loader's last resort, slot b is active and marked.
  `SparePrepared` is how the commands get there.

`BootRaceProofs`: `ExclusiveCommands`. When only one of the two `bootctl` is
between its first read and its commit (`Exclusive`), and no call fails
(`MaxFaults = 0`), `CommandsTakeEffect` holds from every configuration the loader
may have found: a lock around each command would rule out the counterexample of
the run `BootRace`. `RaceInv` says that what a process has read, and what it has
written, is what is stored (`CopyInv`), which slot is active in the store and in
the copies (`ActiveInv`), and that no copy brings back the mark of the slot being
overwritten (`MarkInv`).

`AvbVerifyProofs`, for any number of locations and any indexes, without option
`-i`, wherever power loss or a failing write stops the loop: `TypeCorrect`,
`RollbackInvariant`, `NoRollbackAccepted`, `StoredNeverLowered`,
`CheckedImagesBoot`. `RollbackInv` adds to the properties that accepted indexes
are stored, that the locations the loop has passed hold the image's indexes, and
that a checked download is newer than everything stored.

`AvbIOProofs`, for partitions, buffers, keys and offsets of every size, and for
every way the transfer is cut: `TransfersExact`, `TrustIsEqual`,
`InfoIsRead`. `IOInv` says at every step of the loops which bytes have
arrived where, that the counters agree with them, and that the rest of the
buffer or of the partition is as before.

`ZipVerifyProofs`, for every chunk, buffer and block size:

* `TypeCorrect`.
* `CheckedInvariant` and `OnlyGenuineAccepted` (`AcceptsOnlyGenuine`), whichever
  other calls fail, when neither the `open` of the certificate fails after its
  `stat` nor the read of the EOCD returns 0 (`~ CertOpenFails`,
  `~ EocdReadEmpty`; the run `ZipCertOpen` shows the first is needed).
* `DigestInvariant` and `GenuineAccepted` (`AcceptsGenuine`), when no length
  wraps as it is rounded up to chunks (`NoWrap`). Its parts are that
  `md_file_block` digests the chunks that were signed, in their order
  (`DigestInv`), and that the parser finds certificate, signature and digest at
  its offsets for every algorithm and every number of digests
  (`ParserFindsParts`).

`GenOtaProofs`, for every number of partitions, all weights and all options:

* `FullProgressRises`: the nodes of `gen_full_sh`, floors of partial sums, rise
  from the start to `max_progress`, and only the last can be 100.
* `ScriptsReport`: the scripts of full packages (`FullPackage`) and of packages
  of patches without `--user_end_script` (`PatchPackage`) have two properties.
  `Reports`: 100 is reported only behind the last write, and behind no guard that
  may have passed over a write; guards stay inside the script; every partition is
  written once. `Rises`: the values of both properties rise, and where the script
  may report a failure the next node is not below the current one. The share of
  the end script (`--user_end_script_progress`) is at most 70, the nodes would
  end below their start otherwise. The text of a script is taken apart into prologue, one group of
  lines per partition and epilogue (`FullScript`, `PatchScript`), and what each
  line may be follows from its place (`LayoutLines`).

  These are inductions over the weights and over the lines that a loop writes.
  They are done by the least counterexample: a set of naturals that is not empty
  has a least element (`Least`, from the well-foundedness of `<`), so a set with 0
  that is closed under successor below n has everything up to n (`UpTo`).

`ScriptsReport` is false for `--newpartition` packages (the run
`OtaNewPartition`), and for a differential package with `--user_end_script`: when
the last image is already in `/ota` the patches are passed over, and the 100
behind the user script is reported although this run of the script has applied
none of them.

`OtaUpgradeProofs`, for these packages (`PackagesGenerated`), every configuration,
all tick counts and periods, however the two programs interleave:

* `UpgradeInvariant`, and from it `TypeCorrect`, `SuccessInstalled`
  (`SuccessMeansInstalled`), `NeverBack` (`ProgressMonotone`), `RebootsWhenIdle`
  (`RebootOnlyWhenIdle`) and `DigitsInSync` (`ValueInSync`). The invariant
  relates the two programs: whatever has come to 100 (the property, its copy in
  otaUI, the display, the digits) came there when all writes lay behind `pos`
  (`InstalledInv`), `ScriptInv` ties `pos` to the partitions, `DisplayInv` the
  display to its copies.
* `FullBarInstalled` (`FullBarMeansInstalled`), when the last picture of a bar
  has key 100 or more (`BarsEndFull`).
* `DisplayNeverAhead` (`NeverAhead`), when the display starts at 0. `PropInv` says
  which `setprop` the properties come from, `AnnouncedInv` that nothing otaUI has
  read is beyond them, although it reads the two in two steps.
* `NumbersReadRight` (`NumberReadsRight`), for every configuration file with the
  types of JSON (`JsonFile`). `NumberList` follows the parser from the file to the
  widget: a list it accepts in number mode has ten pictures or more, and is in
  order if none is missing; `RowShows` then reads the digits' pictures.
* `ReadsInTime` (`ReadsEveryPeriod`), for every script, when the period is a
  number of whole turns, until `count_tick_ms` overflows. `ReadInv`: the place of the counter in the period tells the turns since the last
  reading.

`GenOtaFilesProofs`, for every finite set of files, every order of the list and
any number of user files: `FilesInvariant` and `PackageComplete`
(`PackedAtEnd`, for a tool that runs to its end), and `SignedWhenZero`
(`ZeroMeansSigned`, when no failure has a wait status whose low byte is 0). The list has no duplicates (`ListInv`) and no valid file leaves
it (`ValidInv`); each removal lets the loop pass over at most one file, so that
no more invalid ones stay behind than were removed (`CountInv`, by cardinality);
`PackInv` is what each part of the tool has packed, `UserInv` that the loop over
the user files goes on only behind a path that exists.

Only model-checked:

* liveness (`Recovers`, `UpgradeTakesEffect`, `GoodRecovers`, `FailureReboots`,
  `UpgradeEnds`, `Terminates`, `Ends`), which the prover does not reach;
* the properties of the runs that expect a violation.

## 5. Not modelled

Layout, colours and animations of otaUI (what is drawn where is LVGL's, and no
decision of otaUI depends on it); option `-t` of otaUI, a test aid that sets the
two properties once; speed configuration, overwrite question and command line
of `gen_ota_zip.py`; the operations of `avb_verify.c` that hand one value to
libavb (persistent values, lock state, size, guid); `avb_sign.sh`, the image
converter, jars and keys. libavb, minizip, LVGL, KVDB, `dd`, `ddelta` and
`signapk` are outside the repository and appear by their results. `avb_verify`
and `bootctl` are not composed: the loader script of the repository verifies one
partition, and a loader whose entry is `bootctl` does not call `avb_verify`.
`PROJECT.json` says why for each.

## 6. State

Every safety property of the passing runs is proved, each under the hypotheses
that section 4 names. The parts of section 5 and the hazards that `PROJECT.json`
lists without a property are what could be added: the floating-point nodes of
`gen_ota_zip.py`, a rerun of a differential package, and rollback indexes that are
set without a `property_commit`.
