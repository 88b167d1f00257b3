----------------------------- MODULE BootDevice -----------------------------
(***************************************************************************)
(* A device with two system slots managed by bootctl: the boot loader      *)
(* (bootctl_boot), the commands the running system calls (bootctl success, *)
(* update, done), and the resets between them.                             *)
(*                                                                         *)
(* bootctl_write_config saves a configuration with seven                   *)
(* property_set_bool calls and a property_commit.  Each call is a step of  *)
(* its own, so that a reset can fall between two of them.  kv is what      *)
(* KVDB holds; a value is in flash when property_set_bool returns (the     *)
(* CONFIG_KVDB_DIRECT=y of the README).                                    *)
(*                                                                         *)
(* The images, the watchdog that resets a system that does not come up,    *)
(* the client that writes the other slot between "update" and "done", and  *)
(* the power supply are outside of src/ and are modelled from how          *)
(* bootctl.c and its README use them.                                      *)
(***************************************************************************)
EXTENDS BootCtl

CONSTANTS
  PowerCutInSave,   \* may the power fail inside bootctl_write_config?
  MaxFaults,        \* bound on the calls of a save that fail
  MaxLosses,        \* bound on the number of power losses
  MaxUpgrades,      \* bound on the number of installations
  InstallOutcomes   \* what a finished installation may leave in a slot

ASSUME PowerCutAssumption == PowerCutInSave \in BOOLEAN
ASSUME BoundsAssumption ==
  MaxFaults \in Nat /\ MaxLosses \in Nat /\ MaxUpgrades \in Nat
ASSUME OutcomesAssumption ==
  InstallOutcomes \subseteq {"good", "bad"} /\ InstallOutcomes # {}

VARIABLES
  kv,        \* the persist.boot.* flags that are true
  pc,        \* what the device is doing
  op,        \* the command whose save is under way
  boot,      \* the struct bootctl_s being saved
  todo,      \* the call of bootctl_write_config that comes next
  running,   \* info.path: the slot whose image was started last
  image,     \* what each slot's partition holds
  starts,    \* history: how often a slot's present image was started
  faults,    \* failed calls of a save so far
  losses,    \* power losses so far
  upgrades   \* installations so far

vars == <<kv, pc, op, boot, todo, running, image, starts, faults, losses,
          upgrades>>
save == <<op, boot, todo>>

\* "good" images call bootctl success, "bad" ones never get that far, and a
\* "partial" one is left by an interrupted write.
Image == {"good", "bad", "partial"}

\* The calls of bootctl_write_config: 1..7 are the property_set_bool of
\* WriteOrder, 8 is property_commit.
COMMIT == 8

\* Cap of the history variable starts: more than once is all that matters.
StartsCap == 2

----------------------------------------------------------------------------
Init ==
  /\ kv = {}                       \* nothing was ever stored
  /\ pc = "reset"
  /\ op = "none" /\ boot = {} /\ todo = 0
  /\ running = A
  /\ image \in [Slot -> {"good", "bad"}] /\ image[A] = "good"
  /\ starts = [s \in Slot |-> 0]
  /\ faults = 0 /\ losses = 0 /\ upgrades = 0

\* Mutant: the first call is numbered zero.
write_config_from_zero(o, b) ==
  pc' = "saving" /\ op' = o /\ boot' = b /\ todo' = 0

\* Entering bootctl_write_config(b) from command o.
write_config(o, b) ==
  pc' = "saving" /\ op' = o /\ boot' = b /\ todo' = 1

NoSave == op' = "none" /\ boot' = {} /\ todo' = 0

\* bootctl_boot up to the label slot.
Bootloader ==
  /\ pc = "reset"
  /\ write_config("boot", bootctl_boot(kv).boot)
  /\ running' = bootctl_boot(kv).path
  /\ UNCHANGED <<kv, image, starts, faults, losses, upgrades>>

\* One property_set_bool of bootctl_write_config that succeeds.
SetProperty ==
  /\ pc = "saving" /\ todo < COMMIT
  /\ kv' = property_set(kv, WriteOrder[todo], boot)
  /\ todo' = todo + 1
  /\ UNCHANGED <<pc, op, boot, running, image, starts, faults, losses,
                 upgrades>>

\* The command goes on in state next; for bootctl_boot that is the
\* boardctl(BOARDIOC_BOOT_IMAGE) of the slot it chose.
Return(next) ==
  /\ pc' = next
  /\ NoSave
  /\ starts' = IF op = "boot" /\ starts[running] < StartsCap
                 THEN [starts EXCEPT ![running] = @ + 1] ELSE starts
  /\ UNCHANGED <<kv, running, image, losses, upgrades>>

\* property_commit succeeds and bootctl_write_config returns 0.
AfterSave == [boot |-> "booted", success |-> "up",
              update |-> "updating", done |-> "switched"]

Commit ==
  /\ pc = "saving" /\ todo = COMMIT
  /\ Return(AfterSave[op]) /\ UNCHANGED faults

\* One of the calls fails and bootctl_write_config returns early.
\* bootctl_boot ignores the result, main ignores that of bootctl_success,
\* and the client that called update or done sees its command fail.
AfterFault == [boot |-> "booted", success |-> "up",
               update |-> "up", done |-> "installed"]

SetFault ==
  /\ faults < MaxFaults /\ faults' = faults + 1
  /\ pc = "saving"
  /\ Return(AfterFault[op])

----------------------------------------------------------------------------
(* The running system.                                                     *)

Quiet == UNCHANGED <<kv, running, starts, faults, losses>>

\* bootctl success, run every time a system has come up.
Success ==
  /\ pc = "booted" /\ image[running] = "good"
  /\ \/ /\ success_due(kv)
        /\ write_config("success", bootctl_success(kv))
     \/ /\ ~ success_due(kv)
        /\ pc' = "up" /\ UNCHANGED save
  /\ UNCHANGED <<image, upgrades>> /\ Quiet

\* bootctl update.
Update ==
  /\ pc = "up" /\ upgrades < MaxUpgrades
  /\ write_config("update", bootctl_update(kv))
  /\ upgrades' = upgrades + 1
  /\ UNCHANGED image /\ Quiet

\* The client starts to write the slot that bootctl calls the other one.
StartInstall ==
  /\ pc = "updating"
  /\ pc' = "writing"
  /\ image' = [image EXCEPT ![OtherSlot(kv)] = "partial"]
  /\ starts' = [starts EXCEPT ![OtherSlot(kv)] = 0]
  /\ UNCHANGED <<kv, op, boot, todo, running, faults, losses, upgrades>>

FinishInstall ==
  /\ pc = "writing"
  /\ pc' = "installed"
  /\ \E i \in InstallOutcomes : image' = [image EXCEPT ![OtherSlot(kv)] = i]
  /\ UNCHANGED <<op, boot, todo, upgrades>> /\ Quiet

\* bootctl done.
Done ==
  /\ pc = "installed"
  /\ write_config("done", bootctl_done(kv))
  /\ UNCHANGED <<image, upgrades>> /\ Quiet

Reset == pc' = "reset" /\ NoSave

\* A planned restart of a system that has come up.
Reboot ==
  /\ pc \in {"up", "updating", "writing", "installed", "switched"}
  /\ Reset
  /\ UNCHANGED <<image, upgrades>> /\ Quiet

\* The watchdog resets a system that does not come up.
ImageCrash ==
  /\ pc = "booted" /\ image[running] # "good"
  /\ Reset
  /\ UNCHANGED <<image, upgrades>> /\ Quiet

PowerLoss ==
  /\ losses < MaxLosses /\ losses' = losses + 1
  /\ pc # "reset" /\ (pc = "saving" => PowerCutInSave)
  /\ Reset
  /\ UNCHANGED <<kv, running, image, starts, faults, upgrades>>

Next ==
  \/ Bootloader \/ SetProperty \/ Commit \/ SetFault
  \/ Success \/ Update \/ StartInstall \/ FinishInstall \/ Done
  \/ Reboot \/ ImageCrash \/ PowerLoss

Spec == Init /\ [][Next]_vars

\* A started program runs on, a hung image meets the watchdog, a system that
\* has come up calls bootctl success and reboots after bootctl done.
FairSpec ==
  /\ Spec
  /\ WF_vars(Bootloader) /\ WF_vars(SetProperty) /\ WF_vars(Commit)
  /\ WF_vars(Success) /\ WF_vars(ImageCrash)
  /\ WF_vars(Reboot /\ pc = "switched")
----------------------------------------------------------------------------
(* Properties.                                                             *)

TypeOK ==
  /\ kv \subseteq Flag
  /\ boot \subseteq (IF pc = "saving" THEN Flag ELSE {})
  /\ pc \in {"reset", "saving", "booted", "up", "updating", "writing",
             "installed", "switched"}
  /\ op \in (IF pc = "saving" THEN {"boot", "success", "update", "done"}
                               ELSE {"none"})
  /\ todo \in (IF pc = "saving" THEN 1..COMMIT ELSE {0})
  /\ running \in Slot
  /\ image \in [Slot -> Image]
  /\ starts \in [Slot -> 0..StartsCap]
  /\ faults \in 0..MaxFaults
  /\ losses \in 0..MaxLosses /\ upgrades \in 0..MaxUpgrades

\* Exactly one slot is active in the configuration c.
OneActive(c) == \E s \in Slot : \A r \in Slot : Active(r) \in c <=> r = s

\* "active" is exclusive: outside of a save exactly one slot has it, from the
\* first start of the device on.
ActiveExclusive ==
  pc # "saving" => (pc = "reset" /\ kv = {}) \/ OneActive(kv)

\* A slot is marked successful only while it holds an image that comes up:
\* the mark of bootctl_success goes to the slot that runs, and
\* bootctl_update takes it away before the slot is overwritten.
NoFalseSuccess ==
  \A s \in Slot : Successful(s) \in kv => image[s] = "good"

\* From its start until bootctl_done, the slot that bootctl_active reports is
\* the one that runs.
ActiveIsRunning ==
  pc \in {"booted", "up", "updating", "writing", "installed"}
    => bootctl_active(kv) = {running}

\* Unless a call of bootctl_write_config has failed, the loader never starts an
\* image whose installation did not finish, whenever the power fails.
NoPartialStart ==
  faults = 0 /\ pc = "booted" => image[running] # "partial"

\* An image that does not come up is started at most once: the next start
\* is of another slot.
BadImageTriedOnce ==
  \A s \in Slot : image[s] # "good" => starts[s] <= 1

\* An installation never touches the slot that runs.
RunningSlotKept == [][pc # "reset" => image'[running] = image[running]]_vars

\* Once a slot has been marked successful, some slot always is: there is
\* always a system to fall back to.
FallbackKept ==
  [][(\E s \in Slot : Successful(s) \in kv)
       => (\E s \in Slot : Successful(s) \in kv')]_vars

\* Whatever was installed and whenever the power failed, the device comes
\* up again.
Recovers == pc = "reset" ~> pc = "up"

\* With power failures inside a save the device still comes up as long as no bad
\* image is installed and no call of bootctl_write_config fails.
GoodRecovers ==
  [](faults = 0 /\ \A s \in Slot : image[s] # "bad") => Recovers

\* After bootctl_done the device comes up on a good new slot and marks it
\* successful, if no trial is on record and the power stays on.
UpgradeTakesEffect ==
  \A s \in Slot :
    (/\ pc = "switched" /\ Active(s) \in kv /\ Try \notin kv
     /\ image[s] = "good" /\ losses = MaxLosses)
      ~> (pc = "up" /\ running = s /\ Successful(s) \in kv)

\* Whatever calls of bootctl_write_config fail, a slot gets the mark
\* "successful" only in the save of a bootctl_success, which an image that
\* came up has called.
MarkedBySuccessOnly ==
  [][\A s \in Slot : Successful(s) \in kv' \ kv
       => op = "success" /\ image[running] = "good"]_vars

\* README, usage: after bootctl done the device "will then start from the
\* newly upgraded partition upon reboot".  A slot that is on trial and whose
\* image was never started is the one the loader starts next.
NewSlotTried ==
  [][\A s \in Slot : Bootloader /\ on_trial(kv, s) /\ starts[s] = 0
       => running' = s]_vars

----------------------------------------------------------------------------
(***************************************************************************)
(* The inductive invariant of a device whose saves are not interrupted.    *)
(***************************************************************************)

\* The configuration in force once the save under way, if any, is done.
Config == IF pc = "saving" THEN boot ELSE kv

WellFormed(c) ==
  /\ OneActive(c)
  /\ \A s \in Slot : Active(s) \in c \/ Successful(s) \in c
                     => Bootable(s) \in c

\* The calls made so far have brought their flags to kv.
SavedPrefix ==
  pc = "saving" => \A i \in 1..7 : i < todo
                     => (WriteOrder[i] \in kv <=> WriteOrder[i] \in boot)

ConfigWellFormed == (pc = "reset" /\ kv = {}) \/ WellFormed(Config)

MarksGood ==
  \A s \in Slot : Successful(s) \in kv \union boot => image[s] = "good"

\* Until bootctl_done the running slot is the active one.
RunningActive ==
  pc \notin {"reset", "switched"} /\ op # "done" => Active(running) \in Config

\* The slot an upgrade is about to overwrite has lost its mark.
TargetUnmarked ==
  pc \in {"updating", "writing"} \/ op = "update"
    => \A s \in Slot : Active(s) \notin Config => Successful(s) \notin Config

\* A system that has come up is marked, and a save in which slots may lose
\* their mark keeps that of the running one.
RunningMarked ==
  /\ pc \in {"up", "updating", "writing", "installed", "switched"}
       => Successful(running) \in kv
  /\ op \in {"success", "update", "done"} => Successful(running) \in boot
  /\ op \in {"update", "done"} => Successful(running) \in kv
  /\ op \in {"boot", "success"}
       => \A s \in Slot : Successful(s) \in kv => Successful(s) \in boot

\* The slot flags, the running slot and the images fit together at every step
\* of every command.
SlotInv ==
  /\ SavedPrefix /\ ConfigWellFormed /\ MarksGood /\ RunningActive
  /\ TargetUnmarked /\ RunningMarked
----------------------------------------------------------------------------
\* The invariant behind MarkedBySuccessOnly, which no interrupted save breaks:
\* only a bootctl_success saves a mark that is not yet in the store.
MarksInv ==
  /\ op = "success" => image[running] = "good"
  /\ op # "success" => \A s \in Slot : Successful(s) \in boot
                                        => Successful(s) \in kv
----------------------------------------------------------------------------
(***************************************************************************)
(* The device implements ABUpgrade as long as no save is interrupted.      *)
(***************************************************************************)

phaseBar ==
  IF pc = "reset" THEN "off" ELSE IF op = "boot" THEN "chosen" ELSE "on"
targetBar    == IF Active(B) \in Config THEN B ELSE A
confirmedBar == {s \in Slot : Successful(s) \in Config}
triedBar     == {s \in Slot : starts[s] > 0}

AB == INSTANCE ABUpgrade WITH
  Slot      <- Slot,
  Content   <- Image,
  Whole     <- Image \ {"partial"},
  Works     <- {"good"},
  phase     <- phaseBar,
  running   <- running,
  target    <- targetBar,
  confirmed <- confirmedBar,
  tried     <- triedBar,
  content   <- image

\* The loader gives up a slot that was never started, because the try flag of an
\* earlier trial is still stored (what the run BootStaleTry shows).
StaleTry ==
  /\ Bootloader /\ Try \in kv
  /\ \E s \in Slot : on_trial(kv, s) /\ starts[s] = 0

\* The flags, the loader and the commands together are an A/B upgrade in the
\* sense of ABUpgrade: every save takes effect at its first call and every
\* other step is a step of the abstract device or invisible there.  The one
\* exception is that StaleTry gives up an untried target for a confirmed slot.
Implements == AB!Init /\ [][AB!Next \/ (StaleTry /\ AB!GiveUp)]_(AB!vars)
=============================================================================
