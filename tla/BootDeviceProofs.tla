-------------------------- MODULE BootDeviceProofs --------------------------
(***************************************************************************)
(* Machine-checked facts about BootDevice for every number of power losses *)
(* and upgrades and every set of installation outcomes.                    *)
(***************************************************************************)
EXTENDS BootDevice, TLAPS

----------------------------------------------------------------------------
(* Facts about the operators of BootCtl.                                   *)

\* The seven persist.boot.* keys, spelled out.
LEMMA FlagSet ==
  Flag = {Active(A), Bootable(A), Successful(A),
          Active(B), Bootable(B), Successful(B), Try}
<1>1. \A i \in 1..7 : i = 1 \/ i = 2 \/ i = 3 \/ i = 4 \/ i = 5 \/ i = 6 \/ i = 7
  OBVIOUS
<1> QED
  BY <1>1, SMT DEF Flag, WriteOrder

\* The keys of different flags differ.
LEMMA FlagsDiffer ==
  ASSUME NEW s \in Slot, NEW r \in Slot
  PROVE  /\ Active(s) # Bootable(r) /\ Active(s) # Successful(r)
         /\ Bootable(s) # Successful(r)
         /\ Active(s) # Try /\ Bootable(s) # Try /\ Successful(s) # Try
         /\ s # r => /\ Active(s) # Active(r) /\ Bootable(s) # Bootable(r)
                     /\ Successful(s) # Successful(r)
BY DEF Slot, A, B, Active, Bootable, Successful, Try

\* Every command maps configurations to configurations, and the loader
\* starts one of the two slots.
LEMMA CommandsType ==
  ASSUME NEW c \in SUBSET Flag
  PROVE  /\ bootctl_update(c) \in SUBSET Flag
         /\ bootctl_done(c) \in SUBSET Flag
         /\ bootctl_success(c) \in SUBSET Flag
         /\ bootctl_boot(c).boot \in SUBSET Flag
         /\ bootctl_boot(c).path \in Slot
<1> USE FlagSet
<1>1. bootctl_update(c) \in SUBSET Flag
  BY DEF bootctl_update
<1>2. bootctl_done(c) \in SUBSET Flag
  BY DEF bootctl_done, OtherSlot
<1>3. bootctl_success(c) \in SUBSET Flag
  BY DEF bootctl_success, CurrentSlot
<1>4. ASSUME NEW d \in SUBSET Flag
      PROVE  success_slot(d).boot \in SUBSET Flag /\ success_slot(d).path \in Slot
  BY DEF success_slot, Slot
<1>5. ASSUME NEW s \in Slot
      PROVE  /\ start_trial(c, s).boot \in SUBSET Flag
             /\ start_trial(c, s).path \in Slot
  <2>1. c \ {Active(s), Bootable(s)} \in SUBSET Flag
    OBVIOUS
  <2> QED
    BY <2>1, <1>4 DEF start_trial
<1>6. /\ bootctl_boot(c).boot \in SUBSET Flag
      /\ bootctl_boot(c).path \in Slot
  <2>1. {Active(A), Bootable(A), Try} \in SUBSET Flag /\ A \in Slot /\ B \in Slot
    BY DEF Slot
  <2> QED
    BY <2>1, <1>4, <1>5 DEF bootctl_boot
<1> QED
  BY <1>1, <1>2, <1>3, <1>6
----------------------------------------------------------------------------
(* Type correctness.                                                       *)

\* The initial states are well typed.
LEMMA InitType == Init => TypeOK
BY BoundsAssumption DEF Init, TypeOK, Slot, A, B, Image, StartsCap

\* Saving, returning and resetting keep the types.
LEMMA NextType == TypeOK /\ [Next]_vars => TypeOK'
<1> SUFFICES ASSUME TypeOK, [Next]_vars PROVE TypeOK'
  OBVIOUS
<1> USE BoundsAssumption
<1>1. CASE Bootloader
  BY <1>1, CommandsType DEF TypeOK, Bootloader, write_config, COMMIT
<1>2. CASE SetProperty
  <2>1. todo \in 1..7 /\ todo + 1 \in 1..COMMIT
    BY <1>2 DEF TypeOK, SetProperty, COMMIT
  <2>2. WriteOrder[todo] \in Flag
    BY <2>1 DEF Flag
  <2>3. kv' \subseteq Flag
    BY <1>2, <2>2 DEF TypeOK, SetProperty, property_set
  <2> QED
    BY <1>2, <2>1, <2>3 DEF TypeOK, SetProperty
<1>3. ASSUME pc = "saving",
             NEW next \in {"booted", "up", "updating", "installed", "switched"},
             Return(next), faults' \in 0..MaxFaults
      PROVE  TypeOK'
  <2>1. starts' \in [Slot -> 0..StartsCap]
    BY <1>3 DEF TypeOK, Return, StartsCap
  <2> QED
    BY <1>3, <2>1 DEF TypeOK, Return, NoSave
<1>4. CASE Commit
  BY <1>4, <1>3 DEF TypeOK, Commit, AfterSave
<1>5. CASE SetFault
  BY <1>5, <1>3 DEF TypeOK, SetFault, AfterFault
<1>6. CASE Success
  BY <1>6, CommandsType DEF TypeOK, Success, write_config, save, Quiet, COMMIT
<1>7. CASE Update
  BY <1>7, CommandsType DEF TypeOK, Update, write_config, Quiet, COMMIT
<1>8. OtherSlot(kv) \in Slot
  BY DEF OtherSlot, Slot
<1>9. CASE StartInstall
  BY <1>8, <1>9 DEF TypeOK, StartInstall, Image, StartsCap
<1>10. CASE FinishInstall
  BY <1>8, <1>10, OutcomesAssumption DEF TypeOK, FinishInstall, Image, Quiet
<1>11. CASE Done
  BY <1>11, CommandsType DEF TypeOK, Done, write_config, Quiet, COMMIT
<1>12. CASE Reboot
  BY <1>12 DEF TypeOK, Reboot, Reset, NoSave, Quiet
<1>13. CASE ImageCrash
  BY <1>13 DEF TypeOK, ImageCrash, Reset, NoSave, Quiet
<1>14. CASE PowerLoss
  BY <1>14 DEF TypeOK, PowerLoss, Reset, NoSave
<1>15. CASE UNCHANGED vars
  BY <1>15 DEF TypeOK, vars
<1> QED
  BY <1>1, <1>2, <1>4, <1>5, <1>6, <1>7, <1>9, <1>10, <1>11, <1>12, <1>13,
     <1>14, <1>15 DEF Next

\* Every variable keeps its type, with power cuts and failing property calls
\* anywhere: the calls of bootctl_write_config stay in range and the
\* configuration read from KVDB is always one of the seven flags.
THEOREM TypeCorrect == Spec => []TypeOK
BY InitType, NextType, PTL DEF Spec
----------------------------------------------------------------------------
(* What the commands make of a well-formed configuration.                  *)

\* The two slots.
LEMMA Slots == A \in Slot /\ B \in Slot /\ A # B /\ \A s \in Slot : s = A \/ s = B
BY DEF Slot, A, B

\* In a well-formed configuration the slot the commands take to be the
\* current one is the active one, and the loader does not wipe anything.
LEMMA ActiveIsCurrent ==
  ASSUME NEW c, WellFormed(c), NEW r \in Slot, Active(r) \in c
  PROVE  /\ CurrentSlot(c) = r
         /\ OtherSlot(c) \in Slot /\ OtherSlot(c) # r
         /\ Active(OtherSlot(c)) \notin c
         /\ bootctl_active(c) = {r}
<1>1. \A s \in Slot : Active(s) \in c <=> s = r
  BY DEF WellFormed, OneActive
<1> QED
  BY <1>1, Slots DEF CurrentSlot, OtherSlot, bootctl_active

\* bootctl_update keeps the active slot and its mark, and leaves the other slot
\* without one.
LEMMA UpdateFacts ==
  ASSUME NEW c, WellFormed(c), NEW r \in Slot, Active(r) \in c
  PROVE  /\ WellFormed(bootctl_update(c)) /\ Active(r) \in bootctl_update(c)
         /\ Successful(r) \in c => Successful(r) \in bootctl_update(c)
         /\ \A s \in Slot : /\ Active(s) \notin bootctl_update(c)
                              => Successful(s) \notin bootctl_update(c)
                            /\ Successful(s) \in bootctl_update(c)
                              => Successful(s) \in c
<1> DEFINE o == OtherSlot(c)
           d == bootctl_update(c)
<1>1. o \in Slot /\ o # r /\ \A s \in Slot : s = r \/ s = o
  BY ActiveIsCurrent, Slots
<1>2. \A s \in Slot : Active(s) \in c <=> s = r
  BY DEF WellFormed, OneActive
<1>3. d = c \ {Successful(o), Bootable(o), Active(o)}
  BY DEF bootctl_update
<1> HIDE DEF o, d
<1>4. /\ Active(r) \in d /\ Active(o) \notin d /\ Successful(o) \notin d
      /\ Successful(r) \in d <=> Successful(r) \in c
      /\ Bootable(r) \in d <=> Bootable(r) \in c
  BY <1>1, <1>3, FlagsDiffer
<1>5. WellFormed(d)
  BY <1>1, <1>4 DEF WellFormed, OneActive
<1> QED
  BY <1>1, <1>3, <1>4, <1>5 DEF d

\* bootctl_done makes the other slot the active one and changes no mark.
LEMMA DoneFacts ==
  ASSUME NEW c, WellFormed(c), NEW r \in Slot, Active(r) \in c
  PROVE  /\ WellFormed(bootctl_done(c))
         /\ \A s \in Slot : Successful(s) \in bootctl_done(c)
                              <=> Successful(s) \in c
<1> DEFINE o == OtherSlot(c)
           d == bootctl_done(c)
<1>1. o \in Slot /\ o # r /\ \A s \in Slot : s = r \/ s = o
  BY ActiveIsCurrent, Slots
<1>2. d = (c \union {Bootable(o), Active(o)}) \ {Active(r)}
  BY ActiveIsCurrent DEF bootctl_done
<1> HIDE DEF o, d
<1>3. /\ Active(o) \in d /\ Active(r) \notin d /\ Bootable(o) \in d
      /\ Bootable(r) \in d <=> Bootable(r) \in c
      /\ \A s \in Slot : Successful(s) \in d <=> Successful(s) \in c
  BY <1>1, <1>2, FlagsDiffer
<1>4. WellFormed(d)
  BY <1>1, <1>3 DEF WellFormed, OneActive
<1> QED
  BY <1>3, <1>4 DEF d

\* bootctl_success marks the active slot and no other.
LEMMA SuccessFacts ==
  ASSUME NEW c, WellFormed(c), NEW r \in Slot, Active(r) \in c
  PROVE  /\ WellFormed(bootctl_success(c)) /\ Active(r) \in bootctl_success(c)
         /\ \A s \in Slot : Successful(s) \in bootctl_success(c)
                              <=> s = r \/ Successful(s) \in c
<1> DEFINE d == bootctl_success(c)
<1>1. d = (c \ {Try}) \union {Successful(r)}
  BY ActiveIsCurrent DEF bootctl_success
<1> HIDE DEF d
<1>2. \A s \in Slot : /\ Active(s) \in d <=> Active(s) \in c
                      /\ Bootable(s) \in d <=> Bootable(s) \in c
                      /\ Successful(s) \in d <=> s = r \/ Successful(s) \in c
  BY <1>1, FlagsDiffer
<1>3. WellFormed(d)
  BY <1>2 DEF WellFormed, OneActive
<1> QED
  BY <1>2, <1>3 DEF d

\* The fall back to a successful slot, from a configuration with at most one
\* active slot, makes the slot it starts the only active one.
LEMMA FallbackFacts ==
  ASSUME NEW c,
         \A s \in Slot : Successful(s) \in c => Bootable(s) \in c,
         \A s \in Slot : Active(s) \in c => Successful(s) \in c,
         ~ (Active(A) \in c /\ Active(B) \in c)
  PROVE  LET m == success_slot(c)
         IN  /\ m.path \in Slot /\ WellFormed(m.boot)
             /\ Active(m.path) \in m.boot
             /\ \A s \in Slot : Successful(s) \in m.boot <=> Successful(s) \in c
<1> DEFINE m == success_slot(c)
<1> USE Slots, FlagsDiffer
<1>1. CASE {Active(A), Successful(A)} \subseteq c
  <2>1. m.path = A /\ m.boot = c
    BY <1>1 DEF success_slot
  <2> HIDE DEF m
  <2> QED
    BY <1>1, <2>1 DEF WellFormed, OneActive, m
<1>2. CASE /\ ~ {Active(A), Successful(A)} \subseteq c
           /\ {Active(B), Successful(B)} \subseteq c
  <2>1. m.path = B /\ m.boot = c
    BY <1>2 DEF success_slot
  <2> HIDE DEF m
  <2> QED
    BY <1>2, <2>1 DEF WellFormed, OneActive, m
<1>3. CASE /\ Active(A) \notin c /\ Active(B) \notin c
           /\ Successful(A) \in c
  <2>1. m.path = A /\ m.boot = c \union {Active(A)}
    BY <1>3 DEF success_slot
  <2> HIDE DEF m
  <2> QED
    BY <1>3, <2>1 DEF WellFormed, OneActive, m
<1>4. CASE /\ Active(A) \notin c /\ Active(B) \notin c
           /\ Successful(A) \notin c /\ Successful(B) \in c
  <2>1. m.path = B /\ m.boot = c \union {Active(B), Bootable(B)}
    BY <1>4 DEF success_slot
  <2> HIDE DEF m
  <2> QED
    BY <1>4, <2>1 DEF WellFormed, OneActive, m
<1>5. CASE /\ Active(A) \notin c /\ Active(B) \notin c
           /\ Successful(A) \notin c /\ Successful(B) \notin c
  <2>1. m.path = A /\ m.boot = c \union {Active(A), Bootable(A)}
    BY <1>5 DEF success_slot
  <2> HIDE DEF m
  <2> QED
    BY <1>5, <2>1 DEF WellFormed, OneActive, m
<1> QED
  BY <1>1, <1>2, <1>3, <1>4, <1>5

\* bootctl_boot starts the slot it makes active and changes no mark.
LEMMA BootFacts ==
  ASSUME NEW c, c = {} \/ WellFormed(c)
  PROVE  LET m == bootctl_boot(c)
         IN  /\ m.path \in Slot /\ WellFormed(m.boot)
             /\ Active(m.path) \in m.boot
             /\ \A s \in Slot : Successful(s) \in m.boot <=> Successful(s) \in c
<1> DEFINE Fine(m) == /\ m.path \in Slot /\ WellFormed(m.boot)
                      /\ Active(m.path) \in m.boot
                      /\ \A s \in Slot : Successful(s) \in m.boot
                                           <=> Successful(s) \in c
<1>1. CASE c = {}
  <2> DEFINE e == {Active(A), Bootable(A), Try}
  <2>1. bootctl_boot(c) = success_slot(e)
    BY <1>1 DEF bootctl_boot
  <2>2. success_slot(e) = [path |-> A, boot |-> e \union {Active(A), Bootable(A)}]
    BY Slots, FlagsDiffer DEF success_slot
  <2>3. e \union {Active(A), Bootable(A)} = e
    OBVIOUS
  <2>4. WellFormed(e)
    BY Slots, FlagsDiffer DEF WellFormed, OneActive
  <2>5. \A s \in Slot : Successful(s) \notin e
    BY Slots, FlagsDiffer
  <2> QED
    BY <1>1, <2>1, <2>2, <2>3, <2>4, <2>5, Slots
<1>2. CASE WellFormed(c)
  <2>1. PICK r \in Slot : \A s \in Slot : Active(s) \in c <=> s = r
    BY <1>2 DEF WellFormed, OneActive
  <2>2. Bootable(r) \in c
    BY <1>2, <2>1 DEF WellFormed
  <2>3. CASE Successful(r) \in c
    <3>1. bootctl_boot(c) = success_slot(c)
      BY <2>1, <2>3, Slots DEF bootctl_boot, on_trial
    <3>2. Fine(success_slot(c))
      BY <1>2, <2>1, <2>3, Slots, FallbackFacts DEF WellFormed
    <3> QED
      BY <3>1, <3>2
  <2>4. CASE Successful(r) \notin c
    <3>1. bootctl_boot(c) = start_trial(c, r)
      BY <2>1, <2>2, <2>4, Slots DEF bootctl_boot, on_trial
    <3>2. CASE Try \in c
      <4> DEFINE d == c \ {Active(r), Bootable(r)}
      <4>1. start_trial(c, r) = success_slot(d)
        BY <3>2 DEF start_trial
      <4>2. \A s \in Slot : /\ Active(s) \notin d
                            /\ Successful(s) \in d <=> Successful(s) \in c
                            /\ s # r => (Bootable(s) \in d <=> Bootable(s) \in c)
        BY <2>1, FlagsDiffer
      <4>3. \A s \in Slot : Successful(s) \in d => Bootable(s) \in d
        BY <1>2, <2>4, <4>2 DEF WellFormed
      <4> HIDE DEF d
      <4>4. Fine(success_slot(d))
        BY <4>2, <4>3, Slots, FallbackFacts
      <4> QED
        BY <3>1, <4>1, <4>4
    <3>3. CASE Try \notin c
      <4>1. start_trial(c, r) = [path |-> r, boot |-> c \union {Try}]
        BY <3>3 DEF start_trial
      <4>2. \A s \in Slot :
              /\ Active(s) \in c \union {Try} <=> Active(s) \in c
              /\ Bootable(s) \in c \union {Try} <=> Bootable(s) \in c
              /\ Successful(s) \in c \union {Try} <=> Successful(s) \in c
        BY FlagsDiffer
      <4>3. WellFormed(c \union {Try})
        BY <1>2, <4>2 DEF WellFormed, OneActive
      <4> QED
        BY <3>1, <2>1, <4>1, <4>2, <4>3
    <3> QED
      BY <3>2, <3>3
  <2> QED
    BY <2>3, <2>4
<1> QED
  BY <1>1, <1>2

\* When property_commit is reached the store holds what was to be saved.
LEMMA SaveDone ==
  ASSUME TypeOK, SavedPrefix, pc = "saving", todo = COMMIT
  PROVE  kv = boot
<1>1. \A f \in Flag : f \in kv <=> f \in boot
  BY DEF TypeOK, SavedPrefix, COMMIT, Flag
<1> QED
  BY <1>1 DEF TypeOK

\* A property_set_bool changes its own flag only, to the value to be saved.
LEMMA SetFacts ==
  ASSUME SetProperty
  PROVE  /\ \A f : f \in kv' => f \in kv \/ f \in boot
         /\ \A f : f \in kv /\ f \in boot => f \in kv'
         /\ WriteOrder[todo] \in kv' <=> WriteOrder[todo] \in boot
         /\ \A f : f # WriteOrder[todo] => (f \in kv' <=> f \in kv)
BY DEF SetProperty, property_set
----------------------------------------------------------------------------
(* The slot invariant of a device whose saves are not interrupted.         *)

\* The initial states satisfy the slot invariant.
LEMMA InitSlots == Init => SlotInv
BY DEF Init, SlotInv, SavedPrefix, ConfigWellFormed, MarksGood, RunningActive,
       TargetUnmarked, RunningMarked

\* One property_set_bool of a save.
LEMMA SetPropertySlots == TypeOK /\ SlotInv /\ SetProperty => SlotInv'
<1> SUFFICES ASSUME TypeOK, SlotInv, SetProperty PROVE SlotInv'
  OBVIOUS
<1>1. /\ pc = "saving" /\ pc' = pc /\ boot' = boot /\ op' = op /\ image' = image
      /\ running' = running /\ todo' = todo + 1 /\ todo \in 1..7
      /\ running \in Slot /\ op # "none"
  BY DEF TypeOK, SetProperty, COMMIT
<1>2. SavedPrefix'
  <2> SUFFICES ASSUME NEW i \in 1..7, i < todo'
               PROVE  WriteOrder[i] \in kv' <=> WriteOrder[i] \in boot
    BY <1>1 DEF SavedPrefix
  <2>1. CASE i = todo
    BY <2>1, SetFacts
  <2>2. CASE i < todo
    <3>1. WriteOrder[i] \in kv <=> WriteOrder[i] \in boot
      BY <1>1, <2>2 DEF SlotInv, SavedPrefix
    <3> QED
      BY <3>1, SetFacts
  <2> QED
    BY <1>1, <2>1, <2>2
<1>3. ConfigWellFormed'
  BY <1>1 DEF SlotInv, ConfigWellFormed, Config
<1>4. MarksGood'
  BY <1>1, SetFacts DEF SlotInv, MarksGood
<1>5. RunningActive' /\ TargetUnmarked'
  BY <1>1 DEF SlotInv, RunningActive, TargetUnmarked, Config
<1>6. RunningMarked'
  BY <1>1, SetFacts DEF SlotInv, RunningMarked
<1> QED
  BY <1>2, <1>3, <1>4, <1>5, <1>6 DEF SlotInv

\* The end of a save.
LEMMA CommitSlots == TypeOK /\ SlotInv /\ Commit => SlotInv'
<1> SUFFICES ASSUME TypeOK, SlotInv, Commit PROVE SlotInv'
  OBVIOUS
<1>1. kv = boot
  BY SaveDone DEF Commit, SlotInv
<1>2. /\ pc = "saving" /\ op \in {"boot", "success", "update", "done"}
      /\ pc' = AfterSave[op] /\ op' = "none" /\ boot' = {} /\ kv' = kv
      /\ running' = running /\ image' = image
  BY DEF TypeOK, Commit, Return, NoSave
<1>3. /\ op = "boot" => pc' = "booted"
      /\ op = "success" => pc' = "up"
      /\ op = "update" => pc' = "updating"
      /\ op = "done" => pc' = "switched"
  BY <1>2 DEF AfterSave
<1>4. Config' = kv /\ Config = kv /\ pc' # "saving" /\ pc' # "reset"
  BY <1>1, <1>2, <1>3 DEF Config
<1>5. SavedPrefix' /\ ConfigWellFormed' /\ MarksGood'
  BY <1>1, <1>2, <1>4 DEF SlotInv, SavedPrefix, ConfigWellFormed, MarksGood
<1>6. RunningActive'
  BY <1>2, <1>3, <1>4 DEF SlotInv, RunningActive
<1>7. TargetUnmarked'
  BY <1>2, <1>3, <1>4 DEF SlotInv, TargetUnmarked
<1>8. RunningMarked'
  BY <1>1, <1>2, <1>3 DEF SlotInv, RunningMarked
<1> QED
  BY <1>5, <1>6, <1>7, <1>8 DEF SlotInv

\* The commands that open a save.
LEMMA CommandSlots ==
  TypeOK /\ SlotInv /\ (Bootloader \/ Success \/ Update \/ Done) => SlotInv'
<1> SUFFICES ASSUME TypeOK, SlotInv, Bootloader \/ Success \/ Update \/ Done
             PROVE  SlotInv'
  OBVIOUS
<1>1. ASSUME pc' = "saving", todo' = 1 PROVE SavedPrefix'
  BY <1>1 DEF SavedPrefix
<1>2. CASE Bootloader
  <2> DEFINE m == bootctl_boot(kv)
  <2>1. kv = {} \/ WellFormed(kv)
    BY <1>2 DEF SlotInv, ConfigWellFormed, Config, Bootloader
  <2>2. /\ m.path \in Slot /\ WellFormed(m.boot) /\ Active(m.path) \in m.boot
        /\ \A s \in Slot : Successful(s) \in m.boot <=> Successful(s) \in kv
    BY <2>1, BootFacts
  <2>3. /\ pc' = "saving" /\ op' = "boot" /\ boot' = m.boot /\ todo' = 1
        /\ running' = m.path /\ kv' = kv /\ image' = image
    BY <1>2 DEF Bootloader, write_config
  <2> HIDE DEF m
  <2>4. Config' = m.boot
    BY <2>3 DEF Config
  <2>5. ConfigWellFormed' /\ RunningActive' /\ TargetUnmarked'
    BY <2>2, <2>3, <2>4 DEF ConfigWellFormed, RunningActive, TargetUnmarked
  <2>6. MarksGood' /\ RunningMarked'
    BY <2>2, <2>3 DEF SlotInv, MarksGood, RunningMarked
  <2> QED
    BY <1>1, <2>3, <2>5, <2>6 DEF SlotInv
<1>3. ASSUME pc \in {"booted", "up", "installed"}
      PROVE  running \in Slot /\ WellFormed(kv) /\ Active(running) \in kv
  BY <1>3 DEF TypeOK, SlotInv, ConfigWellFormed, RunningActive, Config
<1>4. CASE Success
  <2>1. pc = "booted" /\ image[running] = "good"
    BY <1>4 DEF Success
  <2>2. CASE success_due(kv)
    <3> DEFINE d == bootctl_success(kv)
    <3>1. /\ WellFormed(d) /\ Active(running) \in d
          /\ \A s \in Slot : Successful(s) \in d
                               <=> s = running \/ Successful(s) \in kv
      BY <1>3, <2>1, SuccessFacts
    <3>2. /\ pc' = "saving" /\ op' = "success" /\ boot' = d /\ todo' = 1
          /\ running' = running /\ kv' = kv /\ image' = image
      BY <1>4, <2>2 DEF Success, write_config, Quiet
    <3> HIDE DEF d
    <3>3. ConfigWellFormed' /\ RunningActive' /\ TargetUnmarked'
      BY <3>1, <3>2 DEF ConfigWellFormed, RunningActive, TargetUnmarked, Config
    <3>4. MarksGood' /\ RunningMarked'
      BY <1>3, <2>1, <3>1, <3>2 DEF SlotInv, MarksGood, RunningMarked
    <3> QED
      BY <1>1, <3>2, <3>3, <3>4 DEF SlotInv
  <2>3. CASE ~ success_due(kv)
    <3>1. /\ pc' = "up" /\ op' = op /\ boot' = boot /\ kv' = kv
          /\ running' = running /\ image' = image /\ op = "none"
      BY <1>4, <2>1, <2>3 DEF TypeOK, Success, save, Quiet
    <3>2. Successful(running) \in kv
      BY <1>3, <2>1, <2>3, ActiveIsCurrent DEF success_due
    <3>3. SavedPrefix' /\ ConfigWellFormed' /\ MarksGood' /\ RunningActive'
      BY <1>3, <2>1, <3>1 DEF SlotInv, SavedPrefix, ConfigWellFormed, MarksGood,
                              RunningActive, Config
    <3>4. TargetUnmarked' /\ RunningMarked'
      BY <3>1, <3>2 DEF TargetUnmarked, RunningMarked
    <3> QED
      BY <3>3, <3>4 DEF SlotInv
  <2> QED
    BY <2>2, <2>3
<1>5. CASE Update
  <2> DEFINE d == bootctl_update(kv)
  <2>1. Successful(running) \in kv /\ pc = "up"
    BY <1>5 DEF SlotInv, RunningMarked, Update
  <2>2. /\ WellFormed(d) /\ Active(running) \in d /\ Successful(running) \in d
        /\ \A s \in Slot :
             /\ Active(s) \notin d => Successful(s) \notin d
             /\ Successful(s) \in d => Successful(s) \in kv
    BY <1>3, <2>1, UpdateFacts
  <2>3. /\ pc' = "saving" /\ op' = "update" /\ boot' = d /\ todo' = 1
        /\ running' = running /\ kv' = kv /\ image' = image
    BY <1>5 DEF Update, write_config, Quiet
  <2> HIDE DEF d
  <2>4. ConfigWellFormed' /\ RunningActive' /\ TargetUnmarked'
    BY <2>2, <2>3 DEF ConfigWellFormed, RunningActive, TargetUnmarked, Config
  <2>5. MarksGood' /\ RunningMarked'
    BY <2>1, <2>2, <2>3 DEF SlotInv, MarksGood, RunningMarked
  <2> QED
    BY <1>1, <2>3, <2>4, <2>5 DEF SlotInv
<1>6. CASE Done
  <2> DEFINE d == bootctl_done(kv)
  <2>1. Successful(running) \in kv /\ pc = "installed"
    BY <1>6 DEF SlotInv, RunningMarked, Done
  <2>2. /\ WellFormed(d)
        /\ \A s \in Slot : Successful(s) \in d <=> Successful(s) \in kv
    BY <1>3, <2>1, DoneFacts
  <2>3. /\ pc' = "saving" /\ op' = "done" /\ boot' = d /\ todo' = 1
        /\ running' = running /\ kv' = kv /\ image' = image
    BY <1>6 DEF Done, write_config, Quiet
  <2> HIDE DEF d
  <2>4. ConfigWellFormed' /\ RunningActive' /\ TargetUnmarked'
    BY <2>2, <2>3 DEF ConfigWellFormed, RunningActive, TargetUnmarked, Config
  <2>5. MarksGood' /\ RunningMarked'
    BY <1>3, <2>1, <2>2, <2>3 DEF SlotInv, MarksGood, RunningMarked
  <2> QED
    BY <1>1, <2>3, <2>4, <2>5 DEF SlotInv
<1> QED
  BY <1>2, <1>4, <1>5, <1>6

\* The slot being written is neither the running one nor a marked one.
LEMMA TargetFacts ==
  ASSUME TypeOK, SlotInv, pc \in {"updating", "writing"}
  PROVE  /\ OtherSlot(kv) \in Slot /\ OtherSlot(kv) # running
         /\ Successful(OtherSlot(kv)) \notin kv
<1>1. running \in Slot /\ WellFormed(kv) /\ Active(running) \in kv /\ Config = kv
  BY DEF TypeOK, SlotInv, ConfigWellFormed, RunningActive, Config
<1>2. /\ OtherSlot(kv) \in Slot /\ OtherSlot(kv) # running
      /\ Active(OtherSlot(kv)) \notin kv
  BY <1>1, ActiveIsCurrent
<1> QED
  BY <1>1, <1>2 DEF SlotInv, TargetUnmarked

\* Writing the other slot disturbs no mark.
LEMMA InstallSlots ==
  TypeOK /\ SlotInv /\ (StartInstall \/ FinishInstall) => SlotInv'
<1> SUFFICES ASSUME TypeOK, SlotInv, StartInstall \/ FinishInstall
             PROVE  SlotInv'
  OBVIOUS
<1>1. /\ pc \in {"updating", "writing"} /\ pc' \in {"writing", "installed"}
      /\ kv' = kv /\ running' = running /\ boot' = boot /\ op' = op
      /\ op = "none" /\ boot = {}
      /\ pc' = "writing" => pc = "updating"
      /\ \E i \in Image : image' = [image EXCEPT ![OtherSlot(kv)] = i]
  BY OutcomesAssumption DEF TypeOK, StartInstall, FinishInstall, Quiet, Image
<1>2. Config' = kv /\ Config = kv
  BY <1>1 DEF Config
<1>3. SavedPrefix' /\ ConfigWellFormed' /\ RunningActive'
  BY <1>1, <1>2 DEF SlotInv, SavedPrefix, ConfigWellFormed, RunningActive
<1>4. TargetUnmarked' /\ RunningMarked'
  BY <1>1, <1>2 DEF SlotInv, TargetUnmarked, RunningMarked
<1>5. MarksGood'
  <2>1. \A s \in Slot : s # OtherSlot(kv) => image'[s] = image[s]
    BY <1>1 DEF TypeOK
  <2> QED
    BY <1>1, <2>1, TargetFacts DEF SlotInv, MarksGood
<1> QED
  BY <1>3, <1>4, <1>5 DEF SlotInv

\* A reset, planned or not, outside of a save.
LEMMA ResetSlots ==
  ASSUME ~ PowerCutInSave
  PROVE  TypeOK /\ SlotInv /\ (Reboot \/ ImageCrash \/ PowerLoss) => SlotInv'
<1> SUFFICES ASSUME TypeOK, SlotInv, Reboot \/ ImageCrash \/ PowerLoss
             PROVE  SlotInv'
  OBVIOUS
<1>1. /\ pc # "saving" /\ pc # "reset" /\ pc' = "reset" /\ op' = "none"
      /\ boot' = {} /\ kv' = kv /\ image' = image
  BY DEF Reboot, ImageCrash, PowerLoss, Reset, NoSave, Quiet
<1> QED
  BY <1>1 DEF SlotInv, SavedPrefix, ConfigWellFormed, MarksGood, RunningActive,
              TargetUnmarked, RunningMarked, Config

\* Every step preserves the slot invariant when saves are not interrupted.
LEMMA NextSlots ==
  ASSUME ~ PowerCutInSave, MaxFaults = 0
  PROVE  TypeOK /\ SlotInv /\ [Next]_vars => SlotInv'
<1> SUFFICES ASSUME TypeOK, SlotInv, [Next]_vars PROVE SlotInv'
  OBVIOUS
<1>1. CASE Bootloader \/ Success \/ Update \/ Done
  BY <1>1, CommandSlots
<1>2. CASE SetProperty
  BY <1>2, SetPropertySlots
<1>3. CASE Commit
  BY <1>3, CommitSlots
<1>4. CASE SetFault
  BY <1>4 DEF SetFault, TypeOK
<1>5. CASE StartInstall \/ FinishInstall
  BY <1>5, InstallSlots
<1>6. CASE Reboot \/ ImageCrash \/ PowerLoss
  BY <1>6, ResetSlots
<1>7. CASE UNCHANGED vars
  BY <1>7 DEF vars, SlotInv, SavedPrefix, ConfigWellFormed, MarksGood,
              RunningActive, TargetUnmarked, RunningMarked, Config
<1> QED
  BY <1>1, <1>2, <1>3, <1>4, <1>5, <1>6, <1>7 DEF Next

\* The slot flags, the running slot and the images fit together at every step
\* of bootctl's commands and saves, when no save is interrupted.
THEOREM SlotsInvariant ==
  ASSUME ~ PowerCutInSave, MaxFaults = 0
  PROVE  Spec => []SlotInv
BY InitSlots, NextSlots, TypeCorrect, InitType, NextType, PTL DEF Spec

\* Without an interrupted save exactly one slot is active whenever a command
\* reads the flags: bootctl_success, bootctl_update and bootctl_done take the
\* slot that is not active for the other one.
THEOREM OneSlotActive ==
  ASSUME ~ PowerCutInSave, MaxFaults = 0
  PROVE  Spec => []ActiveExclusive
<1>1. SlotInv => ActiveExclusive
  BY DEF SlotInv, ConfigWellFormed, Config, WellFormed, ActiveExclusive
<1> QED
  BY <1>1, SlotsInvariant, PTL

\* Without an interrupted save no slot is marked successful whose image does not
\* come up, at any step of a save.
THEOREM MarkedComesUp ==
  ASSUME ~ PowerCutInSave, MaxFaults = 0
  PROVE  Spec => []NoFalseSuccess
<1>1. SlotInv => NoFalseSuccess
  BY DEF SlotInv, MarksGood, NoFalseSuccess
<1> QED
  BY <1>1, SlotsInvariant, PTL

\* Without an interrupted save bootctl_active reports the slot that runs, until
\* bootctl_done.
THEOREM RunningIsActive ==
  ASSUME ~ PowerCutInSave, MaxFaults = 0
  PROVE  Spec => []ActiveIsRunning
<1>1. TypeOK /\ SlotInv => ActiveIsRunning
  <2> SUFFICES ASSUME TypeOK, SlotInv,
                      pc \in {"booted", "up", "updating", "writing", "installed"}
               PROVE  bootctl_active(kv) = {running}
    BY DEF ActiveIsRunning
  <2>1. running \in Slot /\ WellFormed(kv) /\ Active(running) \in kv
    BY DEF TypeOK, SlotInv, ConfigWellFormed, RunningActive, Config
  <2> QED
    BY <2>1, ActiveIsCurrent
<1> QED
  BY <1>1, TypeCorrect, SlotsInvariant, PTL

\* Without an interrupted save the client that installs an upgrade never
\* writes to the slot that runs.
THEOREM RunningSlotSafe ==
  ASSUME ~ PowerCutInSave, MaxFaults = 0
  PROVE  Spec => RunningSlotKept
<1>1. TypeOK /\ SlotInv /\ [Next]_vars
        => [pc # "reset" => image'[running] = image[running]]_vars
  <2> SUFFICES ASSUME TypeOK, SlotInv, Next
               PROVE  image'[running] = image[running]
    OBVIOUS
  <2>1. CASE StartInstall \/ FinishInstall
    <3>1. pc \in {"updating", "writing"} /\ running \in Slot
      BY <2>1 DEF TypeOK, StartInstall, FinishInstall
    <3>2. OtherSlot(kv) # running
      BY <3>1, TargetFacts
    <3> QED
      BY <2>1, <3>1, <3>2 DEF TypeOK, StartInstall, FinishInstall
  <2>2. CASE ~ (StartInstall \/ FinishInstall)
    BY <2>2 DEF Next, Bootloader, SetProperty, Commit, SetFault, Return, Success,
                Update, Done, Reboot, ImageCrash, PowerLoss
  <2> QED
    BY <2>1, <2>2
<1> QED
  BY <1>1, TypeCorrect, SlotsInvariant, PTL DEF Spec, RunningSlotKept

\* Without an interrupted save there is, from the first bootctl_success on,
\* always a slot that is known to come up.
THEOREM FallbackSafe ==
  ASSUME ~ PowerCutInSave, MaxFaults = 0
  PROVE  Spec => FallbackKept
<1> DEFINE Some == \E s \in Slot : Successful(s) \in kv
<1>1. TypeOK /\ SlotInv /\ [Next]_vars
        => [(\E s \in Slot : Successful(s) \in kv)
              => (\E s \in Slot : Successful(s) \in kv')]_vars
  <2> SUFFICES ASSUME TypeOK, SlotInv, Next, Some PROVE Some'
    OBVIOUS
  <2>1. CASE SetProperty
    <3>1. pc = "saving" /\ op \in {"boot", "success", "update", "done"}
          /\ running \in Slot
      BY <2>1 DEF TypeOK, SetProperty
    <3>2. CASE op \in {"boot", "success"}
      BY <2>1, <3>2, SetFacts DEF SlotInv, RunningMarked
    <3>3. CASE op \in {"update", "done"}
      BY <2>1, <3>1, <3>3, SetFacts DEF SlotInv, RunningMarked
    <3> QED
      BY <3>1, <3>2, <3>3
  <2>2. CASE ~ SetProperty
    BY <2>2 DEF Next, Bootloader, Commit, SetFault, Return, Success, Update,
                StartInstall, FinishInstall, Done, Reboot, ImageCrash, PowerLoss,
                Quiet
  <2> QED
    BY <2>1, <2>2
<1> QED
  BY <1>1, TypeCorrect, SlotsInvariant, PTL DEF Spec, FallbackKept
----------------------------------------------------------------------------
(* Facts that hold of every save, interrupted or not.                      *)

\* No command but bootctl_success adds a mark, from any configuration.
LEMMA NoNewMarks ==
  ASSUME NEW c, NEW s \in Slot
  PROVE  /\ Successful(s) \in bootctl_update(c) => Successful(s) \in c
         /\ Successful(s) \in bootctl_done(c) => Successful(s) \in c
         /\ Successful(s) \in bootctl_boot(c).boot => Successful(s) \in c
<1> USE Slots, FlagsDiffer
<1>1. Successful(s) \in bootctl_update(c) => Successful(s) \in c
  BY DEF bootctl_update
<1>2. Successful(s) \in bootctl_done(c) => Successful(s) \in c
  BY DEF bootctl_done, OtherSlot
<1>3. ASSUME NEW d, Successful(s) \in success_slot(d).boot
      PROVE  Successful(s) \in d
  BY <1>3 DEF success_slot
<1>4. ASSUME NEW r \in Slot, Successful(s) \in start_trial(c, r).boot
      PROVE  Successful(s) \in c
  BY <1>3, <1>4 DEF start_trial
<1>5. Successful(s) \notin {Active(A), Bootable(A), Try}
  OBVIOUS
<1>6. Successful(s) \in bootctl_boot(c).boot => Successful(s) \in c
  BY <1>3, <1>4, <1>5 DEF bootctl_boot
<1> QED
  BY <1>1, <1>2, <1>6

\* Every step preserves MarksInv, whatever fails.
LEMMA NextMarks == TypeOK /\ MarksInv /\ [Next]_vars => MarksInv'
<1> SUFFICES ASSUME TypeOK, MarksInv, [Next]_vars PROVE MarksInv'
  OBVIOUS
<1>1. CASE Bootloader
  BY <1>1, NoNewMarks DEF Bootloader, write_config, MarksInv
<1>2. CASE Update
  BY <1>2, NoNewMarks DEF Update, write_config, Quiet, MarksInv
<1>3. CASE Done
  BY <1>3, NoNewMarks DEF Done, write_config, Quiet, MarksInv
<1>4. CASE Success
  BY <1>4 DEF TypeOK, Success, write_config, save, Quiet, MarksInv
<1>5. CASE SetProperty
  <2>1. /\ op' = op /\ boot' = boot /\ running' = running /\ image' = image
    BY <1>5 DEF SetProperty
  <2> QED
    BY <1>5, <2>1, SetFacts DEF MarksInv
<1>6. CASE Commit \/ SetFault
  BY <1>6 DEF Commit, SetFault, Return, NoSave, MarksInv
<1>7. CASE StartInstall \/ FinishInstall
  BY <1>7 DEF TypeOK, StartInstall, FinishInstall, MarksInv
<1>8. CASE Reboot \/ ImageCrash \/ PowerLoss
  BY <1>8 DEF Reboot, ImageCrash, PowerLoss, Reset, NoSave, MarksInv
<1>9. CASE UNCHANGED vars
  BY <1>9 DEF vars, MarksInv
<1> QED
  BY <1>1, <1>2, <1>3, <1>4, <1>5, <1>6, <1>7, <1>8, <1>9 DEF Next

\* Wherever the power fails and whichever property calls fail, a save that is
\* not bootctl_success's carries no mark that the store does not have.
THEOREM MarksInvariant == Spec => []MarksInv
<1>1. Init => MarksInv
  BY DEF Init, MarksInv
<1> QED
  BY <1>1, NextMarks, TypeCorrect, PTL DEF Spec

\* Wherever the power fails and whichever property calls fail, a slot gets
\* its mark from bootctl_success only, called by an image that came up.
THEOREM MarksOnlyBySuccess == Spec => MarkedBySuccessOnly
<1>1. TypeOK /\ MarksInv /\ [Next]_vars
        => [\A s \in Slot : Successful(s) \in kv' \ kv
              => op = "success" /\ image[running] = "good"]_vars
  <2> SUFFICES ASSUME TypeOK, MarksInv, Next, NEW s \in Slot,
                      Successful(s) \in kv', Successful(s) \notin kv
               PROVE  op = "success" /\ image[running] = "good"
    OBVIOUS
  <2>1. CASE SetProperty
    BY <2>1, SetFacts DEF MarksInv
  <2>2. CASE ~ SetProperty
    BY <2>2 DEF Next, Bootloader, Commit, SetFault, Return, Success, Update,
                StartInstall, FinishInstall, Done, Reboot, ImageCrash, PowerLoss,
                Quiet
  <2> QED
    BY <2>1, <2>2
<1> QED
  BY <1>1, MarksInvariant, TypeCorrect, PTL DEF Spec, MarkedBySuccessOnly

----------------------------------------------------------------------------
(***************************************************************************)
(* Which images the boot loader starts, without interrupted saves: the     *)
(* invariant behind BadImageTriedOnce and Implements also needs the        *)
(* history of starts and installations.                                    *)
(***************************************************************************)

\* An active slot without mark whose trial is not on record was never started.
TrialRecorded ==
  \A s \in Slot :
    Active(s) \in Config /\ Successful(s) \notin Config /\ Try \notin Config
      => starts[s] = 0

\* The loader has recorded a trial unless it starts a marked slot, and has not
\* chosen an image that was started before and did not come up.
ChosenFresh ==
  op = "boot" => /\ Successful(running) \in boot \/ Try \in boot
                 /\ image[running] # "good" => starts[running] = 0

\* What an installation leaves is whole and was never started.
InstalledFresh ==
  /\ pc \in {"writing", "installed"} => starts[OtherSlot(kv)] = 0
  /\ pc = "installed" => image[OtherSlot(kv)] # "partial"

\* As long as no slot was ever marked, slot a is the one to start and holds the
\* image that the device came with.
FirstSlot ==
  (\A s \in Slot : Successful(s) \notin Config)
    => image[A] = "good" /\ (Config = {} \/ Active(A) \in Config)

\* Whatever happened before a reset, flags and trial record tell the loader
\* which images it has started.
TrialInv ==
  /\ TrialRecorded /\ ChosenFresh /\ InstalledFresh /\ FirstSlot
  /\ BadImageTriedOnce

\* Why bootctl_boot starts the slot it starts: it is marked, or it is on a
\* trial that was not on record, or no slot is marked and it is slot a.
\* Unless the slot is marked the trial is then on record.  A marked slot is
\* started when it is active or when a trial on record is given up.
LEMMA BootChoice ==
  ASSUME NEW c, c = {} \/ WellFormed(c)
  PROVE  LET m == bootctl_boot(c)
         IN  /\ Successful(m.path) \in c \/ Try \in m.boot
             /\ \/ Successful(m.path) \in c
                \/ /\ Active(m.path) \in c /\ Successful(m.path) \notin c
                   /\ Try \notin c
                \/ m.path = A /\ \A s \in Slot : Successful(s) \notin c
             /\ Successful(m.path) \in c
                  => \/ Active(m.path) \in c
                     \/ Try \in c /\ \E s \in Slot : on_trial(c, s)
<1> USE Slots, FlagsDiffer
<1>1. CASE c = {}
  <2>1. bootctl_boot(c) = success_slot({Active(A), Bootable(A), Try})
    BY <1>1 DEF bootctl_boot
  <2>2. success_slot({Active(A), Bootable(A), Try})
          = [path |-> A, boot |-> {Active(A), Bootable(A), Try}
                                    \union {Active(A), Bootable(A)}]
    BY DEF success_slot
  <2> QED
    BY <1>1, <2>1, <2>2
<1>2. CASE WellFormed(c)
  <2>1. PICK r \in Slot : \A s \in Slot : Active(s) \in c <=> s = r
    BY <1>2 DEF WellFormed, OneActive
  <2>2. Bootable(r) \in c
    BY <1>2, <2>1 DEF WellFormed
  <2>3. CASE Successful(r) \in c
    <3>1. bootctl_boot(c) = success_slot(c)
      BY <2>1, <2>3 DEF bootctl_boot, on_trial
    <3>2. success_slot(c) = [path |-> r, boot |-> c]
      BY <2>1, <2>3 DEF success_slot
    <3>3. Active(r) \in c
      BY <2>1
    <3> QED
      BY <2>3, <3>1, <3>2, <3>3
  <2>4. CASE Successful(r) \notin c
    <3>1. bootctl_boot(c) = start_trial(c, r)
      BY <2>1, <2>2, <2>4 DEF bootctl_boot, on_trial
    <3>2. CASE Try \in c
      <4>0. on_trial(c, r)
        BY <2>1, <2>2, <2>4 DEF on_trial
      <4> DEFINE d == c \ {Active(r), Bootable(r)}
      <4>1. start_trial(c, r) = success_slot(d)
        BY <3>2 DEF start_trial
      <4>2. /\ Try \in d
            /\ \A s \in Slot : /\ Active(s) \notin d
                               /\ Successful(s) \in d <=> Successful(s) \in c
        BY <2>1, <3>2
      <4> HIDE DEF d
      <4>3. LET m == success_slot(d)
            IN  /\ Try \in m.boot
                /\ \/ Successful(m.path) \in d
                   \/ m.path = A /\ \A s \in Slot : Successful(s) \notin d
        BY <4>2 DEF success_slot
      <4>4. success_slot(d).path \in Slot
        BY DEF success_slot
      <4> QED
        BY <3>1, <3>2, <4>0, <4>1, <4>2, <4>3, <4>4
    <3>3. CASE Try \notin c
      BY <2>1, <2>4, <3>1, <3>3 DEF start_trial
    <3> QED
      BY <3>2, <3>3
  <2> QED
    BY <2>3, <2>4
<1> QED
  BY <1>1, <1>2

\* The initial states satisfy the invariant on trials.
LEMMA InitTrials == Init => TrialInv
BY Slots DEF Init, TrialInv, TrialRecorded, ChosenFresh, InstalledFresh, FirstSlot,
             BadImageTriedOnce, Config

\* The commands that open a save.
LEMMA CommandTrials ==
  TypeOK /\ SlotInv /\ TrialInv /\ (Bootloader \/ Success \/ Update \/ Done)
    => TrialInv'
<1> SUFFICES ASSUME TypeOK, SlotInv, TrialInv,
                    Bootloader \/ Success \/ Update \/ Done
             PROVE  TrialInv'
  OBVIOUS
<1>1. starts' = starts /\ image' = image /\ kv' = kv
  BY DEF Bootloader, Success, Update, Done, Quiet
<1>2. BadImageTriedOnce'
  BY <1>1 DEF TrialInv, BadImageTriedOnce
<1>3. CASE Bootloader
  <2> DEFINE m == bootctl_boot(kv)
  <2>1. kv = {} \/ WellFormed(kv)
    BY <1>3 DEF SlotInv, ConfigWellFormed, Config, Bootloader
  <2>2. /\ m.path \in Slot /\ WellFormed(m.boot) /\ Active(m.path) \in m.boot
        /\ \A s \in Slot : Successful(s) \in m.boot <=> Successful(s) \in kv
    BY <2>1, BootFacts
  <2>3. /\ Successful(m.path) \in kv \/ Try \in m.boot
        /\ \/ Successful(m.path) \in kv
           \/ /\ Active(m.path) \in kv /\ Successful(m.path) \notin kv
              /\ Try \notin kv
           \/ m.path = A /\ \A s \in Slot : Successful(s) \notin kv
    BY <2>1, BootChoice
  <2>4. /\ pc' = "saving" /\ op' = "boot" /\ boot' = m.boot /\ running' = m.path
        /\ pc = "reset" /\ Config = kv /\ Config' = m.boot
    BY <1>3 DEF Bootloader, write_config, Config
  <2> HIDE DEF m
  <2>5. \A s \in Slot : Active(s) \in m.boot => s = m.path
    BY <2>2 DEF WellFormed, OneActive
  <2>6. TrialRecorded'
    BY <1>1, <2>2, <2>3, <2>4, <2>5 DEF TrialRecorded
  <2>7. image[m.path] # "good" => starts[m.path] = 0
    <3>1. CASE Successful(m.path) \in kv
      BY <2>2, <3>1 DEF SlotInv, MarksGood
    <3>2. CASE Active(m.path) \in kv /\ Successful(m.path) \notin kv /\ Try \notin kv
      BY <2>2, <2>4, <3>2 DEF TrialInv, TrialRecorded
    <3>3. CASE m.path = A /\ \A s \in Slot : Successful(s) \notin kv
      BY <2>4, <3>3 DEF TrialInv, FirstSlot
    <3> QED
      BY <2>3, <3>1, <3>2, <3>3
  <2>8. ChosenFresh' /\ InstalledFresh'
    BY <1>1, <2>2, <2>3, <2>4, <2>7 DEF ChosenFresh, InstalledFresh
  <2>9. FirstSlot'
    <3> SUFFICES ASSUME \A s \in Slot : Successful(s) \notin kv
                 PROVE  image[A] = "good" /\ Active(A) \in m.boot
      BY <1>1, <2>2, <2>4 DEF FirstSlot
    <3>1. image[A] = "good" /\ (kv = {} \/ Active(A) \in kv)
      BY <2>4 DEF TrialInv, FirstSlot
    <3>2. CASE m.path = A
      BY <2>2, <3>1, <3>2
    <3>3. CASE Active(m.path) \in kv
      <4>1. WellFormed(kv)
        BY <2>1, <3>3
      <4>2. m.path = A
        BY <2>2, <3>1, <3>3, <4>1, Slots DEF WellFormed, OneActive
      <4> QED
        BY <2>2, <3>1, <4>2
    <3> QED
      BY <2>2, <2>3, <3>2, <3>3
  <2> QED
    BY <1>2, <2>6, <2>8, <2>9 DEF TrialInv
<1>4. ASSUME pc \in {"booted", "up", "installed"}
      PROVE  /\ running \in Slot /\ WellFormed(kv) /\ Active(running) \in kv
             /\ Config = kv
  BY <1>4 DEF TypeOK, SlotInv, ConfigWellFormed, RunningActive, Config
<1>5. CASE Success /\ success_due(kv)
  <2> DEFINE d == bootctl_success(kv)
  <2>1. /\ WellFormed(d) /\ Active(running) \in d
        /\ \A s \in Slot : Successful(s) \in d
                             <=> s = running \/ Successful(s) \in kv
    BY <1>4, <1>5, SuccessFacts DEF Success
  <2>2. /\ pc' = "saving" /\ op' = "success" /\ boot' = d /\ Config' = d
        /\ running \in Slot
    BY <1>4, <1>5 DEF Success, write_config, Config
  <2> HIDE DEF d
  <2>3. \A s \in Slot : Active(s) \in d => s = running
    BY <2>1, <2>2 DEF WellFormed, OneActive
  <2>4. TrialRecorded' /\ ChosenFresh' /\ InstalledFresh' /\ FirstSlot'
    BY <2>1, <2>2, <2>3 DEF TrialRecorded, ChosenFresh, InstalledFresh, FirstSlot
  <2> QED
    BY <1>2, <2>4 DEF TrialInv
<1>6. CASE Success /\ ~ success_due(kv)
  <2>1. pc' = "up" /\ op' = op /\ op = "none" /\ Config' = kv /\ Config = kv
    BY <1>1, <1>4, <1>6 DEF TypeOK, Success, save, Config
  <2>2. TrialRecorded' /\ ChosenFresh' /\ InstalledFresh' /\ FirstSlot'
    BY <1>1, <2>1 DEF TrialInv, TrialRecorded, ChosenFresh, InstalledFresh,
                      FirstSlot
  <2> QED
    BY <1>2, <2>2 DEF TrialInv
<1>7. CASE Update
  <2> DEFINE d == bootctl_update(kv)
  <2>1. Successful(running) \in kv /\ pc = "up"
    BY <1>7 DEF SlotInv, RunningMarked, Update
  <2>2. /\ WellFormed(d) /\ Active(running) \in d /\ Successful(running) \in d
    BY <1>4, <2>1, UpdateFacts
  <2>3. /\ pc' = "saving" /\ op' = "update" /\ Config' = d /\ running \in Slot
    BY <1>4, <1>7, <2>1 DEF Update, write_config, Config
  <2> HIDE DEF d
  <2>4. \A s \in Slot : Active(s) \in d => s = running
    BY <2>2, <2>3 DEF WellFormed, OneActive
  <2>5. TrialRecorded' /\ ChosenFresh' /\ InstalledFresh' /\ FirstSlot'
    BY <2>2, <2>3, <2>4 DEF TrialRecorded, ChosenFresh, InstalledFresh, FirstSlot
  <2> QED
    BY <1>2, <2>5 DEF TrialInv
<1>8. CASE Done
  <2> DEFINE d == bootctl_done(kv)
             o == OtherSlot(kv)
  <2>1. Successful(running) \in kv /\ pc = "installed"
    BY <1>8 DEF SlotInv, RunningMarked, Done
  <2>2. /\ WellFormed(d)
        /\ \A s \in Slot : Successful(s) \in d <=> Successful(s) \in kv
    BY <1>4, <2>1, DoneFacts
  <2>3. /\ pc' = "saving" /\ op' = "done" /\ Config' = d /\ running \in Slot
    BY <1>4, <1>8, <2>1 DEF Done, write_config, Config
  <2>4. \A s \in Slot : Active(s) \in d => s = o
    <3>1. CurrentSlot(kv) = running /\ o \in Slot /\ o # running
      BY <1>4, <2>1, ActiveIsCurrent
    <3>2. Active(running) \notin d
      BY <3>1 DEF bootctl_done
    <3> QED
      BY <2>3, <3>1, <3>2, Slots
  <2>5. starts[o] = 0
    BY <2>1 DEF TrialInv, InstalledFresh
  <2> HIDE DEF d, o
  <2>6. TrialRecorded' /\ ChosenFresh' /\ InstalledFresh' /\ FirstSlot'
    BY <1>1, <2>1, <2>2, <2>3, <2>4, <2>5
       DEF TrialRecorded, ChosenFresh, InstalledFresh, FirstSlot
  <2> QED
    BY <1>2, <2>6 DEF TrialInv
<1> QED
  BY <1>3, <1>5, <1>6, <1>7, <1>8

\* The calls of a save.  Its commit counts the start of the loader's choice.
LEMMA SaveTrials ==
  TypeOK /\ SlotInv /\ TrialInv /\ (SetProperty \/ Commit) => TrialInv'
<1> SUFFICES ASSUME TypeOK, SlotInv, TrialInv, SetProperty \/ Commit
             PROVE  TrialInv'
  OBVIOUS
<1>1. CASE SetProperty
  <2>1. /\ pc = "saving" /\ pc' = pc /\ op' = op /\ boot' = boot
        /\ running' = running /\ image' = image /\ starts' = starts
    BY <1>1 DEF SetProperty
  <2>2. Config' = Config
    BY <2>1 DEF Config
  <2> QED
    BY <2>1, <2>2 DEF TrialInv, TrialRecorded, ChosenFresh, InstalledFresh,
                      FirstSlot, BadImageTriedOnce
<1>2. CASE Commit
  <2>1. kv = boot
    BY <1>2, SaveDone DEF Commit, SlotInv
  <2>2. /\ pc = "saving" /\ op \in {"boot", "success", "update", "done"}
        /\ pc' \in {"booted", "up", "updating", "switched"} /\ op' = "none"
        /\ kv' = kv /\ running' = running /\ image' = image /\ running \in Slot
    BY <1>2 DEF TypeOK, Commit, Return, NoSave, AfterSave
  <2>3. Config' = Config /\ Config = boot
    BY <2>1, <2>2 DEF Config
  <2>4. ChosenFresh' /\ InstalledFresh' /\ FirstSlot'
    BY <2>2, <2>3 DEF TrialInv, ChosenFresh, InstalledFresh, FirstSlot
  <2>5. CASE op = "boot"
    <3>1. /\ \A s \in Slot : s # running => starts'[s] = starts[s]
          /\ starts'[running] <= starts[running] + 1
          /\ \A s \in Slot : starts[s] \in 0..2 /\ starts'[s] \in 0..2
      BY <1>2, <2>2, <2>5 DEF TypeOK, Commit, Return, StartsCap
    <3>2. TrialRecorded'
      <4>1. Successful(running) \in boot \/ Try \in boot
        BY <2>5 DEF TrialInv, ChosenFresh
      <4> QED
        BY <2>3, <3>1, <4>1 DEF TrialInv, TrialRecorded
    <3>3. BadImageTriedOnce'
      <4>1. image[running] # "good" => starts[running] = 0
        BY <2>5 DEF TrialInv, ChosenFresh
      <4>2. image[running] # "good" => starts'[running] <= 1
        BY <2>2, <3>1, <4>1
      <4> QED
        BY <2>2, <3>1, <4>2 DEF TrialInv, BadImageTriedOnce
    <3> QED
      BY <2>4, <3>2, <3>3 DEF TrialInv
  <2>6. CASE op # "boot"
    <3>1. starts' = starts
      BY <1>2, <2>6 DEF Commit, Return
    <3>2. TrialRecorded' /\ BadImageTriedOnce'
      BY <2>2, <2>3, <3>1 DEF TrialInv, TrialRecorded, BadImageTriedOnce
    <3> QED
      BY <2>4, <3>2 DEF TrialInv
  <2> QED
    BY <2>5, <2>6
<1> QED
  BY <1>1, <1>2

\* An installation replaces an image that no trial is about.
LEMMA InstallTrials ==
  TypeOK /\ SlotInv /\ TrialInv /\ (StartInstall \/ FinishInstall) => TrialInv'
<1> SUFFICES ASSUME TypeOK, SlotInv, TrialInv, StartInstall \/ FinishInstall
             PROVE  TrialInv'
  OBVIOUS
<1> DEFINE o == OtherSlot(kv)
<1>1. /\ pc \in {"updating", "writing"} /\ pc' \in {"writing", "installed"}
      /\ kv' = kv /\ running' = running /\ op' = "none" /\ running \in Slot
      /\ Config = kv /\ Config' = kv
  BY DEF TypeOK, StartInstall, FinishInstall, Quiet, Config
<1>2. o \in Slot /\ o # running /\ Successful(running) \in kv
  BY <1>1, TargetFacts DEF SlotInv, RunningMarked
<1>3. /\ \A s \in Slot : s # o => starts'[s] = starts[s] /\ image'[s] = image[s]
      /\ starts'[o] = 0
      /\ pc' = "installed" => image'[o] # "partial"
  <2>1. CASE StartInstall
    BY <1>2, <2>1 DEF TypeOK, StartInstall
  <2>2. CASE FinishInstall
    BY <1>2, <2>2, OutcomesAssumption
       DEF TypeOK, TrialInv, InstalledFresh, FinishInstall, Quiet
  <2> QED
    BY <2>1, <2>2
<1> HIDE DEF o
<1>4. TrialRecorded' /\ FirstSlot'
  BY <1>1, <1>2, <1>3 DEF TrialInv, TrialRecorded, FirstSlot
<1>5. ChosenFresh' /\ BadImageTriedOnce'
  BY <1>1, <1>2, <1>3 DEF TrialInv, ChosenFresh, BadImageTriedOnce
<1>6. InstalledFresh'
  BY <1>1, <1>3 DEF InstalledFresh, o
<1> QED
  BY <1>4, <1>5, <1>6 DEF TrialInv

\* Every step preserves the invariant on trials when saves are not interrupted.
LEMMA NextTrials ==
  ASSUME ~ PowerCutInSave, MaxFaults = 0
  PROVE  TypeOK /\ SlotInv /\ TrialInv /\ [Next]_vars => TrialInv'
<1> SUFFICES ASSUME TypeOK, SlotInv, TrialInv, [Next]_vars PROVE TrialInv'
  OBVIOUS
<1>1. CASE Bootloader \/ Success \/ Update \/ Done
  BY <1>1, CommandTrials
<1>2. CASE SetProperty \/ Commit
  BY <1>2, SaveTrials
<1>3. CASE SetFault
  BY <1>3 DEF SetFault, TypeOK
<1>4. CASE StartInstall \/ FinishInstall
  BY <1>4, InstallTrials
<1>5. CASE Reboot \/ ImageCrash \/ PowerLoss
  <2>1. /\ pc # "saving" /\ pc' = "reset" /\ op' = "none"
        /\ kv' = kv /\ image' = image /\ starts' = starts
    BY <1>5 DEF Reboot, ImageCrash, PowerLoss, Reset, NoSave, Quiet
  <2>2. Config' = Config
    BY <2>1 DEF Config
  <2> QED
    BY <2>1, <2>2 DEF TrialInv, TrialRecorded, ChosenFresh, InstalledFresh,
                      FirstSlot, BadImageTriedOnce
<1>6. CASE UNCHANGED vars
  BY <1>6 DEF vars, TrialInv, TrialRecorded, ChosenFresh, InstalledFresh,
              FirstSlot, BadImageTriedOnce, Config
<1> QED
  BY <1>1, <1>2, <1>3, <1>4, <1>5, <1>6 DEF Next

\* When no save is interrupted, the flags and the trial record always tell which
\* images were started, for any number of power losses and upgrades.
THEOREM TrialsInvariant ==
  ASSUME ~ PowerCutInSave, MaxFaults = 0
  PROVE  Spec => []TrialInv
BY InitTrials, NextTrials, TypeCorrect, SlotsInvariant, PTL DEF Spec

\* Without an interrupted save bootctl_boot gives an image that does not come up
\* one try.
THEOREM OneTryOnly ==
  ASSUME ~ PowerCutInSave, MaxFaults = 0
  PROVE  Spec => []BadImageTriedOnce
<1>1. TrialInv => BadImageTriedOnce
  BY DEF TrialInv
<1> QED
  BY <1>1, TrialsInvariant, PTL
----------------------------------------------------------------------------
(* The refinement.                                                         *)

\* The initial states are initial states of an A/B upgrade.
LEMMA InitRefines == Init => AB!Init
BY Slots DEF Init, AB!Init, phaseBar, targetBar, confirmedBar, triedBar, Config,
             Image, Slot

\* In a well-formed configuration the target is the active slot.
LEMMA TargetActive ==
  ASSUME NEW r \in Slot, WellFormed(Config), Active(r) \in Config
  PROVE  targetBar = r
BY Slots DEF WellFormed, OneActive, targetBar

\* bootctl_boot chooses a slot that an A/B upgrade may choose, unless a stale try
\* flag makes it give up a slot that was not started.
LEMMA BootloaderRefines ==
  TypeOK /\ SlotInv /\ TrialInv /\ Bootloader
    => AB!Choose \/ AB!ChooseAgain \/ (StaleTry /\ AB!GiveUp)
<1> SUFFICES ASSUME TypeOK, SlotInv, TrialInv, Bootloader
             PROVE  AB!Choose \/ AB!ChooseAgain \/ (StaleTry /\ AB!GiveUp)
  OBVIOUS
<1> DEFINE m == bootctl_boot(kv)
<1>1. /\ pc = "reset" /\ pc' = "saving" /\ op' = "boot" /\ boot' = m.boot
      /\ running' = m.path /\ image' = image /\ starts' = starts
      /\ Config = kv /\ Config' = m.boot
  BY DEF Bootloader, write_config, Config
<1>2. kv = {} \/ WellFormed(kv)
  BY <1>1 DEF SlotInv, ConfigWellFormed
<1>3. /\ m.path \in Slot /\ WellFormed(m.boot) /\ Active(m.path) \in m.boot
      /\ \A s \in Slot : Successful(s) \in m.boot <=> Successful(s) \in kv
  BY <1>2, BootFacts
<1>4. \/ Successful(m.path) \in kv
      \/ Active(m.path) \in kv /\ Successful(m.path) \notin kv /\ Try \notin kv
      \/ m.path = A /\ \A s \in Slot : Successful(s) \notin kv
  BY <1>2, BootChoice
<1>a. Successful(m.path) \in kv
        => \/ Active(m.path) \in kv
           \/ Try \in kv /\ \E s \in Slot : on_trial(kv, s)
  BY <1>2, BootChoice
<1> HIDE DEF m
<1>5. /\ phaseBar = "off" /\ phaseBar' = "chosen"
      /\ confirmedBar' = confirmedBar /\ triedBar' = triedBar
  BY <1>1, <1>3 DEF phaseBar, confirmedBar, triedBar
<1>6. targetBar' = m.path
  BY <1>1, <1>3, Slots DEF WellFormed, OneActive, targetBar
<1>7. CASE Successful(m.path) \in kv
  <2>1. m.path \in confirmedBar
    BY <1>1, <1>3, <1>7 DEF confirmedBar
  <2>2. CASE Active(m.path) \in kv
    <3>1. targetBar = m.path
      BY <1>1, <1>2, <1>3, <2>2, TargetActive
    <3> QED
      BY <1>1, <1>5, <1>6, <2>1, <3>1 DEF AB!Choose, AB!ChooseFrom, AB!Eligible
  <2>3. ASSUME NEW s \in Slot, Try \in kv, on_trial(kv, s)
        PROVE  AB!Choose \/ (StaleTry /\ AB!GiveUp)
    <3>1. Active(s) \in kv /\ Successful(s) \notin kv
      BY <2>3 DEF on_trial
    <3>2. targetBar = s /\ s \notin confirmedBar
      BY <1>1, <1>2, <3>1, TargetActive DEF confirmedBar
    <3>3. CASE s \in triedBar
      BY <1>1, <1>5, <1>6, <2>1, <3>2, <3>3 DEF AB!Choose, AB!ChooseFrom, AB!Eligible
    <3>4. CASE s \notin triedBar
      <4>1. starts[s] = 0
        BY <3>4 DEF triedBar, TypeOK, StartsCap
      <4>2. StaleTry
        BY <2>3, <4>1 DEF StaleTry
      <4>3. AB!GiveUp
        BY <1>1, <1>5, <1>6, <2>1, <3>2, <3>4 DEF AB!GiveUp, AB!ChooseFrom
      <4> QED
        BY <4>2, <4>3
    <3> QED
      BY <3>3, <3>4
  <2> QED
    BY <1>7, <1>a, <2>2, <2>3
<1>8. CASE /\ Active(m.path) \in kv /\ Successful(m.path) \notin kv
           /\ Try \notin kv
  <2>1. targetBar = m.path
    BY <1>1, <1>2, <1>3, <1>8, TargetActive
  <2>2. m.path \notin triedBar
    BY <1>1, <1>3, <1>8 DEF TrialInv, TrialRecorded, triedBar
  <2> QED
    BY <1>1, <1>5, <1>6, <2>1, <2>2 DEF AB!Choose, AB!ChooseFrom, AB!Eligible
<1>9. CASE m.path = A /\ \A s \in Slot : Successful(s) \notin kv
  <2>1. kv = {} \/ Active(A) \in kv
    BY <1>1, <1>9 DEF TrialInv, FirstSlot
  <2>2. targetBar = A
    BY <1>1, <1>2, <2>1, Slots, TargetActive DEF targetBar
  <2>3. confirmedBar = {}
    BY <1>1, <1>9 DEF confirmedBar
  <2> QED
    BY <1>1, <1>5, <1>6, <1>9, <2>2, <2>3 DEF AB!ChooseAgain
<1> QED
  BY <1>4, <1>7, <1>8, <1>9

\* The calls of a save are invisible, except that the end of bootctl_boot is the
\* start of the slot chosen.
LEMMA SaveRefines ==
  TypeOK /\ SlotInv /\ (SetProperty \/ Commit)
    => AB!Start \/ UNCHANGED AB!vars
<1> SUFFICES ASSUME TypeOK, SlotInv, SetProperty \/ Commit
             PROVE  AB!Start \/ UNCHANGED AB!vars
  OBVIOUS
<1>1. CASE SetProperty
  <2>1. /\ pc = "saving" /\ pc' = pc /\ op' = op /\ boot' = boot
        /\ running' = running /\ image' = image /\ starts' = starts
    BY <1>1 DEF SetProperty
  <2> QED
    BY <2>1 DEF AB!vars, phaseBar, targetBar, confirmedBar, triedBar, Config
<1>2. CASE Commit
  <2>1. kv = boot
    BY <1>2, SaveDone DEF Commit, SlotInv
  <2>2. /\ pc = "saving" /\ op \in {"boot", "success", "update", "done"}
        /\ pc' \in {"booted", "up", "updating", "switched"} /\ op' = "none"
        /\ kv' = kv /\ running' = running /\ image' = image /\ running \in Slot
    BY <1>2 DEF TypeOK, Commit, Return, NoSave, AfterSave
  <2>3. Config' = Config
    BY <2>1, <2>2 DEF Config
  <2>4. targetBar' = targetBar /\ confirmedBar' = confirmedBar /\ phaseBar' = "on"
    BY <2>2, <2>3 DEF targetBar, confirmedBar, phaseBar
  <2>5. CASE op = "boot"
    <3>1. /\ \A s \in Slot : s # running => starts'[s] = starts[s]
          /\ starts'[running] > 0
      BY <1>2, <2>2, <2>5 DEF TypeOK, Commit, Return, StartsCap
    <3>2. triedBar' = triedBar \union {running}
      BY <2>2, <3>1 DEF triedBar
    <3>3. phaseBar = "chosen"
      BY <2>2, <2>5 DEF phaseBar
    <3> QED
      BY <2>2, <2>4, <3>2, <3>3 DEF AB!Start
  <2>6. CASE op # "boot"
    <3>1. triedBar' = triedBar /\ phaseBar = "on"
      BY <1>2, <2>2, <2>6 DEF Commit, Return, triedBar, phaseBar
    <3> QED
      BY <2>2, <2>4, <3>1 DEF AB!vars
  <2> QED
    BY <2>5, <2>6
<1> QED
  BY <1>1, <1>2

\* bootctl_success confirms, bootctl_update prepares, bootctl_done switches.
LEMMA CommandRefines ==
  TypeOK /\ SlotInv /\ TrialInv /\ (Success \/ Update \/ Done)
    => AB!Confirm \/ AB!Prepare \/ AB!Switch \/ UNCHANGED AB!vars
<1> SUFFICES ASSUME TypeOK, SlotInv, TrialInv, Success \/ Update \/ Done
             PROVE  AB!Confirm \/ AB!Prepare \/ AB!Switch \/ UNCHANGED AB!vars
  OBVIOUS
<1>1. /\ pc \in {"booted", "up", "installed"} /\ op = "none"
      /\ running \in Slot /\ WellFormed(kv) /\ Active(running) \in kv
      /\ Config = kv
  BY DEF TypeOK, SlotInv, ConfigWellFormed, RunningActive, Config, Success,
         Update, Done
<1>2. /\ running' = running /\ image' = image /\ starts' = starts /\ kv' = kv
      /\ pc' \in {"saving", "up"} /\ op' # "boot"
  BY <1>1 DEF Success, Update, Done, Quiet, write_config, save
<1>3. /\ phaseBar = "on" /\ phaseBar' = "on" /\ triedBar' = triedBar
      /\ targetBar = running
  BY <1>1, <1>2, TargetActive DEF phaseBar, triedBar
<1>4. CASE Success /\ success_due(kv)
  <2> DEFINE d == bootctl_success(kv)
  <2>1. /\ WellFormed(d) /\ Active(running) \in d
        /\ \A s \in Slot : Successful(s) \in d
                             <=> s = running \/ Successful(s) \in kv
    BY <1>1, SuccessFacts
  <2>2. Config' = d /\ image[running] = "good"
    BY <1>4 DEF Success, write_config, Config
  <2> HIDE DEF d
  <2>3. targetBar' = running
    BY <1>1, <2>1, <2>2, Slots DEF WellFormed, OneActive, targetBar
  <2>4. confirmedBar' = confirmedBar \union {running}
    BY <1>1, <2>1, <2>2 DEF confirmedBar
  <2>5. AB!Confirm
    BY <1>2, <1>3, <2>2, <2>3, <2>4 DEF AB!Confirm
  <2> QED
    BY <2>5
<1>5. CASE Success /\ ~ success_due(kv)
  <2>1. Config' = Config
    BY <1>1, <1>2, <1>5 DEF Success, Config
  <2> QED
    BY <1>2, <1>3, <2>1 DEF AB!vars, targetBar, confirmedBar
<1>6. CASE Update
  <2> DEFINE d == bootctl_update(kv)
             o == OtherSlot(kv)
  <2>1. Successful(running) \in kv
    BY <1>6 DEF SlotInv, RunningMarked, Update
  <2>2. WellFormed(d) /\ Active(running) \in d
    BY <1>1, UpdateFacts
  <2>3. o \in Slot /\ o # running
    BY <1>1, ActiveIsCurrent
  <2>4. \A s \in Slot : Successful(s) \in d <=> Successful(s) \in kv /\ s # o
    BY <2>3, FlagsDiffer DEF bootctl_update
  <2>5. Config' = d
    BY <1>6 DEF Update, write_config, Config
  <2> HIDE DEF d, o
  <2>6. targetBar' = running
    BY <1>1, <2>2, <2>5, Slots DEF WellFormed, OneActive, targetBar
  <2>7. confirmedBar' = confirmedBar \ {o} /\ running \in confirmedBar
    BY <1>1, <2>1, <2>4, <2>5 DEF confirmedBar
  <2>8. AB!Prepare
    BY <1>2, <1>3, <2>3, <2>6, <2>7 DEF AB!Prepare
  <2> QED
    BY <2>8
<1>7. CASE Done
  <2> DEFINE d == bootctl_done(kv)
             o == OtherSlot(kv)
  <2>1. /\ WellFormed(d)
        /\ \A s \in Slot : Successful(s) \in d <=> Successful(s) \in kv
    BY <1>1, DoneFacts
  <2>2. o \in Slot /\ o # running /\ CurrentSlot(kv) = running
    BY <1>1, ActiveIsCurrent
  <2>3. Active(o) \in d
    BY <1>1, <2>2, FlagsDiffer DEF bootctl_done
  <2>4. Config' = d
    BY <1>7 DEF Done, write_config, Config
  <2>5. image[o] \in Image \ {"partial"}
    BY <1>7, <2>2 DEF TypeOK, TrialInv, InstalledFresh, Done
  <2> HIDE DEF d, o
  <2>6. targetBar' = o
    BY <2>1, <2>2, <2>3, <2>4, Slots DEF WellFormed, OneActive, targetBar
  <2>7. confirmedBar' = confirmedBar
    BY <1>1, <2>1, <2>4 DEF confirmedBar
  <2>8. AB!Switch
    BY <1>2, <1>3, <2>2, <2>5, <2>6, <2>7 DEF AB!Switch
  <2> QED
    BY <2>8
<1> QED
  BY <1>4, <1>5, <1>6, <1>7

\* An installation writes a slot that an A/B upgrade may write.
LEMMA InstallRefines ==
  TypeOK /\ SlotInv /\ TrialInv /\ (StartInstall \/ FinishInstall) => AB!Write
<1> SUFFICES ASSUME TypeOK, SlotInv, TrialInv, StartInstall \/ FinishInstall
             PROVE  AB!Write
  OBVIOUS
<1> DEFINE o == OtherSlot(kv)
<1>1. /\ pc \in {"updating", "writing"} /\ pc' \in {"writing", "installed"}
      /\ kv' = kv /\ running' = running /\ op = "none" /\ op' = op
      /\ Config = kv /\ Config' = kv
      /\ running \in Slot /\ WellFormed(kv) /\ Active(running) \in kv
  BY DEF TypeOK, SlotInv, ConfigWellFormed, RunningActive, Config, StartInstall,
         FinishInstall, Quiet
<1>2. o \in Slot /\ o # running /\ Successful(o) \notin kv
  BY <1>1, TargetFacts
<1>3. /\ \A s \in Slot : s # o => starts'[s] = starts[s]
      /\ starts'[o] = 0
      /\ \E c \in Image : image' = [image EXCEPT ![o] = c]
  <2>1. CASE StartInstall
    BY <1>2, <2>1 DEF TypeOK, StartInstall, Image
  <2>2. CASE FinishInstall
    BY <1>2, <2>2, OutcomesAssumption
       DEF TypeOK, TrialInv, InstalledFresh, FinishInstall, Quiet, Image
  <2> QED
    BY <2>1, <2>2
<1>4. /\ phaseBar = "on" /\ phaseBar' = "on"
      /\ targetBar = running /\ targetBar' = targetBar
      /\ confirmedBar' = confirmedBar /\ o \notin confirmedBar
  BY <1>1, <1>2, TargetActive DEF phaseBar, targetBar, confirmedBar
<1>5. triedBar' = triedBar \ {o}
  BY <1>2, <1>3 DEF triedBar
<1> HIDE DEF o
<1> QED
  BY <1>1, <1>2, <1>3, <1>4, <1>5 DEF AB!Write

\* Every step of the device is a step of an A/B upgrade or invisible there, or
\* gives up an untried target for a stale try flag.
LEMMA NextRefines ==
  ASSUME ~ PowerCutInSave, MaxFaults = 0
  PROVE  TypeOK /\ SlotInv /\ TrialInv /\ [Next]_vars
           => [AB!Next \/ (StaleTry /\ AB!GiveUp)]_(AB!vars)
<1> SUFFICES ASSUME TypeOK, SlotInv, TrialInv, [Next]_vars
             PROVE  AB!Next \/ (StaleTry /\ AB!GiveUp) \/ UNCHANGED AB!vars
  OBVIOUS
<1>1. CASE Bootloader
  BY <1>1, BootloaderRefines DEF AB!Next
<1>2. CASE SetProperty \/ Commit
  BY <1>2, SaveRefines DEF AB!Next
<1>3. CASE SetFault
  BY <1>3 DEF SetFault, TypeOK
<1>4. CASE Success \/ Update \/ Done
  BY <1>4, CommandRefines DEF AB!Next
<1>5. CASE StartInstall \/ FinishInstall
  BY <1>5, InstallRefines DEF AB!Next
<1>6. CASE Reboot \/ ImageCrash \/ PowerLoss
  <2>1. /\ pc # "saving" /\ pc # "reset" /\ pc' = "reset" /\ op = "none"
        /\ kv' = kv /\ image' = image /\ starts' = starts /\ running' = running
    BY <1>6 DEF TypeOK, Reboot, ImageCrash, PowerLoss, Reset, Quiet
  <2>2. /\ phaseBar = "on" /\ phaseBar' = "off" /\ targetBar' = targetBar
        /\ confirmedBar' = confirmedBar /\ triedBar' = triedBar
    BY <2>1 DEF phaseBar, targetBar, confirmedBar, triedBar, Config
  <2> QED
    BY <2>1, <2>2 DEF AB!Next, AB!Off
<1>7. CASE UNCHANGED vars
  BY <1>7 DEF vars, AB!vars, phaseBar, targetBar, confirmedBar, triedBar, Config
<1> QED
  BY <1>1, <1>2, <1>3, <1>4, <1>5, <1>6, <1>7 DEF Next

\* bootctl's flags, its loader and its commands implement an A/B upgrade that
\* starts the target unless its trial failed, for any number of power losses
\* outside of saves, of upgrades and of bad images; the steps that are none of it
\* are those of StaleTry.
THEOREM Refinement ==
  ASSUME ~ PowerCutInSave, MaxFaults = 0
  PROVE  Spec => Implements
BY InitRefines, NextRefines, TypeCorrect, SlotsInvariant, TrialsInvariant, PTL
   DEF Spec, Implements

\* A device on which the try flag never outlives its trial into the next one
\* is such an A/B upgrade without exception.
THEOREM PromisedUpgrade ==
  ASSUME ~ PowerCutInSave, MaxFaults = 0
  PROVE  Spec /\ [][~ StaleTry]_vars => AB!Spec
<1>1. TypeOK /\ SlotInv /\ TrialInv /\ [Next]_vars /\ [~ StaleTry]_vars
        => [AB!Next]_(AB!vars)
  <2> SUFFICES ASSUME TypeOK, SlotInv, TrialInv, [Next]_vars, [~ StaleTry]_vars
               PROVE  AB!Next \/ UNCHANGED AB!vars
    OBVIOUS
  <2>1. CASE UNCHANGED vars
    BY <2>1 DEF vars, AB!vars, phaseBar, targetBar, confirmedBar, triedBar, Config
  <2>2. CASE ~ StaleTry
    BY <2>2, NextRefines
  <2> QED
    BY <2>1, <2>2
<1> QED
  BY <1>1, InitRefines, TypeCorrect, SlotsInvariant, TrialsInvariant, PTL
     DEF Spec, AB!Spec

----------------------------------------------------------------------------
(***************************************************************************)
(* Saves cut off by power failures between any two calls: a half-written   *)
(* image is never started.  The slot that holds it has no flag, in the     *)
(* store and in what is being saved, and the loader prefers the other one. *)
(***************************************************************************)

SomeActive(c) == Active(A) \in c \/ Active(B) \in c

\* Configurations in which the loader cannot start slot s.  Slot a is the
\* loader's last resort, so that slot b has to be active and marked then.
Spare(s, c) ==
  /\ Active(s) \notin c /\ Bootable(s) \notin c /\ Successful(s) \notin c
  /\ s = A => Active(B) \in c /\ Successful(B) \in c

PartialSpare ==
  \A s \in Slot : image[s] = "partial"
                  => Spare(s, kv) /\ (pc = "saving" => Spare(s, boot))

\* How the commands get there: from its start on the system has an active slot,
\* bootctl success marks it, bootctl update clears the other one.
SparePrepared ==
  /\ op = "boot" \/ pc = "booted" => image[running] # "partial"
  /\ pc \in {"booted", "up", "updating", "writing"} => SomeActive(kv)
  /\ op \in {"boot", "success", "update"} => SomeActive(boot)
  /\ pc = "up" => Successful(CurrentSlot(kv)) \in kv
  /\ op = "success" => Successful(CurrentSlot(boot)) \in boot
  /\ pc = "updating" => Spare(OtherSlot(kv), kv)
  /\ op = "update" => Spare(OtherSlot(boot), boot)
  /\ pc = "installed" \/ op = "done" => \A s \in Slot : image[s] # "partial"

\* Until a call of bootctl_write_config fails, a half-written slot is out of the
\* loader's reach, wherever power failures cut off the saves.
PartialInv == faults = 0 => PartialSpare /\ SparePrepared

(* What the commands make of any configuration, well formed or not.        *)

\* The loader always leaves an active slot.
LEMMA BootLeavesActive == ASSUME NEW c PROVE SomeActive(bootctl_boot(c).boot)
<1> USE Slots, FlagsDiffer
<1>1. \A d : SomeActive(success_slot(d).boot)
  BY DEF success_slot, SomeActive
<1>2. ASSUME NEW s \in Slot, on_trial(c, s)
      PROVE  SomeActive(start_trial(c, s).boot)
  BY <1>1, <1>2 DEF start_trial, on_trial, SomeActive
<1> QED
  BY <1>1, <1>2 DEF bootctl_boot

\* The loader does not start a spare slot, and saves no flag for it.
LEMMA BootSpare ==
  ASSUME NEW c, NEW s \in Slot, Spare(s, c)
  PROVE  bootctl_boot(c).path # s /\ Spare(s, bootctl_boot(c).boot)
<1> USE Slots, FlagsDiffer
<1>1. CASE s = A
  <2>1. bootctl_boot(c) = success_slot(c)
    BY <1>1 DEF Spare, bootctl_boot, on_trial
  <2>2. success_slot(c) = [path |-> B, boot |-> c]
    BY <1>1 DEF Spare, success_slot
  <2> QED
    BY <1>1, <2>1, <2>2
<1>2. CASE s = B
  <2>1. ASSUME NEW d, Active(B) \notin d, Bootable(B) \notin d,
               Successful(B) \notin d
        PROVE  success_slot(d).path = A /\ Spare(B, success_slot(d).boot)
    BY <2>1 DEF success_slot, Spare
  <2>2. CASE Active(A) \notin c
    <3>1. bootctl_boot(c) = success_slot({Active(A), Bootable(A), Try})
      BY <1>2, <2>2 DEF Spare, bootctl_boot
    <3> QED
      BY <1>2, <2>1, <3>1
  <2>3. CASE on_trial(c, A)
    <3>1. bootctl_boot(c) = start_trial(c, A)
      BY <2>3 DEF bootctl_boot, on_trial
    <3>2. CASE Try \in c
      <4> DEFINE d == c \ {Active(A), Bootable(A)}
      <4>1. Active(B) \notin d /\ Bootable(B) \notin d /\ Successful(B) \notin d
        BY <1>2 DEF Spare
      <4>2. bootctl_boot(c) = success_slot(d)
        BY <3>1, <3>2 DEF start_trial
      <4> HIDE DEF d
      <4> QED
        BY <1>2, <2>1, <4>1, <4>2
    <3>3. CASE Try \notin c
      BY <1>2, <3>1, <3>3 DEF start_trial, Spare
    <3> QED
      BY <3>2, <3>3
  <2>4. CASE Active(A) \in c /\ ~ on_trial(c, A)
    <3>1. bootctl_boot(c) = success_slot(c)
      BY <1>2, <2>4 DEF Spare, bootctl_boot, on_trial
    <3> QED
      BY <1>2, <2>1, <3>1 DEF Spare
  <2> QED
    BY <2>2, <2>3, <2>4
<1> QED
  BY <1>1, <1>2

\* When some slot is active, a spare slot is the one that the commands take for
\* the other one.
LEMMA SpareIsOther ==
  ASSUME NEW c, SomeActive(c), NEW s \in Slot, Spare(s, c)
  PROVE  s = OtherSlot(c)
BY Slots DEF SomeActive, Spare, OtherSlot

\* bootctl_success marks the current slot, and leaves a spare slot spare.
LEMMA SuccessSpare ==
  ASSUME NEW c, SomeActive(c)
  PROVE  LET d == bootctl_success(c)
         IN  /\ SomeActive(d) /\ Successful(CurrentSlot(d)) \in d
             /\ \A s \in Slot : Spare(s, c) => Spare(s, d)
<1> DEFINE d == bootctl_success(c)
<1> USE Slots, FlagsDiffer
<1>1. d = (c \ {Try}) \union {Successful(CurrentSlot(c))}
  BY DEF bootctl_success
<1>2. CurrentSlot(c) \in Slot
  BY DEF CurrentSlot
<1> HIDE DEF d
<1>3. \A s \in Slot : Active(s) \in d <=> Active(s) \in c
  BY <1>1, <1>2
<1>4. CurrentSlot(d) = CurrentSlot(c) /\ SomeActive(d)
  BY <1>3 DEF CurrentSlot, SomeActive
<1>5. ASSUME NEW s \in Slot, Spare(s, c) PROVE Spare(s, d)
  <2>1. CurrentSlot(c) # s
    BY <1>5 DEF Spare, SomeActive, CurrentSlot
  <2> QED
    BY <1>1, <1>2, <1>5, <2>1 DEF Spare
<1> QED
  BY <1>1, <1>4, <1>5 DEF d

\* bootctl_update makes the other slot a spare one when the current slot is
\* active and marked.
LEMMA UpdateSpare ==
  ASSUME NEW c, SomeActive(c), Successful(CurrentSlot(c)) \in c
  PROVE  LET d == bootctl_update(c)
         IN  /\ SomeActive(d) /\ OtherSlot(d) = OtherSlot(c)
             /\ Spare(OtherSlot(d), d)
<1> USE Slots, FlagsDiffer
<1>1. CASE Active(A) \in c
  BY <1>1 DEF bootctl_update, SomeActive, CurrentSlot, OtherSlot, Spare
<1>2. CASE Active(A) \notin c
  BY <1>2 DEF bootctl_update, SomeActive, CurrentSlot, OtherSlot, Spare
<1> QED
  BY <1>1, <1>2
----------------------------------------------------------------------------
(* The invariant.                                                          *)

\* The calls of a save bring its flags to the store one by one, whatever cuts
\* it off.
LEMMA NextPrefix == TypeOK /\ SavedPrefix /\ [Next]_vars => SavedPrefix'
<1> SUFFICES ASSUME TypeOK, SavedPrefix, [Next]_vars PROVE SavedPrefix'
  OBVIOUS
<1>1. CASE SetProperty
  <2>1. /\ pc = "saving" /\ boot' = boot /\ todo' = todo + 1 /\ todo \in 1..7
    BY <1>1 DEF TypeOK, SetProperty, COMMIT
  <2> SUFFICES ASSUME NEW i \in 1..7, i < todo'
               PROVE  WriteOrder[i] \in kv' <=> WriteOrder[i] \in boot
    BY <2>1 DEF SavedPrefix
  <2>2. CASE i = todo
    BY <1>1, <2>2, SetFacts
  <2>3. CASE i < todo
    <3>1. WriteOrder[i] \in kv <=> WriteOrder[i] \in boot
      BY <2>1, <2>3 DEF SavedPrefix
    <3> QED
      BY <1>1, <3>1, SetFacts
  <2> QED
    BY <2>1, <2>2, <2>3
<1>2. CASE Bootloader \/ Success \/ Update \/ Done
  <2>1. pc' # "saving" \/ todo' = 1
    BY <1>2 DEF Bootloader, Success, Update, Done, write_config
  <2> QED
    BY <2>1 DEF SavedPrefix
<1>3. CASE Commit \/ SetFault
  <2>1. pc' # "saving"
    BY <1>3 DEF TypeOK, Commit, SetFault, Return, AfterSave, AfterFault
  <2> QED
    BY <2>1 DEF SavedPrefix
<1>4. CASE \/ StartInstall \/ FinishInstall \/ Reboot \/ ImageCrash \/ PowerLoss
  BY <1>4 DEF StartInstall, FinishInstall, Reboot, ImageCrash, PowerLoss, Reset,
              SavedPrefix
<1>5. CASE UNCHANGED vars
  BY <1>5 DEF vars, SavedPrefix
<1> QED
  BY <1>1, <1>2, <1>3, <1>4, <1>5 DEF Next

\* The initial states hold no half-written image.
LEMMA InitPartial == Init => SavedPrefix /\ PartialInv
BY Slots DEF Init, SavedPrefix, PartialInv, PartialSpare, SparePrepared, SomeActive

\* The commands that open a save.
LEMMA CommandPartial ==
  ASSUME TypeOK, PartialSpare, SparePrepared,
         Bootloader \/ Success \/ Update \/ Done
  PROVE  PartialSpare' /\ SparePrepared'
<1>1. kv' = kv /\ image' = image
  BY DEF Bootloader, Success, Update, Done, Quiet
<1>2. ASSUME pc' = "saving",
             \A s \in Slot : image[s] = "partial" => Spare(s, boot')
      PROVE  PartialSpare'
  BY <1>1, <1>2 DEF PartialSpare
<1>3. CASE Bootloader
  <2> DEFINE m == bootctl_boot(kv)
  <2>1. /\ pc' = "saving" /\ op' = "boot" /\ boot' = m.boot /\ running' = m.path
    BY <1>3 DEF Bootloader, write_config
  <2>2. SomeActive(m.boot) /\ m.path \in Slot
    BY BootLeavesActive, CommandsType DEF TypeOK
  <2>3. \A s \in Slot : image[s] = "partial" => m.path # s /\ Spare(s, m.boot)
    BY BootSpare DEF PartialSpare
  <2> HIDE DEF m
  <2>4. SparePrepared'
    BY <1>1, <2>1, <2>2, <2>3 DEF SparePrepared
  <2> QED
    BY <1>2, <2>1, <2>3, <2>4
<1>4. CASE Success /\ success_due(kv)
  <2> DEFINE d == bootctl_success(kv)
  <2>1. /\ pc' = "saving" /\ op' = "success" /\ boot' = d /\ SomeActive(kv)
    BY <1>4 DEF Success, write_config, SparePrepared
  <2>2. /\ SomeActive(d) /\ Successful(CurrentSlot(d)) \in d
        /\ \A s \in Slot : Spare(s, kv) => Spare(s, d)
    BY <2>1, SuccessSpare
  <2> HIDE DEF d
  <2>3. SparePrepared'
    BY <2>1, <2>2 DEF SparePrepared
  <2> QED
    BY <1>2, <2>1, <2>2, <2>3 DEF PartialSpare
<1>5. CASE Success /\ ~ success_due(kv)
  <2>1. /\ pc = "booted" /\ pc' = "up" /\ op' = "none" /\ SomeActive(kv)
        /\ Successful(CurrentSlot(kv)) \in kv
    BY <1>5 DEF TypeOK, Success, save, success_due, SparePrepared
  <2> QED
    BY <1>1, <2>1 DEF PartialSpare, SparePrepared
<1>6. CASE Update
  <2> DEFINE d == bootctl_update(kv)
  <2>1. /\ pc' = "saving" /\ op' = "update" /\ boot' = d /\ SomeActive(kv)
        /\ Successful(CurrentSlot(kv)) \in kv
    BY <1>6 DEF Update, write_config, SparePrepared
  <2>2. /\ SomeActive(d) /\ OtherSlot(d) = OtherSlot(kv)
        /\ Spare(OtherSlot(d), d)
    BY <2>1, UpdateSpare
  <2>3. \A s \in Slot : image[s] = "partial" => s = OtherSlot(kv)
    BY <2>1, SpareIsOther DEF PartialSpare
  <2> HIDE DEF d
  <2>4. SparePrepared'
    BY <2>1, <2>2 DEF SparePrepared
  <2> QED
    BY <1>2, <2>1, <2>2, <2>3, <2>4
<1>7. CASE Done
  <2>1. /\ pc' = "saving" /\ op' = "done"
        /\ \A s \in Slot : image[s] # "partial"
    BY <1>7 DEF Done, write_config, SparePrepared
  <2> QED
    BY <1>1, <1>2, <2>1 DEF SparePrepared
<1> QED
  BY <1>3, <1>4, <1>5, <1>6, <1>7

\* The calls of a save.
LEMMA SavePartial ==
  ASSUME TypeOK, SavedPrefix, PartialSpare, SparePrepared, SetProperty \/ Commit
  PROVE  PartialSpare' /\ SparePrepared'
<1>1. CASE SetProperty
  <2>1. /\ pc = "saving" /\ pc' = pc /\ op' = op /\ boot' = boot
        /\ running' = running /\ image' = image
    BY <1>1 DEF SetProperty
  <2>2. ASSUME NEW s \in Slot, Spare(s, kv), Spare(s, boot) PROVE Spare(s, kv')
    BY <1>1, <2>2, SetFacts DEF Spare
  <2>3. PartialSpare'
    BY <2>1, <2>2 DEF PartialSpare
  <2>4. SparePrepared'
    BY <2>1 DEF SparePrepared
  <2> QED
    BY <2>3, <2>4
<1>2. CASE Commit
  <2>1. kv = boot
    BY <1>2, SaveDone DEF Commit
  <2>2. /\ op \in {"boot", "success", "update", "done"}
        /\ pc' = AfterSave[op] /\ op' = "none" /\ kv' = kv
        /\ running' = running /\ image' = image
    BY <1>2 DEF TypeOK, Commit, Return, NoSave
  <2>3. /\ op = "boot" => pc' = "booted"
        /\ op = "success" => pc' = "up"
        /\ op = "update" => pc' = "updating"
        /\ op = "done" => pc' = "switched"
    BY <2>2 DEF AfterSave
  <2>4. PartialSpare'
    BY <2>2, <2>3 DEF PartialSpare
  <2>5. SparePrepared'
    BY <2>1, <2>2, <2>3 DEF SparePrepared
  <2> QED
    BY <2>4, <2>5
<1> QED
  BY <1>1, <1>2

\* Writing the spare slot, and the end of it.
LEMMA InstallPartial ==
  ASSUME TypeOK, PartialSpare, SparePrepared, StartInstall \/ FinishInstall
  PROVE  PartialSpare' /\ SparePrepared'
<1> DEFINE o == OtherSlot(kv)
<1>1. /\ op' = "none" /\ kv' = kv /\ SomeActive(kv) /\ o \in Slot
      /\ \A s \in Slot : s # o => image'[s] = image[s]
  BY DEF TypeOK, StartInstall, FinishInstall, Quiet, SparePrepared, OtherSlot, Slot
<1>2. CASE StartInstall
  <2>1. pc' = "writing" /\ Spare(o, kv)
    BY <1>2 DEF StartInstall, SparePrepared
  <2>2. PartialSpare'
    BY <1>1, <2>1 DEF PartialSpare
  <2> QED
    BY <1>1, <2>1, <2>2 DEF SparePrepared
<1>3. CASE FinishInstall
  <2>1. pc' = "installed" /\ image'[o] # "partial"
    BY <1>1, <1>3, OutcomesAssumption DEF TypeOK, FinishInstall
  <2>2. \A s \in Slot : image[s] = "partial" => s = o
    BY <1>1, SpareIsOther DEF PartialSpare
  <2>3. \A s \in Slot : image'[s] # "partial"
    BY <1>1, <2>1, <2>2
  <2> QED
    BY <1>1, <2>1, <2>3 DEF PartialSpare, SparePrepared
<1> QED
  BY <1>2, <1>3

\* Every step preserves the invariant, a power failure inside a save included.
LEMMA NextPartial ==
  TypeOK /\ SavedPrefix /\ PartialInv /\ [Next]_vars => PartialInv'
<1> SUFFICES ASSUME TypeOK, SavedPrefix, PartialInv, [Next]_vars, faults' = 0
             PROVE  PartialSpare' /\ SparePrepared'
  BY DEF PartialInv
<1>1. ~ SetFault
  BY DEF SetFault, TypeOK
<1>2. faults = 0
  BY <1>1 DEF Next, vars, Bootloader, SetProperty, Commit, Success, Update,
              StartInstall, FinishInstall, Done, Reboot, ImageCrash, PowerLoss, Quiet
<1>3. PartialSpare /\ SparePrepared
  BY <1>2 DEF PartialInv
<1>4. CASE Bootloader \/ Success \/ Update \/ Done
  BY <1>3, <1>4, CommandPartial
<1>5. CASE SetProperty \/ Commit
  BY <1>3, <1>5, SavePartial
<1>6. CASE StartInstall \/ FinishInstall
  BY <1>3, <1>6, InstallPartial
<1>7. CASE Reboot \/ ImageCrash \/ PowerLoss
  <2>1. pc' = "reset" /\ op' = "none" /\ kv' = kv /\ image' = image
    BY <1>7 DEF Reboot, ImageCrash, PowerLoss, Reset, NoSave, Quiet
  <2> QED
    BY <1>3, <2>1 DEF PartialSpare, SparePrepared
<1>8. CASE UNCHANGED vars
  BY <1>3, <1>8 DEF vars, PartialSpare, SparePrepared
<1> QED
  BY <1>1, <1>4, <1>5, <1>6, <1>7, <1>8 DEF Next

\* A half-written slot is out of the loader's reach until a property call fails,
\* for any number of power failures inside and outside of saves.
THEOREM PartialInvariant == Spec => []PartialInv
<1>1. SavedPrefix /\ PartialInv /\ TypeOK /\ [Next]_vars
        => (SavedPrefix /\ PartialInv)'
  BY NextPrefix, NextPartial
<1> QED
  BY <1>1, InitPartial, TypeCorrect, PTL DEF Spec

\* The loader never starts an image whose installation did not finish, wherever
\* the power fails, as long as every property call of bootctl_write_config
\* succeeds.
THEOREM PartialNeverStarted == Spec => []NoPartialStart
<1>1. PartialInv => NoPartialStart
  BY DEF PartialInv, SparePrepared, NoPartialStart
<1> QED
  BY <1>1, PartialInvariant, PTL
=============================================================================
