------------------------------ MODULE AvbVerify -----------------------------
(***************************************************************************)
(* verify/avb_verify.c and avb_main.c: verification of a partition or of   *)
(* an image file, and the rollback indexes it keeps in KVDB.  The device   *)
(* verifies its partition at every start (rcS.bl: avb_verify, then boot)   *)
(* and an upgrade checks its image with "avb_verify -c" before dd writes   *)
(* it (gen_full_sh).  avb_slot_verify itself is libavb's, outside of src/. *)
(***************************************************************************)
EXTENDS Integers

CONSTANTS
  Locations,     \* rollback index locations, 1..N for the code's 0..N-1
  MaxIndex,      \* bound on rollback indexes
  Options,       \* the ways main is called: "boot", "check" (-c), "ignore" (-i)
  SetFaults,     \* may property_set_int64 fail?
  MaxLosses      \* bound on power losses

ASSUME LocationsAssumption == Locations \in Nat
ASSUME AvbBoundsAssumption == MaxIndex \in Nat /\ MaxLosses \in Nat
ASSUME OptionsAssumption ==
  Options \subseteq {"boot", "check", "ignore"} /\ SetFaults \in BOOLEAN

VARIABLES
  stored,      \* persist.avb.rollback.<n>
  installed,   \* the image in the partition
  download,    \* the image in /ota
  checked,     \* history: avb_verify -c accepted download as it is
  trusted,     \* history: so it did what is now installed
  cmd,         \* the call of avb_verify under way, or "none"
  n,           \* the loop variable of avb_verify
  accepted,    \* history: the highest index that was ever accepted at a start
  losses

vars == <<stored, installed, download, checked, trusted, cmd, n, accepted, losses>>

Location == 1..Locations
UNUSED == -1
\* An image passes the signature and hash checks or not, and carries a rollback
\* index for the locations of its vbmeta structures.
ImageSet == [valid : BOOLEAN, index : [Location -> {UNUSED} \cup (0..MaxIndex)]]

\* slot_data->rollback_indexes: 0 for a location that the image does not use.
rollback_indexes(image) ==
  [l \in Location |-> IF image.index[l] = UNUSED THEN 0 ELSE image.index[l]]

\* The image that a call with option o verifies.
TargetOf(o) == IF o = "check" THEN download ELSE installed
Target == TargetOf(cmd)

\* Mutant: the flag is set for the wrong calls.
NOT_ALLOW_SAME_boot(o) == o # "check"

\* Flags that main derives from its options.
NOT_ALLOW_SAME(o) == o = "check"
NOT_UPDATE(o)     == o = "check"
ALLOW_ROLLBACK(o) == o = "ignore"

\* Mutant: the stored indexes are not consulted.
slot_verify_any(o, image) == image.valid

\* avb_slot_verify accepts the image (external): its indexes are compared with
\* what read_rollback_index returns for the locations that it uses.
slot_verify(o, image) ==
  /\ image.valid
  /\ \/ ALLOW_ROLLBACK(o)
     \/ \A l \in {k \in Location : image.index[k] # UNUSED} :
          IF NOT_ALLOW_SAME(o) THEN image.index[l] > stored[l]
                               ELSE image.index[l] >= stored[l]

Init ==
  /\ stored = [l \in Location |-> 0]
  /\ installed \in ImageSet /\ download = installed
  /\ checked = FALSE /\ trusted = FALSE
  /\ cmd = "none" /\ n = 1
  /\ accepted = [l \in Location |-> 0]
  /\ losses = 0

\* main calls avb_verify and avb_slot_verify passes.  A start of the device ends
\* the run of ota.sh that a check belongs to.
Start ==
  /\ cmd = "none"
  /\ \E o \in Options :
       /\ slot_verify(o, TargetOf(o))
       /\ cmd' = o /\ checked' = (checked /\ o = "check")
  /\ n' = 1
  /\ UNCHANGED <<stored, installed, download, trusted, accepted, losses>>

\* avb_verify writes location l.
update_due(l) ==
  /\ rollback_indexes(Target)[l] # 0
  /\ stored[l] # rollback_indexes(Target)[l]
  /\ ~ NOT_UPDATE(cmd)

\* Mutant: the loop runs once too often.
Location_step_over ==
  /\ cmd # "none" /\ n <= Locations + 1
  /\ n' = n + 1
  /\ UNCHANGED <<stored, installed, download, checked, trusted, cmd, accepted, losses>>

\* Mutant: the new index is not written.
Location_step_skip ==
  /\ cmd # "none" /\ n <= Locations
  /\ n' = n + 1
  /\ UNCHANGED <<stored, installed, download, checked, trusted, cmd, accepted, losses>>

\* One turn of the loop: read_rollback_index, and write_rollback_index if due.
Location_step ==
  /\ cmd # "none" /\ n <= Locations
  /\ stored' = IF update_due(n) THEN [stored EXCEPT ![n] = Target.index[n]]
               ELSE stored
  /\ n' = n + 1
  /\ UNCHANGED <<installed, download, checked, trusted, cmd, accepted, losses>>

\* write_rollback_index fails: avb_verify returns the error.
WriteFault ==
  /\ SetFaults
  /\ cmd # "none" /\ n <= Locations /\ update_due(n)
  /\ cmd' = "none" /\ n' = 1
  /\ UNCHANGED <<stored, installed, download, checked, trusted, accepted, losses>>

\* avb_verify returns 0: the loader boots, the upgrade goes on.
Return ==
  /\ cmd # "none" /\ n > Locations
  /\ accepted' =
       IF cmd = "check" THEN accepted
       ELSE [l \in Location |-> IF Target.index[l] > accepted[l]
                                  THEN Target.index[l] ELSE accepted[l]]
  /\ checked' = (checked \/ cmd = "check")
  /\ cmd' = "none" /\ n' = 1
  /\ UNCHANGED <<stored, installed, download, trusted, losses>>

\* A package is unpacked to /ota.
Download ==
  /\ cmd = "none"
  /\ download' \in ImageSet /\ checked' = FALSE
  /\ UNCHANGED <<stored, installed, trusted, cmd, n, accepted, losses>>

\* dd writes the partition; partitions without --upgrade_verify are written
\* unchecked.
Write ==
  /\ cmd = "none"
  /\ installed' = download /\ trusted' = checked
  /\ UNCHANGED <<stored, download, checked, cmd, n, accepted, losses>>

PowerLoss ==
  /\ losses < MaxLosses /\ losses' = losses + 1
  /\ cmd # "none" /\ cmd' = "none" /\ n' = 1
  /\ UNCHANGED <<stored, installed, download, checked, trusted, accepted>>

Next == Start \/ Location_step \/ WriteFault \/ Return \/ Download \/ Write \/ PowerLoss

Spec == Init /\ [][Next]_vars

----------------------------------------------------------------------------
TypeOK ==
  /\ stored \in [Location -> 0..MaxIndex]
  /\ installed \in ImageSet /\ download \in ImageSet
  /\ checked \in BOOLEAN /\ trusted \in BOOLEAN
  /\ cmd \in {"none", "boot", "check", "ignore"}
  /\ n \in 1..(Locations + 1)
  /\ accepted \in [Location -> 0..MaxIndex]
  /\ losses \in 0..MaxLosses

\* Rollback protection: once avb_verify has accepted an image at a start, it
\* accepts none with a lower index at a later start, wherever the update of the
\* stored indexes failed or was cut off.
NoRollback ==
  [][cmd = "boot" /\ Return => \A l \in Location :
       Target.index[l] # UNUSED => Target.index[l] >= accepted[l]]_vars

\* avb_verify never lowers a stored index (without option -i).
StoredMonotone == [][\A l \in Location : stored'[l] >= stored[l]]_vars

\* What "avb_verify -c" accepted and ota.sh then wrote to the partition is not
\* refused by avb_verify at any later start.
CheckedBoots ==
  trusted => slot_verify("boot", installed)

\* The strengthening the proofs use: an accepted index is stored, the boot
\* verification under way has stored the indexes below n, and what a check
\* accepted is newer than everything stored.
UsedIndex(image) == {l \in Location : image.index[l] # UNUSED}

AcceptedStored == \A l \in Location : accepted[l] <= stored[l]

BootProgress ==
  cmd = "boot" =>
    /\ ~ checked /\ slot_verify("boot", installed)
    /\ \A l \in UsedIndex(installed) : l < n => stored[l] = installed.index[l]

CheckHolds == checked \/ cmd = "check" => slot_verify("check", download)

\* Wherever power loss or a failing property_set_int64 stops avb_verify, the
\* stored indexes cover every index accepted so far, and an accepted download
\* stays acceptable until the device starts again.
RollbackInv == AcceptedStored /\ BootProgress /\ CheckHolds /\ CheckedBoots
=============================================================================
