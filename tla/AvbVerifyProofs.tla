-------------------------- MODULE AvbVerifyProofs ---------------------------
(***************************************************************************)
(* Rollback protection of avb_verify, for every number of locations and    *)
(* every bound, when option -i is not used.                                *)
(***************************************************************************)
EXTENDS AvbVerify, TLAPS

\* rollback_indexes of an image are natural numbers up to MaxIndex, nonzero only
\* where the image has an index.
LEMMA RollbackIndexes ==
  ASSUME NEW image \in ImageSet, NEW l \in Location
  PROVE  /\ rollback_indexes(image)[l] \in 0..MaxIndex
         /\ image.index[l] \in {UNUSED} \cup (0..MaxIndex)
         /\ rollback_indexes(image)[l] # 0 =>
              image.index[l] # UNUSED /\ image.index[l] = rollback_indexes(image)[l]
         /\ image.index[l] # UNUSED => image.index[l] = rollback_indexes(image)[l]
BY AvbBoundsAssumption DEF ImageSet, rollback_indexes, UNUSED

\* Every call works on one of the two images.
LEMMA TargetImage ==
  ASSUME TypeOK, NEW o PROVE TargetOf(o) \in ImageSet
BY DEF TypeOK, TargetOf

\* The initial states are well typed.
LEMMA InitType == Init => TypeOK
<1> SUFFICES ASSUME Init PROVE TypeOK
  OBVIOUS
<1>1. 0 \in 0..MaxIndex /\ 0 \in 0..MaxLosses /\ 1 \in 1..(Locations + 1)
  BY AvbBoundsAssumption, LocationsAssumption
<1>2. [l \in Location |-> 0] \in [Location -> 0..MaxIndex]
  BY <1>1
<1>3. checked \in BOOLEAN /\ trusted \in BOOLEAN
  BY Zenon DEF Init
<1> QED
  BY <1>1, <1>2, <1>3 DEF Init, TypeOK

\* Every step preserves the types.
LEMMA NextType == TypeOK /\ [Next]_vars => TypeOK'
<1> SUFFICES ASSUME TypeOK, [Next]_vars PROVE TypeOK'
  OBVIOUS
<1> USE AvbBoundsAssumption, LocationsAssumption, OptionsAssumption
<1>1. CASE Start
  BY <1>1 DEF TypeOK, Start
<1>2. CASE Location_step
  <2>1. n \in Location
    BY <1>2 DEF Location_step, Location, TypeOK
  <2>2. Target \in ImageSet
    BY TargetImage DEF Target
  <2>3. update_due(n) => Target.index[n] \in 0..MaxIndex
    BY <2>1, <2>2, RollbackIndexes DEF update_due
  <2>4. stored' \in [Location -> 0..MaxIndex]
    BY <1>2, <2>1, <2>3 DEF Location_step, TypeOK
  <2>5. n' \in 1..(Locations + 1)
    BY <1>2, <2>1 DEF Location_step, Location
  <2> QED
    BY <1>2, <2>4, <2>5 DEF Location_step, TypeOK
<1>3. CASE WriteFault
  BY <1>3 DEF TypeOK, WriteFault
<1>4. CASE Return
  <2>1. Target \in ImageSet
    BY TargetImage DEF Target
  <2>2. \A l \in Location : Target.index[l] \in {UNUSED} \cup (0..MaxIndex)
    BY <2>1, RollbackIndexes
  <2>3. \A l \in Location : accepted[l] \in 0..MaxIndex
    BY DEF TypeOK
  <2>4. \A l \in Location :
          (IF Target.index[l] > accepted[l] THEN Target.index[l] ELSE accepted[l])
             \in 0..MaxIndex
    BY <2>2, <2>3 DEF UNUSED
  <2>5. accepted' \in [Location -> 0..MaxIndex]
    BY <1>4, <2>4 DEF Return, TypeOK
  <2> QED
    BY <1>4, <2>5 DEF Return, TypeOK
<1>5. CASE Download
  BY <1>5 DEF TypeOK, Download
<1>6. CASE Write
  BY <1>6 DEF TypeOK, Write
<1>7. CASE PowerLoss
  BY <1>7 DEF TypeOK, PowerLoss
<1>8. CASE UNCHANGED vars
  BY <1>8 DEF TypeOK, vars
<1> QED
  BY <1>1, <1>2, <1>3, <1>4, <1>5, <1>6, <1>7, <1>8 DEF Next

\* The state of avb_verify keeps its types.
THEOREM TypeCorrect == Spec => []TypeOK
BY InitType, NextType, PTL DEF Spec

----------------------------------------------------------------------------
\* A check is stricter than a boot verification of the same image.
LEMMA CheckImpliesBoot ==
  ASSUME TypeOK, NEW image \in ImageSet, slot_verify("check", image)
  PROVE  slot_verify("boot", image)
<1>1. \A l \in Location : stored[l] \in 0..MaxIndex
  BY DEF TypeOK
<1>2. \A l \in Location : image.index[l] \in {UNUSED} \cup (0..MaxIndex)
  BY RollbackIndexes
<1> QED
  BY <1>1, <1>2, AvbBoundsAssumption
  DEF slot_verify, NOT_ALLOW_SAME, ALLOW_ROLLBACK, UNUSED

\* The verdict on an image depends on the stored indexes only.
LEMMA SameVerdict ==
  ASSUME NEW o, NEW image, UNCHANGED stored, slot_verify(o, image)
  PROVE  slot_verify(o, image)'
BY DEF slot_verify

\* The initial states satisfy the invariant: nothing is accepted or checked yet.
LEMMA InitRollback == Init => RollbackInv
<1> SUFFICES ASSUME Init PROVE RollbackInv
  OBVIOUS
<1>1. AcceptedStored
  BY DEF Init, AcceptedStored
<1> QED
  BY <1>1 DEF Init, RollbackInv, BootProgress, CheckHolds, CheckedBoots

\* A turn of the loop in avb_verify preserves the invariant.
LEMMA LocationStepRollback ==
  ASSUME TypeOK, RollbackInv, Location_step, "ignore" \notin Options, cmd # "ignore"
  PROVE  RollbackInv'
<1> USE AvbBoundsAssumption, LocationsAssumption
<1>1. n \in Location /\ n' = n + 1 /\ n \in Nat
  BY DEF Location_step, Location, TypeOK
<1>2. CASE cmd = "check"
  <2>1. ~ update_due(n)
    BY <1>2 DEF update_due, NOT_UPDATE
  <2>2. UNCHANGED <<stored, installed, download, checked, trusted, cmd, accepted>>
    BY <2>1 DEF Location_step
  <2> QED
    BY <1>2, <2>2 DEF RollbackInv, AcceptedStored, BootProgress, CheckHolds,
      CheckedBoots, slot_verify
<1>3. CASE cmd = "boot"
  <2>1. Target = installed /\ installed \in ImageSet
    BY <1>3 DEF Target, TargetOf, TypeOK
  <2>2. UNCHANGED <<installed, download, checked, trusted, cmd, accepted>>
    BY DEF Location_step
  <2>3. ~ checked /\ slot_verify("boot", installed)
    BY <1>3 DEF RollbackInv, BootProgress
  <2>4. \A l \in Location : /\ stored[l] \in 0..MaxIndex
                            /\ accepted[l] \in 0..MaxIndex
                            /\ installed.index[l] \in {UNUSED} \cup (0..MaxIndex)
    BY <2>1, RollbackIndexes DEF TypeOK
  <2>5. \A l \in UsedIndex(installed) : installed.index[l] >= stored[l]
    BY <2>3 DEF slot_verify, UsedIndex, NOT_ALLOW_SAME, ALLOW_ROLLBACK
  <2>6. stored' = [stored EXCEPT ![n] = stored'[n]]
    BY <1>1 DEF Location_step, TypeOK
  <2>7. n \in UsedIndex(installed) => stored'[n] = installed.index[n]
    <3>1. SUFFICES ASSUME n \in UsedIndex(installed) PROVE stored'[n] = installed.index[n]
      OBVIOUS
    <3>2. rollback_indexes(installed)[n] = installed.index[n]
      BY <1>1, <2>1, <3>1, RollbackIndexes DEF UsedIndex
    <3>3. CASE update_due(n)
      BY <1>1, <2>1, <3>3 DEF Location_step, TypeOK
    <3>4. CASE ~ update_due(n)
      <4>1. installed.index[n] = 0 \/ stored[n] = installed.index[n]
        BY <1>3, <2>1, <3>2, <3>4 DEF update_due, NOT_UPDATE
      <4>2. stored' = stored
        BY <3>4 DEF Location_step
      <4> QED
        BY <4>1, <4>2, <1>1, <2>4, <2>5, <3>1
    <3> QED
      BY <3>3, <3>4
  <2>8. n \notin UsedIndex(installed) => stored' = stored
    <3>1. SUFFICES ASSUME n \notin UsedIndex(installed) PROVE stored' = stored
      OBVIOUS
    <3>2. rollback_indexes(installed)[n] = 0
      BY <1>1, <3>1 DEF UsedIndex, rollback_indexes
    <3> QED
      BY <2>1, <3>2 DEF Location_step, update_due
  <2>9. \A l \in Location : l # n => stored'[l] = stored[l]
    BY <1>1, <2>6 DEF TypeOK
  <2>10. \A l \in UsedIndex(installed) : installed.index[l] >= stored'[l]
    <3>1. \A l \in UsedIndex(installed) : l \in Location
      BY DEF UsedIndex
    <3> QED
      BY <2>4, <2>5, <2>7, <2>9, <3>1 DEF UNUSED
  <2>11. \A l \in Location : stored'[l] >= stored[l]
    BY <2>4, <2>5, <2>7, <2>8, <2>9 DEF UNUSED
  <2>12. AcceptedStored'
    <3>1. \A l \in Location : stored'[l] \in 0..MaxIndex
      BY <2>4, <2>7, <2>8, <2>9 DEF UNUSED, UsedIndex
    <3> QED
      BY <2>2, <2>4, <2>11, <3>1 DEF AcceptedStored, RollbackInv
  <2>13. slot_verify("boot", installed)'
    BY <2>2, <2>3, <2>10 DEF slot_verify, UsedIndex, NOT_ALLOW_SAME, ALLOW_ROLLBACK
  <2>14. \A l \in UsedIndex(installed) : l < n' => stored'[l] = installed.index[l]
    <3>1. \A l \in UsedIndex(installed) : l \in Location /\ l \in Nat
      BY DEF UsedIndex, Location
    <3>2. \A l \in UsedIndex(installed) : l < n => stored[l] = installed.index[l]
      BY <1>3 DEF RollbackInv, BootProgress
    <3> QED
      BY <1>1, <2>7, <2>9, <3>1, <3>2
  <2> QED
    BY <1>3, <2>2, <2>3, <2>12, <2>13, <2>14
    DEF RollbackInv, BootProgress, CheckHolds, CheckedBoots, UsedIndex
<1> QED
  BY <1>2, <1>3 DEF TypeOK, Location_step

\* The return of avb_verify preserves the invariant: at the end of the loop
\* every index of the accepted image is stored.
LEMMA ReturnRollback ==
  ASSUME TypeOK, RollbackInv, Return, cmd # "ignore"
  PROVE  RollbackInv'
<1>1. UNCHANGED <<stored, installed, download, trusted>> /\ cmd' = "none"
  BY DEF Return
<1>2. AcceptedStored'
  <2>1. CASE cmd = "check"
    BY <1>1, <2>1 DEF Return, RollbackInv, AcceptedStored
  <2>2. CASE cmd = "boot"
    <3>1. Target = installed /\ installed \in ImageSet
      BY <2>2 DEF Target, TargetOf, TypeOK
    <3>2. \A l \in Location : /\ stored[l] \in 0..MaxIndex
                              /\ accepted[l] \in 0..MaxIndex
                              /\ accepted[l] <= stored[l]
                              /\ installed.index[l] \in {UNUSED} \cup (0..MaxIndex)
      BY <3>1, RollbackIndexes DEF TypeOK, RollbackInv, AcceptedStored
    <3>3. \A l \in Location : l < n
      BY LocationsAssumption DEF Return, TypeOK, Location
    <3>4. \A l \in Location : installed.index[l] # UNUSED => stored[l] = installed.index[l]
      BY <2>2, <3>3 DEF RollbackInv, BootProgress, UsedIndex
    <3>5. \A l \in Location :
            accepted'[l] = IF installed.index[l] > accepted[l]
                             THEN installed.index[l] ELSE accepted[l]
      BY <2>2, <3>1 DEF Return
    <3> QED
      BY <1>1, <3>2, <3>4, <3>5, AvbBoundsAssumption DEF AcceptedStored, UNUSED
  <2> QED
    BY <2>1, <2>2 DEF TypeOK, Return
<1>3. CheckHolds'
  <2>1. checked' => checked \/ cmd = "check"
    BY Zenon DEF Return
  <2> QED
    BY <1>1, <2>1 DEF RollbackInv, CheckHolds, slot_verify
<1> QED
  BY <1>1, <1>2, <1>3 DEF RollbackInv, BootProgress, CheckedBoots, slot_verify

\* Every step preserves the invariant when option -i is not used.
LEMMA NextRollback ==
  ASSUME "ignore" \notin Options
  PROVE  TypeOK /\ RollbackInv /\ cmd # "ignore" /\ [Next]_vars
           => RollbackInv' /\ cmd' # "ignore"
<1> SUFFICES ASSUME TypeOK, RollbackInv, cmd # "ignore", [Next]_vars
             PROVE  RollbackInv' /\ cmd' # "ignore"
  OBVIOUS
<1>1. CASE Start
  <2>1. PICK o \in Options : /\ slot_verify(o, TargetOf(o))
                             /\ cmd' = o /\ checked' = (checked /\ o = "check")
    BY <1>1 DEF Start
  <2>2. o \in {"boot", "check"}
    BY OptionsAssumption
  <2>3. n' = 1 /\ UNCHANGED <<stored, installed, download, trusted, accepted>>
    BY <1>1 DEF Start
  <2>4. CheckHolds'
    <3>1. checked' \/ cmd' = "check" => o = "check"
      BY <2>1, Zenon
    <3> QED
      BY <2>1, <2>3, <3>1 DEF CheckHolds, TargetOf, slot_verify
  <2>5. BootProgress'
    <3>1. SUFFICES ASSUME cmd' = "boot" PROVE BootProgress'
      BY DEF BootProgress
    <3>2. o = "boot" /\ ~ checked'
      BY <2>1, <3>1
    <3>3. slot_verify("boot", installed)'
      BY <2>1, <2>3, <3>2 DEF TargetOf, slot_verify
    <3>4. \A l \in UsedIndex(installed)' : ~ (l < n')
      BY <2>3, LocationsAssumption DEF UsedIndex, Location
    <3> QED
      BY <3>2, <3>3, <3>4 DEF BootProgress
  <2> QED
    BY <2>1, <2>2, <2>3, <2>4, <2>5
    DEF RollbackInv, AcceptedStored, CheckedBoots, slot_verify
<1>2. CASE Location_step
  BY <1>2, LocationStepRollback DEF Location_step
<1>3. CASE WriteFault
  BY <1>3 DEF WriteFault, RollbackInv, AcceptedStored, BootProgress, CheckHolds,
    CheckedBoots, slot_verify
<1>4. CASE Return
  BY <1>4, ReturnRollback DEF Return
<1>5. CASE Download
  BY <1>5 DEF Download, RollbackInv, AcceptedStored, BootProgress, CheckHolds,
    CheckedBoots, slot_verify
<1>6. CASE Write
  <2>1. checked => slot_verify("boot", download)
    BY CheckImpliesBoot DEF RollbackInv, CheckHolds, TypeOK
  <2>2. CheckedBoots'
    BY <1>6, <2>1 DEF Write, CheckedBoots, slot_verify
  <2> QED
    BY <1>6, <2>2 DEF Write, RollbackInv, AcceptedStored, BootProgress, CheckHolds,
      slot_verify
<1>7. CASE PowerLoss
  BY <1>7 DEF PowerLoss, RollbackInv, AcceptedStored, BootProgress, CheckHolds,
    CheckedBoots, slot_verify
<1>8. CASE UNCHANGED vars
  BY <1>8 DEF vars, RollbackInv, AcceptedStored, BootProgress, CheckHolds,
    CheckedBoots, slot_verify
<1> QED
  BY <1>1, <1>2, <1>3, <1>4, <1>5, <1>6, <1>7, <1>8 DEF Next

\* Without option -i the stored indexes cover every index accepted at a start,
\* and what a check accepted stays acceptable, wherever avb_verify is cut off.
THEOREM RollbackInvariant ==
  ASSUME "ignore" \notin Options
  PROVE  Spec => [](TypeOK /\ RollbackInv /\ cmd # "ignore")
<1>1. Init => TypeOK /\ RollbackInv /\ cmd # "ignore"
  BY InitType, InitRollback DEF Init
<1>2. TypeOK /\ RollbackInv /\ cmd # "ignore" /\ [Next]_vars
        => (TypeOK /\ RollbackInv /\ cmd # "ignore")'
  BY NextType, NextRollback
<1> QED
  BY <1>1, <1>2, PTL DEF Spec

\* A boot verification accepts no image older than one accepted before.
THEOREM NoRollbackAccepted ==
  ASSUME "ignore" \notin Options
  PROVE  Spec => NoRollback
<1>1. TypeOK /\ RollbackInv => (cmd = "boot" /\ Return => \A l \in Location :
        Target.index[l] # UNUSED => Target.index[l] >= accepted[l])
  <2> SUFFICES ASSUME TypeOK, RollbackInv, cmd = "boot", Return,
                      NEW l \in Location, Target.index[l] # UNUSED
               PROVE  Target.index[l] >= accepted[l]
    OBVIOUS
  <2>1. Target = installed /\ installed \in ImageSet
    BY DEF Target, TargetOf, TypeOK
  <2>2. installed.index[l] >= stored[l]
    BY <2>1 DEF RollbackInv, BootProgress, slot_verify, NOT_ALLOW_SAME, ALLOW_ROLLBACK
  <2>3. accepted[l] <= stored[l] /\ accepted[l] \in Nat /\ stored[l] \in Nat
    BY AvbBoundsAssumption DEF RollbackInv, AcceptedStored, TypeOK
  <2>4. installed.index[l] \in {UNUSED} \cup (0..MaxIndex)
    BY <2>1, RollbackIndexes
  <2> QED
    BY <2>1, <2>2, <2>3, <2>4, AvbBoundsAssumption DEF UNUSED
<1> QED
  BY <1>1, RollbackInvariant, PTL DEF NoRollback

\* What the upgrade check accepted and dd wrote is accepted at every later start.
THEOREM CheckedImagesBoot ==
  ASSUME "ignore" \notin Options
  PROVE  Spec => []CheckedBoots
<1>1. RollbackInv => CheckedBoots
  BY DEF RollbackInv
<1> QED
  BY <1>1, RollbackInvariant, PTL

\* avb_verify never lowers a stored index.
THEOREM StoredNeverLowered ==
  ASSUME "ignore" \notin Options
  PROVE  Spec => StoredMonotone
<1>1. ASSUME TypeOK, RollbackInv, cmd # "ignore", [Next]_vars
      PROVE  \A l \in Location : stored'[l] >= stored[l]
  <2>1. \A l \in Location : stored[l] \in Nat /\ stored[l] >= stored[l]
    BY <1>1, AvbBoundsAssumption DEF TypeOK
  <2>2. CASE stored' = stored
    BY <2>1, <2>2
  <2>3. CASE Location_step /\ update_due(n)
    <3>1. n \in Location
      BY <1>1, <2>3, LocationsAssumption DEF Location_step, Location, TypeOK
    <3>2. cmd = "boot"
      BY <1>1, <2>3 DEF update_due, NOT_UPDATE, Location_step, TypeOK
    <3>3. Target = installed /\ installed \in ImageSet
      BY <1>1, <3>2 DEF Target, TargetOf, TypeOK
    <3>4. installed.index[n] # UNUSED
      BY <2>3, <3>1, <3>3, RollbackIndexes DEF update_due
    <3>5. installed.index[n] >= stored[n]
      BY <1>1, <3>1, <3>2, <3>4 DEF RollbackInv, BootProgress, slot_verify,
        NOT_ALLOW_SAME, ALLOW_ROLLBACK
    <3>6. stored' = [stored EXCEPT ![n] = installed.index[n]]
      BY <2>3, <3>3 DEF Location_step
    <3> QED
      BY <1>1, <2>1, <3>1, <3>5, <3>6 DEF TypeOK
  <2>4. Location_step /\ ~ update_due(n) => stored' = stored
    BY DEF Location_step
  <2> QED
    BY <1>1, <2>2, <2>3, <2>4
    DEF Next, vars, Start, WriteFault, Return, Download, Write, PowerLoss
<1>2. TypeOK /\ RollbackInv /\ cmd # "ignore" /\ [Next]_vars
        => [\A l \in Location : stored'[l] >= stored[l]]_vars
  BY <1>1
<1> QED
  BY <1>2, RollbackInvariant, PTL DEF StoredMonotone, Spec

=============================================================================
