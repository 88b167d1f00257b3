------------------------------ MODULE BootCtl ------------------------------
(***************************************************************************)
(* bootctl/bootctl.c: the A/B slot manager.  struct bootctl_s holds seven  *)
(* booleans, each stored in KVDB under a persist.boot.* key.  A            *)
(* configuration is modelled by the set of its flags that are true, so a   *)
(* flag that was never stored reads as false, which is the default the     *)
(* code passes to property_get_bool.  The operators below map the          *)
(* configuration a command reads to the one it hands to                    *)
(* bootctl_write_config; BootDevice says how that one reaches the flash.   *)
(***************************************************************************)
EXTENDS Naturals, Sequences

A == "a"
B == "b"
Slot == {A, B}

Active(s)     == <<s, "active">>
Bootable(s)   == <<s, "bootable">>
Successful(s) == <<s, "successful">>
Try           == <<"boot", "try">>

\* The order in which bootctl_write_config calls property_set_bool.
WriteOrder == << Active(A), Bootable(A), Successful(A),
                 Active(B), Bootable(B), Successful(B), Try >>

Flag == {WriteOrder[i] : i \in 1..7}

\* property_set_bool(key, boot->...) on the store kv.
property_set(kv, key, boot) ==
  IF key \in boot THEN kv \union {key} ELSE kv \ {key}

----------------------------------------------------------------------------
(***************************************************************************)
(* Commands of the running system (bootctl built without                   *)
(* CONFIG_UTILS_BOOTCTL_ENTRY).                                            *)
(***************************************************************************)

\* The slot that the code takes to be the other one: whenever slot a is not
\* active it is slot a, whatever slot b's flags are.
OtherSlot(boot) == IF Active(A) \in boot THEN B ELSE A

\* The slot the code takes to be the current one.
CurrentSlot(boot) == IF Active(A) \in boot THEN A ELSE B

\* What bootctl_active reports, {} standing for NULL.
bootctl_active(boot) ==
  IF Active(A) \in boot THEN {A} ELSE IF Active(B) \in boot THEN {B} ELSE {}

\* Mutant: update leaves the successful mark of the slot it will overwrite.
update_keeps_successful(boot) ==
  boot \ {Bootable(OtherSlot(boot)), Active(OtherSlot(boot))}

\* Mutant: update clears the flags of the slot that is running.
update_clears_current(boot) ==
  boot \ {Successful(CurrentSlot(boot)), Bootable(CurrentSlot(boot)),
          Active(CurrentSlot(boot))}

bootctl_update(boot) ==
  LET o == OtherSlot(boot)
  IN  boot \ {Successful(o), Bootable(o), Active(o)}

\* Mutant: done activates the new slot and leaves the old one active.
done_keeps_active(boot) ==
  boot \union {Bootable(OtherSlot(boot)), Active(OtherSlot(boot))}

\* Mutant: done marks the new slot successful, so it is never on trial.
done_marks_successful(boot) ==
  (boot \union {Bootable(OtherSlot(boot)), Active(OtherSlot(boot)),
                Successful(OtherSlot(boot))})
  \ {Active(CurrentSlot(boot))}

\* Mutant: done does not make the new slot bootable.
done_not_bootable(boot) ==
  (boot \union {Active(OtherSlot(boot))}) \ {Active(CurrentSlot(boot))}

bootctl_done(boot) ==
  LET o == OtherSlot(boot)
  IN  (boot \union {Bootable(o), Active(o)}) \ {Active(CurrentSlot(boot))}

\* bootctl_success writes the configuration only in this case.
success_due(boot) == Successful(CurrentSlot(boot)) \notin boot

bootctl_success(boot) ==
  (boot \ {Try}) \union {Successful(CurrentSlot(boot))}

----------------------------------------------------------------------------
(***************************************************************************)
(* The boot loader's bootctl_boot (CONFIG_UTILS_BOOTCTL_ENTRY): the        *)
(* configuration it saves and the slot whose image it then starts.         *)
(***************************************************************************)

\* Mutant: the slot fallen back to is not made active.
success_slot_inactive(boot) ==
  [path |-> IF Successful(A) \in boot \/ Successful(B) \notin boot
              THEN A ELSE B,
   boot |-> boot]

\* The code from the label success_slot on.
success_slot(boot) ==
  IF {Active(A), Successful(A)} \subseteq boot
    THEN [path |-> A, boot |-> boot]
  ELSE IF {Active(B), Successful(B)} \subseteq boot
    THEN [path |-> B, boot |-> boot]
  ELSE IF Successful(A) \in boot
    THEN [path |-> A, boot |-> boot \union {Active(A)}]
  ELSE IF Successful(B) \in boot
    THEN [path |-> B, boot |-> boot \union {Active(B), Bootable(B)}]
  ELSE [path |-> A, boot |-> boot \union {Active(A), Bootable(A)}]

\* Slot s is active and may boot, and has not been seen to.
on_trial(boot, s) ==
  /\ {Active(s), Bootable(s)} \subseteq boot
  /\ Successful(s) \notin boot

\* Mutant: the loader does not record that it starts a trial.
start_trial_unrecorded(boot, s) ==
  IF Try \in boot
    THEN success_slot(boot \ {Active(s), Bootable(s)})
    ELSE [path |-> s, boot |-> boot]

\* Mutant: a failed trial is given another try.
start_trial_again(boot, s) == [path |-> s, boot |-> boot \union {Try}]

\* Start the slot on trial once; when the previous try did not end in
\* bootctl_success, give it up for a successful slot.
start_trial(boot, s) ==
  IF Try \in boot
    THEN success_slot(boot \ {Active(s), Bootable(s)})
    ELSE [path |-> s, boot |-> boot \union {Try}]

bootctl_boot(boot) ==
  IF Active(A) \notin boot /\ Active(B) \notin boot
    THEN success_slot({Active(A), Bootable(A), Try})
  ELSE IF on_trial(boot, A) THEN start_trial(boot, A)
  ELSE IF on_trial(boot, B) THEN start_trial(boot, B)
  ELSE success_slot(boot)
=============================================================================
