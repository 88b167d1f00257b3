------------------------------ MODULE OtaProps ------------------------------
(***************************************************************************)
(* What ota.sh and otaUI share in the recovery system: the properties      *)
(* ota.progress.current and ota.progress.next (0 when never set: strtol of *)
(* an empty string, or the failed property_get), and the device itself.    *)
(***************************************************************************)
VARIABLES
  current,   \* property ota.progress.current
  next,      \* property ota.progress.next
  up         \* FALSE once the device has been told to reboot
=============================================================================
