------------------------------ MODULE ABUpgrade -----------------------------
(***************************************************************************)
(* What an A/B upgrade promises, without flags, saves or loader logic: a   *)
(* device has two slots, a target it is meant to run, and a set of slots   *)
(* that were confirmed to come up.  It runs the target or, when that one   *)
(* was tried and not confirmed, falls back to a confirmed slot.  Only a    *)
(* slot that is neither confirmed nor running is ever written.             *)
(*                                                                         *)
(* README.md, bootctl: "supports upgrading one of the partitions, marking  *)
(* the partition status as bootable after the upgrade is complete, and     *)
(* marking it as successful after a successful startup. If startup fails,  *)
(* set another slot as active and make the next attempt."                  *)
(***************************************************************************)
CONSTANTS
  Slot,      \* the slots
  Content,   \* what a slot may hold
  Whole,     \* the contents left by a finished installation
  Works      \* the contents that come up, some of the whole ones

VARIABLES
  phase,       \* "off", "chosen" (the loader has made its choice) or "on"
  running,     \* the slot chosen by the last start
  target,      \* the slot to run
  confirmed,   \* the slots known to come up with what they hold
  tried,       \* the slots whose content was started
  content      \* what each slot holds

vars == <<phase, running, target, confirmed, tried, content>>

Init ==
  /\ phase = "off"
  /\ running \in Slot /\ target = running
  /\ confirmed = {} /\ tried = {}
  /\ content \in [Slot -> Whole] /\ content[running] \in Works

\* The slots a start may choose: the target and no other one, unless its trial
\* has failed; then a confirmed slot.
Eligible ==
  IF target \in confirmed \/ target \notin tried THEN {target} ELSE confirmed

ChooseFrom(slots) ==
  /\ phase = "off" /\ phase' = "chosen"
  /\ \E s \in slots : running' = s /\ target' = s
  /\ UNCHANGED <<confirmed, tried, content>>

Choose == ChooseFrom(Eligible)

\* A start that breaks the promise, and is no step of Next: a target that was
\* never tried is given up for a confirmed slot.
GiveUp == target \notin confirmed \union tried /\ ChooseFrom(confirmed)

\* The choice when the device has never confirmed any slot: there is
\* nothing to fall back to, and the target is started again.
ChooseAgain ==
  /\ phase = "off" /\ phase' = "chosen"
  /\ confirmed = {}
  /\ running' = target
  /\ UNCHANGED <<target, confirmed, tried, content>>

Start ==
  /\ phase = "chosen" /\ phase' = "on"
  /\ tried' = tried \union {running}
  /\ UNCHANGED <<running, target, confirmed, content>>

Confirm ==
  /\ phase = "on" /\ running = target /\ content[running] \in Works
  /\ confirmed' = confirmed \union {running}
  /\ UNCHANGED <<phase, running, target, tried, content>>

\* An upgrade begins: the slot it will write is no fallback any more.
Prepare ==
  /\ phase = "on" /\ running = target
  /\ running \in confirmed
  /\ \E s \in Slot \ {running} : confirmed' = confirmed \ {s}
  /\ UNCHANGED <<phase, running, target, tried, content>>

\* A slot that nobody relies on is written, so what it holds is untried.
Write ==
  /\ phase = "on"
  /\ \E s \in Slot \ (confirmed \union {running, target}), c \in Content :
       /\ content' = [content EXCEPT ![s] = c]
       /\ tried' = tried \ {s}
  /\ UNCHANGED <<phase, running, target, confirmed>>

\* The upgrade is done: a whole image becomes the target.
Switch ==
  /\ phase = "on"
  /\ \E s \in Slot \ {target} : content[s] \in Whole /\ target' = s
  /\ UNCHANGED <<phase, running, confirmed, tried, content>>

Off ==
  /\ phase = "on" /\ phase' = "off"
  /\ UNCHANGED <<running, target, confirmed, tried, content>>

Next ==
  \/ Choose \/ ChooseAgain \/ Start \/ Confirm
  \/ Prepare \/ Write \/ Switch \/ Off

Spec == Init /\ [][Next]_vars
=============================================================================
