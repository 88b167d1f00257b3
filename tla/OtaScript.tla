----------------------------- MODULE OtaScript ------------------------------
(***************************************************************************)
(* The recovery system running the ota.sh of a package: what the script    *)
(* that gen_ota_zip.py generated does to the partitions and to the         *)
(* ota.progress.* properties.  dd, ddelta_apply and avb_verify are other   *)
(* programs: they take time and may fail.                                  *)
(***************************************************************************)
EXTENDS GenOta, OtaProps

CONSTANT Packages   \* the arguments gen_ota_zip.py may have been called with

VARIABLES
  script,    \* the ota.sh of the package being installed
  pos,       \* the instruction that comes next
  phase,     \* "running", "writing" (inside dd or ddelta_apply) or "exited"
  part       \* the content of each partition

scriptVars == <<script, pos, phase, part>>

Content == {"old", "partial", "new", "skipped"}

ScriptInit ==
  /\ \E args \in Packages :
       script = ota_sh(args) /\ part = [p \in Partitions(args) |-> "old"]
  /\ pos = 1 /\ phase = "running"
  /\ current = 0 /\ next = 0
  /\ up = TRUE

At(ops) == /\ up /\ phase = "running" /\ pos <= Len(script)
           /\ script[pos].op \in ops
Val     == script[pos].val

Goto(n) == pos' = n /\ UNCHANGED script

\* setprop ota.progress.current -1, then exit.
Fail == /\ current' = -1 /\ phase' = "exited"
        /\ UNCHANGED <<script, pos, next>>

Setprop ==
  /\ At({"current", "next"})
  /\ current' = IF At({"current"}) THEN Val ELSE current
  /\ next' = IF At({"next"}) THEN Val ELSE next
  /\ Goto(pos + 1) /\ UNCHANGED <<phase, part, up>>

\* The version is too old, or a device node is missing.
Check ==
  /\ At({"version", "device"})
  /\ \/ Goto(pos + 1) /\ UNCHANGED <<phase, current, next>>
     \/ Fail
  /\ UNCHANGED <<part, up>>

\* if [ ! -e /ota/<last bin> ] around the patches.
Guard ==
  /\ At({"unless"})
  /\ \E skip \in {0, Val} : Goto(pos + 1 + skip)
  /\ UNCHANGED <<phase, part, current, next, up>>

RunUserScript ==
  /\ At({"user"})
  /\ Goto(pos + 1) /\ UNCHANGED <<phase, part, current, next, up>>

\* avb_verify -c refuses the image: echo "skip ...".
Skip ==
  /\ At({"verify"})
  /\ part' = [part EXCEPT ![Val] = "skipped"]
  /\ Goto(pos + 1) /\ UNCHANGED <<phase, current, next, up>>

StartWrite ==
  /\ At({"dd", "verify", "ddelta"})
  /\ part' = [part EXCEPT ![Val] = "partial"]
  /\ phase' = "writing"
  /\ UNCHANGED <<script, pos, current, next, up>>

FinishWrite ==
  /\ up /\ phase = "writing"
  /\ part' = [part EXCEPT ![Val] = "new"]
  /\ phase' = "running"
  /\ Goto(pos + 1) /\ UNCHANGED <<current, next, up>>

\* dd fails: reboot.  ddelta_apply fails: report it and exit.
WriteFails ==
  /\ up /\ phase = "writing"
  /\ \/ /\ script[pos].op = "ddelta"
        /\ Fail /\ UNCHANGED up
     \/ /\ script[pos].op # "ddelta"
        /\ up' = FALSE /\ UNCHANGED <<script, pos, phase, current, next>>
  /\ UNCHANGED part

Exit ==
  /\ up /\ phase = "running" /\ pos > Len(script)
  /\ phase' = "exited"
  /\ UNCHANGED <<script, pos, part, current, next, up>>

ScriptNext ==
  \/ Setprop \/ Check \/ Guard \/ RunUserScript \/ Skip \/ StartWrite
  \/ FinishWrite \/ WriteFails \/ Exit
=============================================================================
