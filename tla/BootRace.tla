------------------------------ MODULE BootRace ------------------------------
(***************************************************************************)
(* Two bootctl programs at the same time on a running system: the one that *)
(* the start script calls to report success, and those of a client that    *)
(* upgrades the other slot.  Each reads the seven properties one by one    *)
(* (bootctl_read_config), changes its copy, and writes all seven back      *)
(* (bootctl_write_config); there is no lock.  A client whose command fails *)
(* calls it again.                                                         *)
(***************************************************************************)
EXTENDS BootCtl

CONSTANT MaxFaults   \* bound on the calls of a save that fail

VARIABLES
  kv,        \* the persist.boot.* flags that are true
  running,   \* the slot that runs
  cmd,       \* the command each process is in
  at,        \* 1..7 reading, 8 changing, 9..15 writing, 16 property_commit
  boot,      \* each process's struct bootctl_s
  client,    \* how far the upgrade is
  faults     \* failed calls so far

vars == <<kv, running, cmd, at, boot, client, faults>>

Process == {"startup", "client"}
Target == CHOOSE s \in Slot : s # running

\* The configurations the loader may find: nothing stored, or slot s switched to
\* and the other one successful.
Stored == {{}} \union
  {{Active(s), Bootable(s)} \union UNION {{Bootable(r), Successful(r)} : r \in Slot \ {s}}
     : s \in Slot}

Init ==
  /\ \E c \in Stored : /\ kv = bootctl_boot(c).boot
                       /\ running = bootctl_boot(c).path
  /\ cmd = [p \in Process |-> "none"]
  /\ at = [p \in Process |-> 0]
  /\ boot = [p \in Process |-> {}]
  /\ client = "idle" /\ faults = 0

----------------------------------------------------------------------------
\* Process p enters command c.
Enter(p, c) ==
  /\ cmd[p] = "none"
  /\ cmd' = [cmd EXCEPT ![p] = c] /\ at' = [at EXCEPT ![p] = 1]
  /\ boot' = [boot EXCEPT ![p] = {}]
  /\ UNCHANGED <<kv, running, client, faults>>

\* The start script calls bootctl once.
Startup == at["startup"] = 0 /\ Enter("startup", "success")

\* The client calls update, and done when the slot is written.
Client ==
  \/ client = "idle" /\ Enter("client", "update")
  \/ client = "installed" /\ Enter("client", "done")

\* One property_get_bool of bootctl_read_config, in the order of WriteOrder.
ReadFlag(p) ==
  /\ cmd[p] # "none" /\ at[p] <= 7
  /\ boot' = [boot EXCEPT ![p] = @ \union ({WriteOrder[at[p]]} \intersect kv)]
  /\ at' = [at EXCEPT ![p] = @ + 1]
  /\ UNCHANGED <<kv, running, cmd, client, faults>>

\* The command returns to its caller, which goes on in state next.
Return(p, next) ==
  /\ cmd' = [cmd EXCEPT ![p] = "none"]
  /\ client' = IF p = "client" THEN next ELSE client
  /\ UNCHANGED <<kv, running, at, boot>>

\* The command changes its copy; bootctl_success may have nothing to save.
Change(p) ==
  /\ cmd[p] # "none" /\ at[p] = 8
  /\ \/ /\ cmd[p] = "success" /\ ~ success_due(boot[p])
        /\ Return(p, client) /\ UNCHANGED faults
     \/ /\ cmd[p] = "success" => success_due(boot[p])
        /\ boot' = [boot EXCEPT ![p] = CASE cmd[p] = "success" -> bootctl_success(@)
                                         [] cmd[p] = "update"  -> bootctl_update(@)
                                         [] cmd[p] = "done"    -> bootctl_done(@)]
        /\ at' = [at EXCEPT ![p] = 9]
        /\ UNCHANGED <<kv, running, cmd, client, faults>>

WriteFlag(p) ==
  /\ cmd[p] # "none" /\ at[p] \in 9..15
  /\ kv' = property_set(kv, WriteOrder[at[p] - 8], boot[p])
  /\ at' = [at EXCEPT ![p] = @ + 1]
  /\ UNCHANGED <<running, cmd, boot, client, faults>>

Commit(p) ==
  /\ cmd[p] # "none" /\ at[p] = 16
  /\ Return(p, IF cmd[p] = "update" THEN "writing" ELSE "finished")
  /\ UNCHANGED faults

\* A call of bootctl_write_config fails, and the client calls its command again.
Fault(p) ==
  /\ cmd[p] # "none" /\ at[p] >= 9
  /\ faults < MaxFaults /\ faults' = faults + 1
  /\ Return(p, client)

\* The client has written the other slot.
Install ==
  /\ client = "writing" /\ client' = "installed"
  /\ UNCHANGED <<kv, running, cmd, at, boot, faults>>

Next ==
  \/ Startup \/ Client \/ Install
  \/ \E p \in Process : ReadFlag(p) \/ Change(p) \/ WriteFlag(p) \/ Commit(p) \/ Fault(p)

Spec == Init /\ [][Next]_vars
----------------------------------------------------------------------------
\* bootctl.c: "boot update, clear the slot successful and bootable, run when
\* update slot", and "update slot done, switch active slot".  While the client
\* writes the other slot that slot is not marked successful, and once its bootctl
\* done has returned 0 that slot is the active one.
CommandsTakeEffect ==
  /\ client \in {"writing", "installed"} /\ cmd["client"] = "none"
       => Successful(Target) \notin kv
  /\ client = "finished" => bootctl_active(kv) = {Target}
=============================================================================
