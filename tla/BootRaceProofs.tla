--------------------------- MODULE BootRaceProofs ---------------------------
(***************************************************************************)
(* What the lack of a lock costs: two bootctl commands that never overlap, *)
(* each from its first property_get_bool to its property_commit, always do *)
(* what bootctl.c says of them.  BootRace shows what happens when they do  *)
(* overlap.                                                                *)
(***************************************************************************)
EXTENDS BootRace, TLAPS

\* Only one of the two processes is inside a command.
Exclusive == cmd["startup"] = "none" \/ cmd["client"] = "none"

----------------------------------------------------------------------------
(* The inductive invariant.                                                *)

RaceType ==
  /\ running \in Slot /\ faults = 0
  /\ cmd \in [Process -> {"none", "success", "update", "done"}]
  /\ at \in [Process -> 0..16] /\ DOMAIN boot = Process
  /\ client \in {"idle", "writing", "installed", "finished"}
  /\ cmd["startup"] \in {"none", "success"}
  /\ cmd["client"] \in {"none", "update", "done"}
  /\ cmd["client"] = "update" => client = "idle"
  /\ cmd["client"] = "done" => client = "installed"
  /\ \A p \in Process : cmd[p] # "none" => at[p] >= 1

\* The first n flags of b are those of the store.
Same(b, n) == \A i \in 1..n : WriteOrder[i] \in b <=> WriteOrder[i] \in kv

\* What a process has read is what is stored, and so is what it has written.
CopyInv ==
  \A p \in Process : cmd[p] # "none" =>
    /\ at[p] <= 8 => boot[p] \subseteq kv /\ Same(boot[p], at[p] - 1)
    /\ at[p] >= 9 => Same(boot[p], at[p] - 9)

Held(b)  == Active(running) \in b /\ Active(Target) \notin b
Taken(b) == Active(Target) \in b /\ Active(running) \notin b

Saving(p) == cmd[p] # "none" /\ at[p] >= 9
Switching == cmd["client"] = "done" /\ at["client"] >= 9
Upgrading == client \in {"writing", "installed"}

\* The running slot is the active one until bootctl done has switched, and what is
\* being saved agrees with that.
ActiveInv ==
  /\ client # "finished" /\ ~ Switching => Held(kv)
  /\ client = "finished" => Taken(kv)
  /\ Switching => Taken(boot["client"])
  /\ cmd["client"] = "update" /\ Saving("client") => Held(boot["client"])
  /\ Saving("startup") =>
       IF client = "finished" THEN Taken(boot["startup"]) ELSE Held(boot["startup"])

\* The slot that is being overwritten is not marked, nor about to be.
MarkInv ==
  /\ Upgrading => Successful(Target) \notin kv
  /\ Saving("client") => Successful(Target) \notin boot["client"]
  /\ Saving("startup") /\ Upgrading => Successful(Target) \notin boot["startup"]

RaceInv == RaceType /\ CopyInv /\ ActiveInv /\ MarkInv

----------------------------------------------------------------------------
(* Flags and slots.                                                        *)

\* The slot to be upgraded is not the one that runs.
LEMMA Targets ==
  ASSUME running \in Slot
  PROVE  Target \in Slot /\ Target # running /\ \A s \in Slot : s = running \/ s = Target
<1>1. \E s \in Slot : s # running
  BY DEF Slot, A, B
<1>2. Target \in Slot /\ Target # running
  BY <1>1 DEF Target
<1> QED
  BY <1>2 DEF Slot

\* The keys of different flags differ.
LEMMA FlagsDiffer ==
  ASSUME NEW s \in Slot, NEW r \in Slot
  PROVE  /\ Active(s) # Bootable(r) /\ Active(s) # Successful(r)
         /\ Bootable(s) # Successful(r)
         /\ Active(s) # Try /\ Successful(s) # Try
         /\ s # r => Active(s) # Active(r) /\ Successful(s) # Successful(r)
BY DEF Slot, A, B, Active, Bootable, Successful, Try

\* A copy of all seven flags has those of both slots.
LEMMA SameFlags ==
  ASSUME NEW b, Same(b, 7), NEW s \in Slot
  PROVE  /\ Active(s) \in b <=> Active(s) \in kv
         /\ Successful(s) \in b <=> Successful(s) \in kv
<1>1. /\ WriteOrder[1] = Active(A) /\ WriteOrder[3] = Successful(A)
      /\ WriteOrder[4] = Active(B) /\ WriteOrder[6] = Successful(B)
  BY DEF WriteOrder
<1>2. 1 \in 1..7 /\ 3 \in 1..7 /\ 4 \in 1..7 /\ 6 \in 1..7
  OBVIOUS
<1>3. /\ Active(A) \in b <=> Active(A) \in kv
      /\ Successful(A) \in b <=> Successful(A) \in kv
      /\ Active(B) \in b <=> Active(B) \in kv
      /\ Successful(B) \in b <=> Successful(B) \in kv
  BY <1>1, <1>2, Zenon DEF Same
<1> QED
  BY <1>3 DEF Slot

\* The slots that a command takes to be the current and the other one.
LEMMA CurrentIs ==
  ASSUME running \in Slot, NEW b
  PROVE  /\ Held(b) => CurrentSlot(b) = running /\ OtherSlot(b) = Target
         /\ Taken(b) => CurrentSlot(b) = Target /\ OtherSlot(b) = running
<1>1. Target \in Slot /\ Target # running
  BY Targets
<1> QED
  BY <1>1 DEF Held, Taken, CurrentSlot, OtherSlot, Slot

\* What the commands make of a configuration.
LEMMA Commands ==
  ASSUME running \in Slot, NEW b
  PROVE  /\ Held(b) => /\ Held(bootctl_update(b)) /\ Taken(bootctl_done(b))
                       /\ Held(bootctl_success(b))
                       /\ Successful(Target) \notin bootctl_update(b)
                       /\ Successful(Target) \notin b =>
                            /\ Successful(Target) \notin bootctl_done(b)
                            /\ Successful(Target) \notin bootctl_success(b)
         /\ Taken(b) => Taken(bootctl_success(b))
<1>1. Target \in Slot /\ Target # running
  BY Targets
<1>2. /\ Active(running) # Active(Target) /\ Successful(running) # Successful(Target)
      /\ \A s, r \in Slot : /\ Active(s) # Bootable(r) /\ Active(s) # Successful(r)
                            /\ Bootable(s) # Successful(r) /\ Active(s) # Try
                            /\ Successful(s) # Try
  BY <1>1, FlagsDiffer
<1>3. ASSUME Held(b)
      PROVE  /\ Held(bootctl_update(b)) /\ Taken(bootctl_done(b))
             /\ Held(bootctl_success(b))
             /\ Successful(Target) \notin bootctl_update(b)
             /\ Successful(Target) \notin b =>
                  /\ Successful(Target) \notin bootctl_done(b)
                  /\ Successful(Target) \notin bootctl_success(b)
  <2>1. CurrentSlot(b) = running /\ OtherSlot(b) = Target
    BY <1>3, CurrentIs
  <2>2. /\ bootctl_update(b) = b \ {Successful(Target), Bootable(Target), Active(Target)}
        /\ bootctl_done(b)
             = (b \union {Bootable(Target), Active(Target)}) \ {Active(running)}
        /\ bootctl_success(b) = (b \ {Try}) \union {Successful(running)}
    BY <2>1 DEF bootctl_update, bootctl_done, bootctl_success
  <2> QED
    BY <1>1, <1>2, <1>3, <2>2 DEF Held, Taken
<1>4. ASSUME Taken(b) PROVE Taken(bootctl_success(b))
  <2>1. bootctl_success(b) = (b \ {Try}) \union {Successful(Target)}
    BY <1>4, CurrentIs DEF bootctl_success
  <2> QED
    BY <1>1, <1>2, <1>4, <2>1 DEF Taken
<1> QED
  BY <1>3, <1>4

----------------------------------------------------------------------------
(* The steps.                                                              *)

\* No process but p is inside a command when p is.
LEMMA Alone ==
  ASSUME RaceInv, Exclusive, NEW p \in Process, cmd[p] # "none"
  PROVE  \A q \in Process : q # p => cmd[q] = "none"
BY DEF Exclusive, Process

\* The slot to be upgraded stays the same while the same slot runs.
LEMMA TargetStays == ASSUME running' = running PROVE Target' = Target
BY DEF Target

\* A command begins.
LEMMA EnterStep ==
  ASSUME RaceInv, NEW p \in Process, NEW c, Enter(p, c),
         \/ p = "startup" /\ c = "success"
         \/ p = "client" /\ c = "update" /\ client = "idle"
         \/ p = "client" /\ c = "done" /\ client = "installed"
  PROVE  RaceInv'
<1>1. /\ cmd[p] = "none" /\ cmd' = [cmd EXCEPT ![p] = c] /\ at' = [at EXCEPT ![p] = 1]
      /\ boot' = [boot EXCEPT ![p] = {}]
      /\ kv' = kv /\ running' = running /\ client' = client /\ faults' = faults
  BY DEF Enter
<1>2. /\ cmd'[p] = c /\ at'[p] = 1 /\ boot'[p] = {}
      /\ \A q \in Process : q # p =>
           cmd'[q] = cmd[q] /\ at'[q] = at[q] /\ boot'[q] = boot[q]
  BY <1>1 DEF RaceInv, RaceType
<1>3. RaceType'
  BY <1>1, <1>2 DEF RaceInv, RaceType, Process
<1>4. CopyInv'
  <2>1. \A b, n : Same(b, n)' <=> Same(b, n)
    BY <1>1 DEF Same
  <2>2. at'[p] - 1 = 0 /\ Same({}, 0) /\ ~ (at'[p] >= 9)
    BY <1>2 DEF Same
  <2> QED
    BY <1>1, <1>2, <2>1, <2>2 DEF RaceInv, CopyInv, Same
<1>5. ActiveInv' /\ MarkInv'
  <2>1. Target' = Target
    BY <1>1, TargetStays
  <2>2. ~ Saving(p)' /\ ~ Saving(p) /\ \A q \in Process : q # p => Saving(q)' = Saving(q)
    BY <1>1, <1>2 DEF Saving
  <2>3. Switching' => Switching
    BY <1>1, <1>2 DEF Switching, Process
  <2>4. Switching => p # "client"
    BY <1>1 DEF Switching
  <2> QED
    BY <1>1, <1>2, <2>1, <2>2, <2>3, <2>4
    DEF RaceInv, ActiveInv, MarkInv, Held, Taken, Switching, Saving, Upgrading, Process
<1> QED
  BY <1>3, <1>4, <1>5 DEF RaceInv

\* A flag is read.
LEMMA ReadStep ==
  ASSUME RaceInv, Exclusive, NEW p \in Process, ReadFlag(p)
  PROVE  RaceInv'
<1> DEFINE f == WriteOrder[at[p]]
<1>1. /\ cmd[p] # "none" /\ at[p] \in 1..7 /\ at' = [at EXCEPT ![p] = @ + 1]
      /\ boot' = [boot EXCEPT ![p] = @ \union ({f} \intersect kv)]
      /\ kv' = kv /\ running' = running /\ client' = client /\ faults' = faults
      /\ cmd' = cmd
  BY DEF ReadFlag, RaceInv, RaceType
<1>2. /\ at'[p] = at[p] + 1 /\ boot'[p] = boot[p] \union ({f} \intersect kv)
      /\ \A q \in Process : q # p => at'[q] = at[q] /\ boot'[q] = boot[q]
  BY <1>1 DEF RaceInv, RaceType
<1>3. RaceType'
  BY <1>1, <1>2 DEF RaceInv, RaceType, Process
<1>4. CopyInv'
  <2>1. boot[p] \subseteq kv /\ Same(boot[p], at[p] - 1)
    BY <1>1 DEF RaceInv, CopyInv
  <2>2. boot'[p] \subseteq kv
    BY <1>2, <2>1
  <2>3. ASSUME NEW i \in 1..at[p]
        PROVE  WriteOrder[i] \in boot'[p] <=> WriteOrder[i] \in kv
    <3>1. CASE i = at[p]
      BY <1>2, <2>2, <3>1
    <3>2. CASE i # at[p]
      <4>1. i \in 1..(at[p] - 1)
        BY <1>1, <3>2
      <4>2. WriteOrder[i] \in boot[p] <=> WriteOrder[i] \in kv
        BY <2>1, <4>1 DEF Same
      <4> QED
        BY <1>2, <2>2, <4>2
    <3> QED
      BY <3>1, <3>2
  <2>4. at'[p] - 1 = at[p] /\ ~ (at'[p] >= 9)
    BY <1>1, <1>2
  <2>5. Same(boot[p], at[p] - 1)'
    BY <1>1, <2>3, <2>4 DEF Same
  <2>6. \A q \in Process : q # p => cmd'[q] = "none"
    BY <1>1, Alone
  <2> QED
    BY <1>1, <2>2, <2>4, <2>5, <2>6 DEF CopyInv
<1>5. ActiveInv' /\ MarkInv'
  <2>1. Target' = Target
    BY <1>1, TargetStays
  <2>2. at'[p] <= 8 /\ ~ (at'[p] >= 9) /\ ~ (at[p] >= 9)
    BY <1>1, <1>2
  <2>3. ~ Saving(p)' /\ ~ Saving(p) /\ \A q \in Process : q # p => Saving(q)' = Saving(q)
    BY <1>1, <1>2, <2>2 DEF Saving
  <2>4. (Switching' <=> Switching) /\ (Switching => p # "client")
    BY <1>1, <1>2, <2>2 DEF Switching, Process
  <2> QED
    BY <1>1, <1>2, <2>1, <2>3, <2>4
    DEF RaceInv, ActiveInv, MarkInv, Held, Taken, Upgrading, Process
<1> QED
  BY <1>3, <1>4, <1>5 DEF RaceInv

\* A command leaves without a save, or after it.
LEMMA LeaveStep ==
  ASSUME RaceInv, NEW p \in Process, NEW next, Return(p, next), faults' = faults,
         cmd[p] # "none",
         \A q \in Process : q # p => cmd[q] = "none",
         \/ p = "startup"
         \/ p = "client" /\ next = "writing" /\ Held(kv) /\ Successful(Target) \notin kv
         \/ p = "client" /\ next = "finished" /\ Taken(kv)
  PROVE  RaceInv'
<1>1. /\ cmd' = [cmd EXCEPT ![p] = "none"]
      /\ client' = IF p = "client" THEN next ELSE client
      /\ kv' = kv /\ running' = running /\ at' = at /\ boot' = boot
  BY DEF Return
<1>2. \A q \in Process : cmd'[q] = "none"
  BY <1>1 DEF RaceInv, RaceType
<1>3. RaceType'
  BY <1>1, <1>2 DEF RaceInv, RaceType, Process
<1>4. CopyInv'
  BY <1>2 DEF CopyInv
<1>5. ActiveInv' /\ MarkInv'
  <2>1. Target' = Target
    BY <1>1, TargetStays
  <2>2. ~ Switching' /\ ~ Saving("client")' /\ ~ Saving("startup")'
    BY <1>2 DEF Switching, Saving, Process
  <2>3. CASE p = "startup"
    <3>1. ~ Switching /\ client' = client
      BY <1>1, <2>3 DEF Switching, Process
    <3> QED
      BY <1>1, <2>1, <2>2, <3>1
      DEF RaceInv, ActiveInv, MarkInv, Held, Taken, Upgrading
  <2>4. CASE p = "client"
    BY <1>1, <2>1, <2>2, <2>4 DEF ActiveInv, MarkInv, Held, Taken, Upgrading
  <2> QED
    BY <2>3, <2>4 DEF Process
<1> QED
  BY <1>3, <1>4, <1>5 DEF RaceInv

\* The copy is changed.
LEMMA ChangeStep ==
  ASSUME RaceInv, Exclusive, NEW p \in Process, Change(p)
  PROVE  RaceInv'
<1>1. cmd[p] # "none" /\ at[p] = 8 /\ \A q \in Process : q # p => cmd[q] = "none"
  BY Alone DEF Change
<1>2. running \in Slot /\ Target \in Slot
  BY Targets DEF RaceInv, RaceType
<1>3. Same(boot[p], 7)
  BY <1>1 DEF RaceInv, CopyInv
<1>4. /\ \A s \in Slot : Active(s) \in boot[p] <=> Active(s) \in kv
      /\ \A s \in Slot : Successful(s) \in boot[p] <=> Successful(s) \in kv
  BY <1>3, SameFlags
<1>5. ~ Switching
  BY <1>1 DEF Switching, Process
<1>6. /\ client # "finished" => Held(boot[p])
      /\ client = "finished" => Taken(boot[p])
      /\ Upgrading => Successful(Target) \notin boot[p]
  BY <1>2, <1>4, <1>5 DEF RaceInv, ActiveInv, MarkInv, Held, Taken
<1>7. CASE cmd[p] = "success" /\ Return(p, client) /\ UNCHANGED faults
  <2>1. p = "startup"
    BY <1>7 DEF RaceInv, RaceType, Process
  <2> QED
    BY <1>1, <1>7, <2>1, LeaveStep
<1> DEFINE new == CASE cmd[p] = "success" -> bootctl_success(boot[p])
                    [] cmd[p] = "update"  -> bootctl_update(boot[p])
                    [] cmd[p] = "done"    -> bootctl_done(boot[p])
<1>8. CASE /\ boot' = [boot EXCEPT ![p] = new]
           /\ at' = [at EXCEPT ![p] = 9]
           /\ UNCHANGED <<kv, running, cmd, client, faults>>
  <2>1. /\ at'[p] = 9 /\ boot'[p] = new
        /\ \A q \in Process : q # p => at'[q] = at[q] /\ boot'[q] = boot[q]
    BY <1>8 DEF RaceInv, RaceType
  <2>2. Target' = Target
    BY <1>8, TargetStays
  <2>3. RaceType'
    BY <1>8, <2>1 DEF RaceInv, RaceType, Process
  <2>4. CopyInv'
    <3>1. at'[p] - 9 = 0 /\ ~ (at'[p] <= 8)
      BY <2>1
    <3>2. cmd' = cmd
      BY <1>8
    <3>3. Same(boot[p], at[p] - 9)'
      BY <3>1 DEF Same
    <3> QED
      BY <1>1, <3>1, <3>2, <3>3 DEF CopyInv
  <2>5. CASE p = "startup"
    <3>1. cmd[p] = "success" /\ new = bootctl_success(boot[p])
      BY <1>1, <2>5 DEF RaceInv, RaceType
    <3>2. /\ IF client = "finished" THEN Taken(new) ELSE Held(new)
          /\ Upgrading => Successful(Target) \notin new
      BY <1>2, <1>6, <3>1, Commands DEF Upgrading
    <3> HIDE DEF new
    <3>3. ~ Switching' /\ ~ Saving("client")' /\ cmd'["client"] = "none"
      BY <1>1, <1>8, <2>5 DEF Switching, Saving, Process
    <3>4. ActiveInv' /\ MarkInv'
      BY <1>5, <1>8, <2>1, <2>2, <2>5, <3>2, <3>3
      DEF RaceInv, ActiveInv, MarkInv, Held, Taken, Upgrading
    <3> QED
      BY <2>3, <2>4, <3>4 DEF RaceInv
  <2>6. CASE p = "client"
    <3>1. /\ cmd[p] \in {"update", "done"} /\ client # "finished"
          /\ cmd[p] = "done" => Upgrading
      BY <1>1, <2>6 DEF RaceInv, RaceType, Upgrading
    <3>2. ~ Saving("startup")'
      BY <1>1, <1>8, <2>6 DEF Saving, Process
    <3>3. CASE cmd[p] = "update"
      <4>1. new = bootctl_update(boot[p])
        BY <3>3
      <4>2. Held(new) /\ Successful(Target) \notin new
        BY <1>2, <1>6, <3>1, <4>1, Commands
      <4> HIDE DEF new
      <4>3. ~ Switching'
        BY <1>8, <2>6, <3>3 DEF Switching
      <4>4. ActiveInv' /\ MarkInv'
        BY <1>5, <1>8, <2>1, <2>2, <2>6, <3>1, <3>2, <4>2, <4>3
        DEF RaceInv, ActiveInv, MarkInv, Held, Taken, Upgrading
      <4> QED
        BY <2>3, <2>4, <4>4 DEF RaceInv
    <3>4. CASE cmd[p] = "done"
      <4>1. new = bootctl_done(boot[p])
        BY <3>4
      <4>2. Taken(new) /\ Successful(Target) \notin new
        BY <1>2, <1>6, <3>1, <3>4, <4>1, Commands
      <4> HIDE DEF new
      <4>3. ActiveInv' /\ MarkInv'
        BY <1>5, <1>8, <2>1, <2>2, <2>6, <3>1, <3>2, <3>4, <4>2
        DEF RaceInv, ActiveInv, MarkInv, Held, Taken, Upgrading, Switching, Saving
      <4> QED
        BY <2>3, <2>4, <4>3 DEF RaceInv
    <3> QED
      BY <3>1, <3>3, <3>4
  <2> QED
    BY <2>5, <2>6 DEF Process
<1> QED
  BY <1>7, <1>8 DEF Change

\* A flag is written.
LEMMA WriteStep ==
  ASSUME RaceInv, Exclusive, NEW p \in Process, WriteFlag(p)
  PROVE  RaceInv'
<1> DEFINE k == WriteOrder[at[p] - 8]
           b == boot[p]
<1>1. /\ cmd[p] # "none" /\ at[p] \in 9..15 /\ kv' = property_set(kv, k, b)
      /\ at' = [at EXCEPT ![p] = @ + 1]
      /\ UNCHANGED <<running, cmd, boot, client, faults>>
  BY DEF WriteFlag
<1>2. \A f : f \in kv' <=> IF f = k THEN f \in b ELSE f \in kv
  BY <1>1 DEF property_set
<1>3. at'[p] = at[p] + 1 /\ \A q \in Process : q # p => at'[q] = at[q] /\ cmd[q] = "none"
  BY <1>1, Alone DEF RaceInv, RaceType
<1>4. RaceType'
  BY <1>1, <1>3 DEF RaceInv, RaceType, Process
<1>5. CopyInv'
  <2>1. Same(b, at[p] - 9)
    BY <1>1 DEF RaceInv, CopyInv
  <2>2. ASSUME NEW i \in 1..(at[p] - 8)
        PROVE  WriteOrder[i] \in b <=> WriteOrder[i] \in kv'
    <3>1. CASE i = at[p] - 8
      BY <1>2, <3>1
    <3>2. CASE i # at[p] - 8
      <4>1. i \in 1..(at[p] - 9)
        BY <1>1, <3>2
      <4>2. WriteOrder[i] \in b <=> WriteOrder[i] \in kv
        BY <2>1, <4>1 DEF Same
      <4> QED
        BY <1>2, <4>2
    <3> QED
      BY <3>1, <3>2
  <2>3. at'[p] - 9 = at[p] - 8 /\ ~ (at'[p] <= 8)
    BY <1>1, <1>3
  <2>4. Same(boot[p], at[p] - 9)'
    BY <1>1, <2>2, <2>3 DEF Same
  <2> QED
    BY <1>1, <1>3, <2>3, <2>4 DEF CopyInv
<1>6. ActiveInv' /\ MarkInv'
  <2>1. Target' = Target
    BY <1>1, TargetStays
  <2>2. at'[p] >= 9 /\ at[p] >= 9
    BY <1>1, <1>3
  <2>3. Saving(p) /\ \A q \in Process : Saving(q)' = Saving(q)
    BY <1>1, <1>3, <2>2 DEF Saving
  <2>4. Switching' <=> Switching
    BY <1>1, <1>3, <2>2 DEF Switching, Process
  <2>5. CASE p = "startup"
    <3>1. ~ Switching /\ cmd["client"] = "none" /\ ~ Saving("client")
      BY <1>3, <2>5 DEF Switching, Saving, Process
    <3>2. Saving("startup") /\ b = boot["startup"]
      BY <2>3, <2>5
    <3>3. IF client = "finished" THEN Taken(b) ELSE Held(b)
      BY <3>2 DEF RaceInv, ActiveInv
    <3>4. IF client = "finished" THEN Taken(kv)' ELSE Held(kv)'
      <4>1. IF client = "finished" THEN Taken(kv) ELSE Held(kv)
        BY <3>1 DEF RaceInv, ActiveInv
      <4> HIDE DEF b, k
      <4> QED
        BY <1>1, <1>2, <2>1, <3>3, <4>1 DEF Held, Taken
    <3>5. ActiveInv'
      BY <1>1, <2>1, <2>3, <2>4, <3>1, <3>2, <3>3, <3>4 DEF ActiveInv, Held, Taken, Process
    <3>6. MarkInv'
      <4>1. Upgrading => Successful(Target) \notin kv /\ Successful(Target) \notin b
        BY <3>2 DEF RaceInv, MarkInv
      <4>2. Upgrading => Successful(Target) \notin kv'
        <5> HIDE DEF b, k
        <5> QED
          BY <1>2, <4>1
      <4> QED
        BY <1>1, <2>1, <2>3, <3>1, <3>2, <4>1, <4>2 DEF MarkInv, Upgrading, Process
    <3> QED
      BY <3>5, <3>6
  <2>6. CASE p = "client"
    <3>1. ~ Saving("startup")
      BY <1>3, <2>6 DEF Saving, Process
    <3>2. cmd["client"] \in {"update", "done"} /\ client # "finished"
      BY <1>1, <2>6 DEF RaceInv, RaceType
    <3>3. Switching <=> cmd["client"] = "done"
      BY <2>2, <2>6 DEF Switching
    <3> QED
      BY <1>1, <1>2, <2>1, <2>3, <2>4, <2>6, <3>1, <3>2, <3>3
      DEF RaceInv, ActiveInv, MarkInv, Held, Taken, Upgrading, Process
  <2> QED
    BY <2>5, <2>6 DEF Process
<1> QED
  BY <1>4, <1>5, <1>6 DEF RaceInv

\* A save ends.
LEMMA CommitStep ==
  ASSUME RaceInv, Exclusive, NEW p \in Process, Commit(p)
  PROVE  RaceInv'
<1>1. /\ cmd[p] # "none" /\ at[p] = 16 /\ faults' = faults
      /\ Return(p, IF cmd[p] = "update" THEN "writing" ELSE "finished")
      /\ \A q \in Process : q # p => cmd[q] = "none"
  BY Alone DEF Commit
<1>2. CASE p = "startup"
  BY <1>1, <1>2, LeaveStep
<1>3. CASE p = "client"
  <2>1. running \in Slot /\ Target \in Slot /\ Same(boot[p], 7) /\ Saving("client")
    BY <1>1, <1>3, Targets DEF RaceInv, RaceType, CopyInv, Saving
  <2>2. /\ \A s \in Slot : Active(s) \in boot[p] <=> Active(s) \in kv
        /\ \A s \in Slot : Successful(s) \in boot[p] <=> Successful(s) \in kv
    BY <2>1, SameFlags
  <2>3. Successful(Target) \notin kv
    BY <1>3, <2>1, <2>2 DEF RaceInv, MarkInv
  <2>4. CASE cmd[p] = "update"
    <3>1. Held(kv)
      BY <1>3, <2>1, <2>2, <2>4 DEF RaceInv, ActiveInv, Held
    <3> QED
      BY <1>1, <1>3, <2>3, <2>4, <3>1, LeaveStep
  <2>5. CASE cmd[p] = "done"
    <3>1. Taken(kv)
      BY <1>1, <1>3, <2>1, <2>2, <2>5 DEF RaceInv, ActiveInv, Taken, Switching
    <3> QED
      BY <1>1, <1>3, <2>5, <3>1, LeaveStep
  <2> QED
    BY <1>1, <1>3, <2>4, <2>5 DEF RaceInv, RaceType
<1> QED
  BY <1>2, <1>3 DEF Process

\* The client has written the slot.
LEMMA InstallStep == ASSUME RaceInv, Install PROVE RaceInv'
<1>1. /\ client = "writing" /\ client' = "installed"
      /\ UNCHANGED <<kv, running, cmd, at, boot, faults>>
  BY DEF Install
<1>2. Target' = Target
  BY <1>1, TargetStays
<1>3. RaceType'
  BY <1>1 DEF RaceInv, RaceType
<1>4. CopyInv'
  BY <1>1 DEF RaceInv, CopyInv, Same
<1>5. ActiveInv' /\ MarkInv'
  BY <1>1, <1>2
  DEF RaceInv, ActiveInv, MarkInv, Held, Taken, Upgrading, Switching, Saving
<1> QED
  BY <1>3, <1>4, <1>5 DEF RaceInv

\* The loader leaves the slot that it starts as the active one.
LEMMA LoaderFacts ==
  ASSUME NEW c \in Stored
  PROVE  /\ bootctl_boot(c).path \in Slot
         /\ \A s \in Slot : Active(s) \in bootctl_boot(c).boot <=> s = bootctl_boot(c).path
<1>1. A \in Slot /\ B \in Slot /\ A # B /\ \A s \in Slot : s = A \/ s = B
  BY DEF Slot, A, B
<1>2. \A s, r \in Slot : /\ Active(s) # Bootable(r) /\ Active(s) # Successful(r)
                         /\ Bootable(s) # Successful(r) /\ Active(s) # Try
                         /\ Bootable(s) # Try /\ Successful(s) # Try
                         /\ s # r => /\ Active(s) # Active(r) /\ Bootable(s) # Bootable(r)
                                     /\ Successful(s) # Successful(r)
  BY DEF Slot, A, B, Active, Bootable, Successful, Try
<1>3. CASE c = {}
  <2> DEFINE d == {Active(A), Bootable(A), Try}
  <2>1. bootctl_boot(c) = success_slot(d)
    BY <1>3 DEF bootctl_boot
  <2>2. Successful(A) \notin d /\ Successful(B) \notin d
    BY <1>1, <1>2
  <2>3. success_slot(d) = [path |-> A, boot |-> d \union {Active(A), Bootable(A)}]
    BY <2>2 DEF success_slot
  <2>4. bootctl_boot(c).path = A /\ bootctl_boot(c).boot = d
    BY <2>1, <2>3
  <2> QED
    BY <1>1, <1>2, <2>4
<1>4. ASSUME NEW s \in Slot, NEW r \in Slot, r # s,
             c = {Active(s), Bootable(s), Bootable(r), Successful(r)}
      PROVE  bootctl_boot(c) = [path |-> s, boot |-> c \union {Try}]
  <2>1. on_trial(c, s) /\ ~ on_trial(c, r) /\ Try \notin c
    BY <1>2, <1>4 DEF on_trial
  <2>2. start_trial(c, s) = [path |-> s, boot |-> c \union {Try}]
    BY <2>1 DEF start_trial
  <2>3. ~ (Active(A) \notin c /\ Active(B) \notin c)
    BY <1>1, <1>4
  <2>4. s = A \/ (s = B /\ r = A)
    BY <1>1, <1>4
  <2> QED
    BY <2>1, <2>2, <2>3, <2>4, Zenon DEF bootctl_boot
<1>5. CASE c # {}
  <2>1. PICK s \in Slot :
          c = {Active(s), Bootable(s)}
                \union UNION {{Bootable(r), Successful(r)} : r \in Slot \ {s}}
    BY <1>5 DEF Stored
  <2>2. PICK r \in Slot : r # s
    BY <1>1
  <2>3. Slot \ {s} = {r}
    BY <1>1, <2>2
  <2>4. c = {Active(s), Bootable(s), Bootable(r), Successful(r)}
    BY <2>1, <2>3
  <2>5. bootctl_boot(c).path = s /\ bootctl_boot(c).boot = c \union {Try}
    <3>1. bootctl_boot(c) = [path |-> s, boot |-> c \union {Try}]
      BY <1>4, <2>2, <2>4, Zenon
    <3> QED
      BY <3>1
  <2> QED
    BY <1>2, <2>2, <2>4, <2>5
<1> QED
  BY <1>3, <1>5

\* The invariant holds on a system that has just come up.
LEMMA InitRace == Init => RaceInv
<1> SUFFICES ASSUME Init PROVE RaceInv
  OBVIOUS
<1>1. PICK c \in Stored : kv = bootctl_boot(c).boot /\ running = bootctl_boot(c).path
  BY DEF Init
<1>2. /\ cmd = [p \in Process |-> "none"] /\ at = [p \in Process |-> 0]
      /\ boot = [p \in Process |-> {}] /\ client = "idle" /\ faults = 0
  BY DEF Init
<1>3. running \in Slot /\ \A s \in Slot : Active(s) \in kv <=> s = running
  BY <1>1, LoaderFacts
<1>4. Held(kv)
  BY <1>3, Targets DEF Held
<1>5. \A p \in Process : cmd[p] = "none"
  BY <1>2
<1>6. RaceType
  BY <1>2, <1>3 DEF RaceType, Process
<1>7. CopyInv
  BY <1>5 DEF CopyInv
<1>8. ActiveInv /\ MarkInv
  BY <1>2, <1>4, <1>5 DEF ActiveInv, MarkInv, Switching, Saving, Upgrading, Process
<1> QED
  BY <1>6, <1>7, <1>8 DEF RaceInv

\* Every step keeps it while the commands exclude each other and no call fails.
LEMMA NextRace ==
  ASSUME MaxFaults = 0 PROVE RaceInv /\ Exclusive /\ [Next]_vars => RaceInv'
<1> SUFFICES ASSUME RaceInv, Exclusive, [Next]_vars PROVE RaceInv'
  OBVIOUS
<1>1. CASE Startup
  BY <1>1, EnterStep DEF Startup, Process
<1>2. CASE Client
  BY <1>2, EnterStep DEF Client, Process
<1>3. CASE Install
  BY <1>3, InstallStep
<1>4. ASSUME NEW p \in Process, ReadFlag(p) \/ Change(p) \/ WriteFlag(p) \/ Commit(p)
      PROVE  RaceInv'
  BY <1>4, ReadStep, ChangeStep, WriteStep, CommitStep
<1>5. \A p \in Process : ~ Fault(p)
  BY DEF Fault, RaceInv, RaceType
<1>6. CASE UNCHANGED vars
  <2>1. UNCHANGED <<kv, running, cmd, at, boot, client, faults>>
    BY <1>6 DEF vars
  <2>2. Target' = Target
    BY <2>1, TargetStays
  <2> QED
    BY <2>1, <2>2
    DEF RaceInv, RaceType, CopyInv, Same, ActiveInv, MarkInv, Held, Taken, Saving,
        Switching, Upgrading
<1> QED
  BY <1>1, <1>2, <1>3, <1>4, <1>5, <1>6 DEF Next

\* Commands that do not overlap take effect: while the client writes the other slot
\* that slot is not marked successful, and once its bootctl done has returned that
\* slot is the active one, whatever the loader had found.
THEOREM ExclusiveCommands ==
  ASSUME MaxFaults = 0 PROVE Spec /\ []Exclusive => []CommandsTakeEffect
<1>1. RaceInv => CommandsTakeEffect
  <2> SUFFICES ASSUME RaceInv PROVE CommandsTakeEffect
    OBVIOUS
  <2>1. running \in Slot /\ Target \in Slot /\ Target # running
    BY Targets DEF RaceInv, RaceType
  <2>2. ASSUME client = "finished" PROVE bootctl_active(kv) = {Target}
    <3>1. Taken(kv)
      BY <2>2 DEF RaceInv, ActiveInv
    <3> QED
      BY <2>1, <3>1 DEF Taken, bootctl_active, Slot
  <2> QED
    BY <2>2 DEF RaceInv, MarkInv, Upgrading, CommandsTakeEffect
<1> QED
  BY <1>1, InitRace, NextRace, PTL DEF Spec
=============================================================================
