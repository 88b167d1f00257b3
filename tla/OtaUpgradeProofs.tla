-------------------------- MODULE OtaUpgradeProofs --------------------------
(***************************************************************************)
(* ota.sh and otaUI side by side: what the display shows is true of the    *)
(* installation, for all full packages and all packages of patches that    *)
(* gen_ota_zip.py makes, for every configuration of pages and however the  *)
(* two are scheduled.                                                      *)
(***************************************************************************)
EXTENDS OtaUpgrade, GenOtaProofs, TLAPS

\* The packages are full ones, or patches alone without a user script at the end.
PackagesGenerated == \A args \in Packages : FullPackage(args) \/ PatchPackage(args)

\* What the proofs below need of them.
PackagesReport == \A args \in Packages : Reports(ota_sh(args), Partitions(args))
PackagesRise   == \A args \in Packages : Rises(ota_sh(args))

\* The generator's scripts have it.
LEMMA Generated == PackagesGenerated => PackagesReport /\ PackagesRise
BY ScriptsReport DEF PackagesGenerated, PackagesReport, PackagesRise

----------------------------------------------------------------------------
(* The inductive invariants.                                               *)

Done(p) == part[p] \in {"new", "skipped"}

\* The script is where its properties and the partitions say.
ScriptInv ==
  /\ Reports(script, DOMAIN part)
  /\ pos \in 1..(Len(script) + 1) /\ part \in [DOMAIN part -> Content]
  /\ phase \in {"running", "writing", "exited"}
  /\ phase = "writing" => pos \in Writes(script)
  /\ current \in -1..100 /\ next \in 0..100
  /\ current < 0 => phase = "exited"
  /\ \A w \in Writes(script) : w < pos =>
       Done(script[w].val) \/ Skips(script, w, pos)

\* Every partition has been dealt with, and no write is left.
AllIn == (\A p \in DOMAIN part : Done(p)) /\ \A w \in Writes(script) : w < pos

\* Whatever has come to 100, the last partition had been dealt with before; and what
\* otaUI takes for a failure was one.
InstalledInv ==
  /\ \A v \in {current, prev_node, shown, drawn} : v >= 100 => AllIn
  /\ page = "upgrade_success_page" => AllIn
  /\ prev_node < 0 => phase = "exited"

\* The digits are those of the value, and the display stays below 100 in the loop.
DisplayInv ==
  /\ prev_node \in -1..100 /\ next_node \in 0..100 /\ shown \in 0..100
  /\ upc \in {"top", "top_next", "draw"} => shown < 100
  /\ drawn \in -1..100
  /\ digits = [d \in Digit |->
       IF drawn >= 0 /\ (d = 0 \/ drawn >= PlaceValue[d])
         THEN (drawn \div PlaceValue[d]) % 10 ELSE -1]

\* The properties are the last ones set, or not yet set; next also the highest of
\* those that no guard has passed over.
PropInv ==
  /\ next = 0 \/ \E m \in Instructions(script, {"next"}) :
                   m < pos /\ next = script[m].val
  /\ current <= 0 \/ \E c \in Instructions(script, {"current"}) :
                       c < pos /\ current = script[c].val
  /\ \A m \in Instructions(script, {"next"}) : m < pos =>
       script[m].val <= next \/ Skips(script, m, pos)

\* Nothing that otaUI has read or shows is beyond what the script announced.
Announced(v) == v <= next \/ v <= current
AnnouncedInv ==
  PropInv /\ Announced(shown) /\ Announced(prev_node) /\ Announced(next_node)

----------------------------------------------------------------------------
(* The script.                                                             *)

\* The instruction that comes next.
LEMMA InstructionFacts ==
  ASSUME ScriptInv
  PROVE  /\ Len(script) \in Nat /\ DOMAIN script = 1..Len(script)
         /\ \A k \in DOMAIN script : script[k].val \in Nat
         /\ pos \in Nat /\ pos >= 1
         /\ (phase = "writing" \/ \E ops : At(ops))
              => pos \in DOMAIN script /\ Val \in Nat
<1>1. script \in Seq(Instruction)
  BY DEF ScriptInv, Reports
<1>2. Len(script) \in Nat /\ DOMAIN script = 1..Len(script)
  BY <1>1
<1>3. \A k \in DOMAIN script : script[k].val \in Nat
  <2>1. \A k \in DOMAIN script : script[k] \in Instruction
    BY <1>1, <1>2, ElementOfSeq
  <2> QED
    BY <2>1 DEF Instruction
<1>4. pos \in Nat /\ pos >= 1
  BY <1>2 DEF ScriptInv
<1> QED
  BY <1>2, <1>3, <1>4 DEF ScriptInv, At, Val, Writes, Instructions

\* What a guard has passed over stays behind.
LEMMA SkippedStays ==
  ASSUME ScriptInv, NEW k \in Nat, NEW m \in Nat, NEW n \in Nat,
         Skips(script, k, m), m <= n
  PROVE  Skips(script, k, n)
BY InstructionFacts DEF Skips, Instructions

\* Going on from an instruction that is no write and no guard, or a write that has
\* been done.
LEMMA GoOn ==
  ASSUME ScriptInv, pos \in DOMAIN script, script' = script, pos' = pos + 1,
         DOMAIN part' = DOMAIN part,
         \A p \in DOMAIN part : Done(p) => Done(p)',
         pos \in Writes(script) => part'[Val] \in {"new", "skipped"}
  PROVE  /\ pos' \in 1..(Len(script) + 1)
         /\ \A w \in Writes(script) : w < pos' =>
              Done(script[w].val)' \/ Skips(script, w, pos')
<1>1. /\ Len(script) \in Nat /\ DOMAIN script = 1..Len(script) /\ pos \in Nat
  BY InstructionFacts
<1>2. pos' \in 1..(Len(script) + 1) /\ pos <= pos' /\ pos' \in Nat
  BY <1>1
<1>3. ASSUME NEW w \in Writes(script), w < pos'
      PROVE  Done(script[w].val)' \/ Skips(script, w, pos')
  <2>1. w \in Nat
    BY <1>1 DEF Writes, Instructions
  <2>2. CASE w = pos
    BY <2>2 DEF Done, Val
  <2>3. CASE w < pos
    <3>1. Done(script[w].val) \/ Skips(script, w, pos)
      BY <2>3 DEF ScriptInv
    <3>2. script[w].val \in DOMAIN part
      BY DEF ScriptInv, Reports
    <3>3. CASE Done(script[w].val)
      BY <3>2, <3>3
    <3>4. CASE Skips(script, w, pos)
      BY <1>1, <1>2, <2>1, <3>4, SkippedStays
    <3> QED
      BY <3>1, <3>3, <3>4
  <2>4. w = pos \/ w < pos
    BY <1>1, <1>3, <2>1
  <2> QED
    BY <2>2, <2>3, <2>4
<1> QED
  BY <1>2, <1>3

\* Every step of ota.sh keeps the invariant; after the last write nothing is
\* undone, and 100 is reported only after it.
StepFacts ==
  /\ ScriptInv' /\ script' = script /\ DOMAIN part' = DOMAIN part
  /\ pos' \in Nat /\ pos <= pos'
  /\ AllIn => AllIn'
  /\ current' >= 100 => current >= 100 \/ AllIn'
  /\ phase = "exited" => phase' = "exited"

\* What is in stays in while the script goes on.
LEMMA AllInStays ==
  ASSUME ScriptInv, script' = script, part' = part, pos' \in Nat, pos <= pos'
  PROVE  AllIn => AllIn'
<1>1. Writes(script) \subseteq Nat /\ pos \in Nat
  BY InstructionFacts DEF Writes, Instructions
<1> QED
  BY <1>1 DEF AllIn, Done

\* Setting a property: 100 is reported only with every partition in.
LEMMA SetpropStep == ScriptInv /\ Setprop => StepFacts
<1> SUFFICES ASSUME ScriptInv, Setprop PROVE StepFacts
  OBVIOUS
<1>1. /\ pos \in DOMAIN script /\ Val \in Nat /\ pos \in Nat /\ Len(script) \in Nat
      /\ DOMAIN script = 1..Len(script)
      /\ script[pos].op \in {"current", "next"} /\ phase = "running"
  BY InstructionFacts DEF Setprop, At
<1>2. /\ script' = script /\ part' = part /\ pos' = pos + 1 /\ phase' = phase
      /\ current' = (IF script[pos].op = "current" THEN Val ELSE current)
      /\ next' = (IF script[pos].op = "next" THEN Val ELSE next)
  <2>1. At({"current"}) <=> script[pos].op = "current"
    BY DEF Setprop, At
  <2>2. At({"next"}) <=> script[pos].op = "next"
    BY DEF Setprop, At
  <2> QED
    BY <2>1, <2>2 DEF Setprop, Goto
<1>3. Val \in 0..100
  <2>1. pos \in Instructions(script, {"current", "next"})
    BY <1>1 DEF Instructions
  <2>2. \A k \in Instructions(script, {"current", "next"}) : script[k].val <= 100
    BY DEF ScriptInv, Reports
  <2>3. Val <= 100
    <3> DEFINE S == Instructions(script, {"current", "next"})
    <3>1. pos \in S /\ \A k \in S : script[k].val <= 100
      BY <2>1, <2>2
    <3> HIDE DEF S
    <3> QED
      BY <3>1 DEF Val
  <2> QED
    BY <1>1, <2>3
<1>4. ScriptInv'
  <2>1. /\ pos' \in 1..(Len(script) + 1)
        /\ \A w \in Writes(script) : w < pos' =>
             Done(script[w].val)' \/ Skips(script, w, pos')
    BY <1>1, <1>2, GoOn DEF Done, Writes, Instructions
  <2>2. current' \in -1..100 /\ next' \in 0..100 /\ ~ (current' < 0)
    BY <1>1, <1>2, <1>3 DEF ScriptInv
  <2> QED
    BY <1>1, <1>2, <2>1, <2>2 DEF ScriptInv
<1>5. pos' \in Nat /\ pos <= pos'
  BY <1>1, <1>2
<1>6. AllIn => AllIn'
  BY <1>2, <1>5, AllInStays
<1>7. ASSUME current' >= 100, ~ (current >= 100) PROVE AllIn'
  <2>1. script[pos].op = "current" /\ Val = 100
    BY <1>2, <1>3, <1>7
  <2>2. /\ \A w \in Writes(script) : w < pos /\ ~ Skips(script, w, pos)
        /\ \A p \in DOMAIN part : \E w \in Writes(script) : script[w].val = p
    BY <1>1, <2>1 DEF ScriptInv, Reports, Instructions, Val
  <2>3. \A w \in Writes(script) : Done(script[w].val)
    BY <2>2 DEF ScriptInv
  <2>4. AllIn
    BY <2>2, <2>3 DEF AllIn
  <2> QED
    BY <1>6, <2>4
<1> QED
  BY <1>1, <1>2, <1>4, <1>5, <1>6, <1>7 DEF StepFacts

\* A guard passes over the instructions of its block, or over none.
LEMMA GuardStep == ScriptInv /\ Guard => StepFacts
<1> SUFFICES ASSUME ScriptInv, Guard PROVE StepFacts
  OBVIOUS
<1>1. /\ pos \in DOMAIN script /\ Val \in Nat /\ pos \in Nat /\ Len(script) \in Nat
      /\ DOMAIN script = 1..Len(script)
      /\ pos \in Instructions(script, {"unless"})
  BY InstructionFacts DEF Guard, At, Instructions
<1>2. PICK skip \in {0, Val} : pos' = pos + 1 + skip
  BY DEF Guard, Goto
<1>3. /\ script' = script /\ part' = part /\ phase' = phase
      /\ current' = current /\ next' = next
  BY DEF Guard, Goto
<1>4. pos + Val <= Len(script)
  BY <1>1 DEF ScriptInv, Reports, Val
<1>5. pos' \in 1..(Len(script) + 1) /\ pos' \in Nat /\ pos <= pos'
  BY <1>1, <1>2, <1>4
<1>6. ASSUME NEW w \in Writes(script), w < pos'
      PROVE  Done(script[w].val)' \/ Skips(script, w, pos')
  <2>1. w \in Nat /\ w # pos
    BY <1>1 DEF Writes, Instructions
  <2>2. CASE w < pos
    <3>1. Done(script[w].val) \/ Skips(script, w, pos)
      BY <2>2 DEF ScriptInv
    <3> QED
      BY <1>1, <1>3, <1>5, <2>1, <3>1, SkippedStays DEF Done
  <2>3. CASE w > pos
    <3>1. pos < w /\ w <= pos + script[pos].val /\ pos + script[pos].val < pos'
      BY <1>1, <1>2, <1>6, <2>1, <2>3 DEF Val
    <3> QED
      BY <1>1, <3>1 DEF Skips
  <2> QED
    BY <1>1, <2>1, <2>2, <2>3
<1>7. phase = "running"
  BY DEF Guard, At
<1>8. ScriptInv'
  BY <1>3, <1>5, <1>6, <1>7 DEF ScriptInv
<1> QED
  BY <1>3, <1>5, <1>7, <1>8, AllInStays DEF StepFacts

\* A write that begins.
LEMMA StartWriteStep == ScriptInv /\ StartWrite => StepFacts
<1> SUFFICES ASSUME ScriptInv, StartWrite PROVE StepFacts
  OBVIOUS
<1>1. /\ pos \in DOMAIN script /\ Val \in Nat /\ pos \in Nat /\ Len(script) \in Nat
      /\ DOMAIN script = 1..Len(script) /\ phase = "running"
      /\ pos \in Writes(script)
  BY InstructionFacts DEF StartWrite, At, Writes, Instructions
<1>2. /\ script' = script /\ pos' = pos /\ phase' = "writing"
      /\ current' = current /\ next' = next
      /\ part' = [part EXCEPT ![Val] = "partial"]
  BY DEF StartWrite
<1>3. ~ AllIn
  BY <1>1 DEF AllIn
<1>4. /\ DOMAIN part' = DOMAIN part /\ part' \in [DOMAIN part -> Content]
      /\ \A p \in DOMAIN part : p # Val => part'[p] = part[p]
  BY <1>2 DEF ScriptInv, Content
<1>5. \A w \in Writes(script) : w < pos =>
        script[w].val # Val /\ script[w].val \in DOMAIN part
  <2>1. \A v, w \in Writes(script) : script[v].val = script[w].val => v = w
    BY DEF ScriptInv, Reports
  <2>2. \A w \in Writes(script) : script[w].val \in DOMAIN part
    BY DEF ScriptInv, Reports
  <2> QED
    BY <1>1, <2>1, <2>2 DEF Val
<1>6. \A w \in Writes(script) : w < pos =>
        Done(script[w].val)' \/ Skips(script, w, pos)
  BY <1>2, <1>4, <1>5 DEF ScriptInv, Done
<1>7. ScriptInv'
  BY <1>1, <1>2, <1>4, <1>6 DEF ScriptInv
<1> QED
  BY <1>1, <1>2, <1>3, <1>4, <1>7 DEF StepFacts

\* A partition that is written or refused.
LEMMA WrittenStep ==
  ASSUME ScriptInv, pos \in Writes(script), phase # "exited",
         NEW c \in {"new", "skipped"}, part' = [part EXCEPT ![Val] = c],
         phase' = "running", script' = script, pos' = pos + 1,
         current' = current, next' = next
  PROVE  StepFacts
<1>1. /\ pos \in DOMAIN script /\ pos \in Nat /\ Len(script) \in Nat
      /\ DOMAIN script = 1..Len(script)
  BY InstructionFacts DEF Writes, Instructions
<1>2. ~ AllIn
  BY <1>1 DEF AllIn
<1>3. Val \in DOMAIN part
  BY DEF ScriptInv, Reports, Val
<1>4. /\ DOMAIN part' = DOMAIN part /\ part' \in [DOMAIN part -> Content]
      /\ part'[Val] = c
      /\ \A p \in DOMAIN part : Done(p) => Done(p)'
  BY <1>3 DEF ScriptInv, Content, Done
<1>5. /\ pos' \in 1..(Len(script) + 1)
      /\ \A w \in Writes(script) : w < pos' =>
           Done(script[w].val)' \/ Skips(script, w, pos')
  BY <1>1, <1>4, GoOn
<1>6. ScriptInv'
  BY <1>1, <1>4, <1>5 DEF ScriptInv
<1> QED
  BY <1>1, <1>2, <1>4, <1>6 DEF StepFacts

\* The other instructions.
LEMMA GoOnStep ==
  ASSUME ScriptInv, pos \in DOMAIN script, pos \notin Writes(script), phase = "running",
         script' = script, part' = part, next' = next,
         pos' = pos + 1, phase' = phase, current' = current
  PROVE  StepFacts
<1>1. /\ pos \in Nat /\ Len(script) \in Nat /\ DOMAIN script = 1..Len(script)
  BY InstructionFacts
<1>2. /\ pos' \in 1..(Len(script) + 1)
      /\ \A w \in Writes(script) : w < pos' =>
           Done(script[w].val)' \/ Skips(script, w, pos')
  BY GoOn DEF Done
<1>3. pos' \in Nat /\ pos <= pos'
  BY <1>1
<1>4. ScriptInv'
  BY <1>1, <1>2 DEF ScriptInv
<1> QED
  BY <1>3, <1>4, AllInStays DEF StepFacts, ScriptInv

\* The steps that end the script, or leave it where it is.
LEMMA EndStep ==
  ASSUME ScriptInv, script' = script, part' = part, next' = next, pos' = pos,
         phase' \in {phase, "exited"}, current' = current \/ Fail
  PROVE  StepFacts
<1>1. /\ pos \in Nat /\ Len(script) \in Nat /\ DOMAIN script = 1..Len(script)
  BY InstructionFacts
<1>2. pos' \in Nat /\ pos <= pos'
  BY <1>1
<1>3. current' \in -1..100 /\ (current' < 0 => phase' = "exited")
      /\ (current' >= 100 => current >= 100)
  BY DEF ScriptInv, Fail
<1>4. ScriptInv'
  BY <1>1, <1>3 DEF ScriptInv, Done
<1> QED
  BY <1>2, <1>3, <1>4, AllInStays DEF StepFacts, ScriptInv

\* All steps of ota.sh.
LEMMA ScriptStep == ScriptInv /\ Script => StepFacts
<1> SUFFICES ASSUME ScriptInv, ScriptNext PROVE StepFacts
  BY DEF Script
<1>1. CASE Check
  <2>1. pos \in DOMAIN script /\ pos \notin Writes(script) /\ phase = "running"
    BY <1>1, InstructionFacts DEF Check, At, Writes, Instructions
  <2>2. script' = script /\ part' = part /\ next' = next
    BY <1>1 DEF Check, Goto, Fail
  <2>3. (pos' = pos + 1 /\ phase' = phase /\ current' = current) \/ Fail
    BY <1>1 DEF Check, Goto
  <2>4. CASE pos' = pos + 1 /\ phase' = phase /\ current' = current
    BY <2>1, <2>2, <2>4, GoOnStep
  <2>5. CASE Fail
    <3>1. pos' = pos /\ phase' = "exited"
      BY <2>5 DEF Fail
    <3> QED
      BY <2>2, <2>5, <3>1, EndStep
  <2> QED
    BY <2>3, <2>4, <2>5
<1>2. CASE RunUserScript
  <2>1. pos \in DOMAIN script /\ pos \notin Writes(script) /\ phase = "running"
    BY <1>2, InstructionFacts DEF RunUserScript, At, Writes, Instructions
  <2>2. /\ script' = script /\ part' = part /\ next' = next
        /\ pos' = pos + 1 /\ phase' = phase /\ current' = current
    BY <1>2 DEF RunUserScript, Goto
  <2> QED
    BY <2>1, <2>2, GoOnStep
<1>3. CASE Skip
  <2>1. pos \in Writes(script) /\ phase = "running"
    BY <1>3, InstructionFacts DEF Skip, At, Writes, Instructions
  <2> QED
    BY <1>3, <2>1, WrittenStep DEF Skip, Goto
<1>4. CASE FinishWrite
  <2>1. pos \in Writes(script) /\ phase = "writing"
    BY <1>4 DEF FinishWrite, ScriptInv
  <2> QED
    BY <1>4, <2>1, WrittenStep DEF FinishWrite, Goto
<1>5. CASE WriteFails
  <2>1. /\ script' = script /\ part' = part /\ next' = next /\ pos' = pos
        /\ phase' \in {phase, "exited"} /\ (current' = current \/ Fail)
    BY <1>5 DEF WriteFails, Fail
  <2> QED
    BY <2>1, EndStep
<1>6. CASE Exit
  BY <1>6, EndStep DEF Exit
<1> QED
  BY <1>1, <1>2, <1>3, <1>4, <1>5, <1>6, SetpropStep, GuardStep, StartWriteStep
  DEF ScriptNext

----------------------------------------------------------------------------
(* otaUI.                                                                  *)

Inv == ScriptInv /\ DisplayInv /\ InstalledInv

\* One step of ota_calc_progress: the display rises by one at most, towards one of
\* the nodes, and to 100 only when 100 was read.
LEMMA Calc ==
  ASSUME shown \in 0..99, prev_node \in 0..100, next_node \in 0..100,
         ota_calc_progress
  PROVE  /\ shown' \in 0..100 /\ shown <= shown'
         /\ shown' >= 100 => prev_node >= 100
         /\ shown' = shown \/ shown' <= prev_node \/ shown' <= next_node
<1> DEFINE fastHit == shown < prev_node /\ fast >= FAST_TICKS
           crawl   == ~ fastHit /\ shown < next_node
           step    == fastHit \/ (crawl /\ slow >= SLOW_TICKS)
           value   == shown + (IF step THEN 1 ELSE 0)
<1>1. shown' = IF value >= 100 /\ prev_node < 100 THEN 99 ELSE value
  BY DEF ota_calc_progress
<1>2. step => shown < prev_node \/ shown < next_node
  OBVIOUS
<1>3. value \in {shown, shown + 1} /\ (value = shown + 1 => step)
  OBVIOUS
<1> HIDE DEF step, value
<1> QED
  BY <1>1, <1>2, <1>3

\* The digits that the widget keeps for v.
DigitsOf(v) ==
  [d \in Digit |-> IF v >= 0 /\ (d = 0 \/ v >= PlaceValue[d])
                     THEN (v \div PlaceValue[d]) % 10 ELSE -1]

\* The widget takes over the value and its digits.
LEMMA SetProgress ==
  ASSUME NEW v \in 0..100, drawn \in -1..100, digits = DigitsOf(drawn),
         ui_set_progress(v)
  PROVE  /\ drawn' \in {drawn, v} /\ drawn' \in -1..100
         /\ digits' = DigitsOf(drawn')
<1>1. CASE UNCHANGED <<drawn, digits>>
  BY <1>1
<1>2. CASE ~ UNCHANGED <<drawn, digits>>
  <2>1. /\ drawn' = Int8(v)
        /\ digits' = [d \in Digit |-> IF d = 0 \/ v >= PlaceValue[d]
                                        THEN (v \div PlaceValue[d]) % 10 ELSE -1]
    BY <1>2 DEF ui_set_progress, lv_upgrade_set_progress
  <2>2. drawn' = v
    BY <2>1 DEF Int8
  <2>3. v >= 0
    OBVIOUS
  <2> QED
    BY <2>1, <2>2, <2>3 DEF DigitsOf
<1> QED
  BY <1>1, <1>2

\* What the steps of otaUI leave alone.
LEMMA UIFrame ==
  ASSUME UI
  PROVE  /\ script' = script /\ pos' = pos /\ phase' = phase /\ part' = part
         /\ current' = current /\ next' = next
         /\ ScriptInv' = ScriptInv /\ AllIn' = AllIn
<1>1. /\ script' = script /\ pos' = pos /\ phase' = phase /\ part' = part
      /\ current' = current /\ next' = next
  BY DEF UI, UIStep, scriptVars
<1> QED
  BY <1>1 DEF ScriptInv, AllIn, Done

\* The steps of otaUI that change the display.
LEMMA DrawStep ==
  ASSUME ScriptInv, DisplayInv, InstalledInv, DrawProgress,
         AllIn' = AllIn, phase' = phase, current' = current
  PROVE  /\ DisplayInv' /\ InstalledInv' /\ shown <= shown'
         /\ shown' = shown \/ shown' <= prev_node \/ shown' <= next_node
<1>1. /\ shown \in 0..99 /\ prev_node \in 0..100 /\ next_node \in 0..100
      /\ drawn \in -1..100 /\ digits = DigitsOf(drawn)
  BY DEF DisplayInv, DigitsOf, DrawProgress
<1>2. /\ shown' \in 0..100 /\ shown <= shown'
      /\ shown' >= 100 => prev_node >= 100
      /\ shown' = shown \/ shown' <= prev_node \/ shown' <= next_node
  BY <1>1, Calc DEF DrawProgress
<1>3. ui_set_progress(shown')
  BY DEF DrawProgress
<1>4. /\ drawn' \in {drawn, shown'} /\ drawn' \in -1..100
      /\ digits' = DigitsOf(drawn')
  BY <1>1, <1>2, <1>3, SetProgress
<1>5. prev_node' = prev_node /\ next_node' = next_node
  BY DEF DrawProgress, LoopEnd
<1>6. upc' \in {"final", "wait", "top"} /\ (upc' = "top" => ~ (shown' >= 100))
  BY DEF DrawProgress, LoopEnd
<1>7. DisplayInv'
  BY <1>1, <1>2, <1>4, <1>5, <1>6 DEF DisplayInv, DigitsOf
<1>8. page' = page \/ page' = "upgrading_page" \/ shown' >= 100
  BY DEF DrawProgress, ui_page_show
<1>9. InstalledInv'
  <2>1. shown' >= 100 => AllIn
    BY <1>2 DEF InstalledInv
  <2>2. drawn' >= 100 => AllIn
    BY <1>4, <2>1 DEF InstalledInv
  <2>3. page' = "upgrade_success_page" => AllIn
    BY <1>8, <2>1 DEF InstalledInv
  <2> QED
    BY <1>5, <2>1, <2>2, <2>3 DEF InstalledInv
<1> QED
  BY <1>2, <1>7, <1>9

\* The other steps: they read a property, show a page, or move on.
LEMMA QuietStep ==
  ASSUME ScriptInv, DisplayInv, InstalledInv, AllIn' = AllIn, phase' = phase,
         current' = current, shown' = shown, drawn' = drawn, digits' = digits,
         prev_node' = prev_node \/ prev_node' = current,
         next_node' = next_node \/ next_node' = next,
         upc' \in {"top", "top_next", "draw"} => upc \in {"top", "top_next", "draw"},
         page' = page \/ page' # "upgrade_success_page"
  PROVE  DisplayInv' /\ InstalledInv'
<1>1. prev_node' \in -1..100 /\ next_node' \in 0..100
  BY DEF ScriptInv, DisplayInv
<1>2. DisplayInv'
  BY <1>1 DEF DisplayInv
<1>3. prev_node' < 0 => phase = "exited"
  BY DEF ScriptInv, InstalledInv
<1>4. prev_node' >= 100 => AllIn
  BY DEF InstalledInv
<1> QED
  BY <1>2, <1>3, <1>4 DEF InstalledInv

\* A step of otaUI that is not DrawProgress.
Quiet ==
  /\ shown' = shown /\ drawn' = drawn /\ digits' = digits
  /\ prev_node' = prev_node \/ prev_node' = current
  /\ next_node' = next_node \/ next_node' = next
  /\ upc' \in {"top", "top_next", "draw"} => upc \in {"top", "top_next", "draw"}
  /\ page' = page \/ page' # "upgrade_success_page"

\* A step of otaUI draws the progress or is one of the others.
LEMMA UIActions == UI => DrawProgress \/ Quiet
<1> SUFFICES ASSUME UINext PROVE DrawProgress \/ Quiet
  BY DEF UI, UIStep
<1>1. CASE Sync
  BY <1>1 DEF Sync, SyncCurrent, Quiet
<1>2. CASE NoSync
  BY <1>2 DEF NoSync, Quiet
<1>3. CASE DrawLogo
  <2>1. page' = page \/ page' = "logo_page"
    BY <1>3 DEF DrawLogo, ui_page_show
  <2>2. upc = "draw" /\ prev_node' = prev_node /\ next_node' = next_node
    BY <1>3 DEF DrawLogo, LoopEnd
  <2>3. shown' = shown /\ drawn' = drawn /\ digits' = digits
    BY <1>3 DEF DrawLogo
  <2> QED
    BY <2>1, <2>2, <2>3 DEF Quiet
<1>4. CASE DrawFail
  <2>1. page' = page \/ page' = "upgrade_fail_page"
    BY <1>4 DEF DrawFail, ui_page_show
  <2>2. upc = "draw" /\ prev_node' = prev_node /\ next_node' = next_node
    BY <1>4 DEF DrawFail, LoopEnd
  <2>3. shown' = shown /\ drawn' = drawn /\ digits' = digits
    BY <1>4 DEF DrawFail
  <2> QED
    BY <2>1, <2>2, <2>3 DEF Quiet
<1>5. CASE Wait
  BY <1>5 DEF Wait, Quiet
<1>6. CASE Finish
  BY <1>6 DEF Finish, SyncCurrent, Quiet
<1> QED
  BY <1>1, <1>2, <1>3, <1>4, <1>5, <1>6 DEF UINext

\* The steps of otaUI keep the invariant.
LEMMA UIStepInv == Inv /\ UI => Inv' /\ shown <= shown'
<1> SUFFICES ASSUME Inv, UI PROVE Inv' /\ shown <= shown'
  OBVIOUS
<1>1. /\ phase' = phase /\ current' = current /\ next' = next
      /\ ScriptInv' = ScriptInv /\ AllIn' = AllIn
  BY UIFrame
<1>2. ScriptInv /\ DisplayInv /\ InstalledInv
  BY DEF Inv
<1>3. CASE DrawProgress
  BY <1>1, <1>2, <1>3, DrawStep DEF Inv
<1>4. CASE Quiet
  <2>1. DisplayInv' /\ InstalledInv'
    BY <1>1, <1>2, <1>4, QuietStep DEF Quiet
  <2>2. shown <= shown'
    BY <1>2, <1>4 DEF Quiet, DisplayInv
  <2> QED
    BY <1>1, <1>2, <2>1, <2>2 DEF Inv
<1> QED
  BY <1>3, <1>4, UIActions

\* So do those of ota.sh.
LEMMA ScriptStepInv == Inv /\ Script => Inv' /\ shown <= shown'
<1> SUFFICES ASSUME Inv, Script PROVE Inv' /\ shown <= shown'
  OBVIOUS
<1>1. ScriptInv /\ DisplayInv /\ InstalledInv
  BY DEF Inv
<1>2. StepFacts
  BY <1>1, ScriptStep
<1>3. /\ upc' = upc /\ prev_node' = prev_node /\ next_node' = next_node
      /\ shown' = shown /\ page' = page /\ drawn' = drawn /\ digits' = digits
  BY DEF Script, uiVars
<1>4. DisplayInv' /\ shown <= shown'
  BY <1>1, <1>3 DEF DisplayInv
<1>5. /\ AllIn => AllIn'
      /\ current' >= 100 => current >= 100 \/ AllIn'
      /\ phase = "exited" => phase' = "exited"
  BY <1>2 DEF StepFacts
<1>6. InstalledInv'
  BY <1>1, <1>3, <1>5 DEF InstalledInv
<1> QED
  BY <1>2, <1>4, <1>6 DEF Inv, StepFacts

\* And a step of neither.
LEMMA InvStutter == Inv /\ UNCHANGED vars => Inv' /\ shown <= shown'
<1> SUFFICES ASSUME Inv, UNCHANGED vars PROVE Inv' /\ shown <= shown'
  OBVIOUS
<1>1. ScriptInv' = ScriptInv /\ AllIn' = AllIn
  BY DEF vars, ScriptInv, AllIn, Done
<1>2. DisplayInv' = DisplayInv
  BY DEF vars, DisplayInv
<1>3. InstalledInv' = InstalledInv
  BY <1>1 DEF vars, InstalledInv
<1>4. shown <= shown'
  BY DEF vars, Inv, DisplayInv
<1> QED
  BY <1>1, <1>2, <1>3, <1>4 DEF Inv

\* It holds when both programs start.
LEMMA InvInit == PackagesReport /\ Init => Inv
<1> SUFFICES ASSUME PackagesReport, Init PROVE Inv
  OBVIOUS
<1>1. PICK args \in Packages :
        script = ota_sh(args) /\ part = [p \in Partitions(args) |-> "old"]
  BY DEF Init, ScriptInit
<1>2. Reports(script, DOMAIN part)
  BY <1>1 DEF PackagesReport
<1>3. pos = 1 /\ phase = "running" /\ current = 0 /\ next = 0
  BY DEF Init, ScriptInit
<1>4. Len(script) \in Nat /\ Writes(script) \subseteq Nat \ {0}
  <2>1. script \in Seq(Instruction)
    BY <1>2 DEF Reports
  <2> QED
    BY <2>1 DEF Writes, Instructions
<1>5. ScriptInv
  <2>1. part \in [DOMAIN part -> Content]
    BY <1>1 DEF Content
  <2> QED
    BY <1>2, <1>3, <1>4, <2>1 DEF ScriptInv
<1>6. /\ drawn = -1 /\ digits = [d \in Digit |-> -1]
      /\ prev_node = 0 /\ next_node = 0 /\ shown \in StartValues /\ page = "none"
  BY DEF Init, UIInit, WidgetInit
<1>7. shown \in 0..99
  BY <1>6, UIAssumption
<1>8. DisplayInv
  BY <1>6, <1>7 DEF DisplayInv
<1>9. InstalledInv
  BY <1>3, <1>6, <1>7 DEF InstalledInv
<1> QED
  BY <1>5, <1>8, <1>9 DEF Inv

\* Every step keeps the invariant, and the display does not go back.
LEMMA InvStep == Inv /\ [Next]_vars => Inv' /\ shown <= shown'
BY UIStepInv, ScriptStepInv, InvStutter DEF Next

\* The script, the display and what they say of the partitions agree at all times.
THEOREM UpgradeInvariant ==
  ASSUME PackagesGenerated PROVE Spec => []Inv
<1>1. Init => Inv
  BY InvInit, Generated
<1>2. Inv /\ [Next]_vars => Inv'
  BY InvStep
<1> QED
  BY <1>1, <1>2, PTL DEF Spec

----------------------------------------------------------------------------
(* What follows for the user.                                              *)

\* otaUI shows the success page only when every partition of the package has been
\* written or deliberately skipped, however it and ota.sh are scheduled.
THEOREM SuccessInstalled ==
  ASSUME PackagesGenerated PROVE Spec => []SuccessMeansInstalled
<1>1. Inv => SuccessMeansInstalled
  BY DEF Inv, InstalledInv, AllIn, Done, SuccessMeansInstalled
<1> QED
  BY <1>1, UpgradeInvariant, PTL

\* The progress that otaUI shows never goes back.
THEOREM NeverBack ==
  ASSUME PackagesGenerated PROVE Spec => ProgressMonotone
<1>1. Inv /\ [Next]_vars => [shown' >= shown]_vars
  <2>1. Inv /\ [Next]_vars => shown' \in Int /\ shown \in Int /\ shown <= shown'
    BY InvStep DEF Inv, DisplayInv
  <2> QED
    BY <2>1
<1> QED
  BY <1>1, UpgradeInvariant, PTL DEF Spec, ProgressMonotone

\* otaUI restarts the device only after ota.sh has ended.
THEOREM RebootsWhenIdle ==
  ASSUME PackagesGenerated PROVE Spec => []RebootOnlyWhenIdle
<1>1. Init => RebootOnlyWhenIdle
  BY DEF Init, UIInit, RebootOnlyWhenIdle
<1>2. Inv /\ RebootOnlyWhenIdle /\ [Next]_vars => RebootOnlyWhenIdle'
  <2> SUFFICES ASSUME Inv, RebootOnlyWhenIdle, [Next]_vars PROVE RebootOnlyWhenIdle'
    OBVIOUS
  <2>1. phase = "exited" => phase' = "exited"
    <3>1. CASE Script
      BY <3>1, ScriptStep DEF Inv, StepFacts
    <3>2. CASE UI
      BY <3>2, UIFrame
    <3>3. CASE UNCHANGED vars
      BY <3>3 DEF vars
    <3> QED
      BY <3>1, <3>2, <3>3 DEF Next
  <2>2. rebooted' = rebooted \/ (rebooted' = end_condition /\ phase' = phase)
    <3>1. CASE Script
      <4>1. UNCHANGED uiVars
        BY <3>1 DEF Script
      <4> QED
        BY <4>1 DEF uiVars
    <3>2. CASE UI
      BY <3>2, UIFrame
      DEF UI, UIStep, UINext, Sync, SyncCurrent, NoSync, DrawLogo, DrawFail,
          DrawProgress, LoopEnd, Wait, Finish
    <3>3. CASE UNCHANGED vars
      BY <3>3 DEF vars
    <3> QED
      BY <3>1, <3>2, <3>3 DEF Next
  <2>3. end_condition => phase = "exited"
    BY DEF Inv, DisplayInv, InstalledInv, end_condition
  <2> QED
    BY <2>1, <2>2, <2>3, Zenon DEF RebootOnlyWhenIdle
<1> QED
  BY <1>1, <1>2, UpgradeInvariant, PTL DEF Spec

\* What lv_upgrade_get_value reads from the digits is the value that was set, for
\* every value that otaUI sets.
LEMMA ReadBack ==
  ASSUME drawn \in 0..100, digits = DigitsOf(drawn)
  PROVE  lv_upgrade_get_value = drawn
<1>1. /\ digits[0] = drawn % 10
      /\ digits[1] = IF drawn >= 10 THEN (drawn \div 10) % 10 ELSE -1
      /\ digits[2] = IF drawn >= 100 THEN (drawn \div 100) % 10 ELSE -1
  BY DEF DigitsOf, Digit, LV_PROGRESS_DIGIT, PlaceValue
<1>2. CASE drawn < 10
  BY <1>1, <1>2 DEF lv_upgrade_get_value
<1>3. CASE drawn \in 10..99
  BY <1>1, <1>3 DEF lv_upgrade_get_value
<1>4. CASE drawn = 100
  BY <1>1, <1>4 DEF lv_upgrade_get_value
<1> QED
  BY <1>2, <1>3, <1>4

\* The value and the digits of the widget are in sync at all times.
THEOREM DigitsInSync ==
  ASSUME PackagesGenerated PROVE Spec => []ValueInSync
<1>1. Inv => ValueInSync
  <2>1. Inv /\ drawn >= 0 => drawn \in 0..100 /\ digits = DigitsOf(drawn)
    BY DEF Inv, DisplayInv, DigitsOf
  <2> QED
    BY <2>1, ReadBack DEF ValueInSync
<1> QED
  BY <1>1, UpgradeInvariant, PTL

----------------------------------------------------------------------------
(* The pictures of the digits.                                             *)

\* The number that a row of at most three pictures shows.
LEMMA RowNumber ==
  ASSUME NEW r \in Seq(Int)
  PROVE  /\ Len(r) = 1 => NumberOf(r) = r[1]
         /\ Len(r) = 2 => NumberOf(r) = r[1] + 10 * r[2]
         /\ Len(r) = 3 => NumberOf(r) = r[1] + 10 * r[2] + 100 * r[3]
<1>1. PlaceValue[0] = 1 /\ PlaceValue[1] = 10 /\ PlaceValue[2] = 100
  BY DEF PlaceValue, Digit, LV_PROGRESS_DIGIT
<1>2. /\ PlaceValue[1 - 1] = 1 /\ PlaceValue[2 - 1] = 10 /\ PlaceValue[3 - 1] = 100
  BY <1>1
<1>3. NumberOf(r) = (IF 1 <= Len(r) THEN r[1] * 1 ELSE 0)
                    + (IF 2 <= Len(r) THEN r[2] * 10 ELSE 0)
                    + (IF 3 <= Len(r) THEN r[3] * 100 ELSE 0)
  BY <1>2 DEF NumberOf
<1>4. ASSUME Len(r) = 1 PROVE NumberOf(r) = r[1]
  <2>1. NumberOf(r) = r[1] * 1 + 0 + 0 /\ r[1] \in Int
    BY <1>3, <1>4
  <2> QED
    BY <2>1
<1>5. ASSUME Len(r) = 2 PROVE NumberOf(r) = r[1] + 10 * r[2]
  <2>1. NumberOf(r) = r[1] * 1 + r[2] * 10 + 0 /\ r[1] \in Int /\ r[2] \in Int
    BY <1>3, <1>5
  <2> QED
    BY <2>1
<1>6. ASSUME Len(r) = 3 PROVE NumberOf(r) = r[1] + 10 * r[2] + 100 * r[3]
  <2>1. /\ NumberOf(r) = r[1] * 1 + r[2] * 10 + r[3] * 100
        /\ r[1] \in Int /\ r[2] \in Int /\ r[3] \in Int
    BY <1>3, <1>6
  <2> QED
    BY <2>1
<1> QED
  BY <1>4, <1>5, <1>6

\* One, two or three pictures in a row.
LEMMA Rows ==
  ASSUME NEW a \in Int, NEW b \in Int, NEW c \in Int
  PROVE  /\ NumberOf(<<a>> \o <<>>) = a
         /\ NumberOf(<<a>> \o (<<b>> \o <<>>)) = a + 10 * b
         /\ NumberOf(<<a>> \o (<<b>> \o (<<c>> \o <<>>))) = a + 10 * b + 100 * c
<1>1. \A x \in Int : /\ <<x>> \o <<>> \in Seq(Int) /\ Len(<<x>> \o <<>>) = 1
                      /\ (<<x>> \o <<>>)[1] = x
  OBVIOUS
<1> DEFINE r1 == <<a>> \o <<>>
           s1 == <<b>> \o <<>>
           t1 == <<c>> \o <<>>
<1>2. /\ r1 \in Seq(Int) /\ Len(r1) = 1 /\ r1[1] = a
      /\ s1 \in Seq(Int) /\ Len(s1) = 1 /\ s1[1] = b
      /\ t1 \in Seq(Int) /\ Len(t1) = 1 /\ t1[1] = c
  BY <1>1
<1> HIDE DEF r1, s1, t1
<1> DEFINE r2 == <<a>> \o s1
           s2 == <<b>> \o t1
<1>3. /\ r2 \in Seq(Int) /\ Len(r2) = 1 + Len(s1) /\ r2[1] = a
      /\ \A i \in 1..Len(s1) : r2[1 + i] = s1[i]
  <2>1. s1 \in Seq(Int)
    BY <1>2
  <2> QED
    BY <2>1, InFront
<1>4. /\ s2 \in Seq(Int) /\ Len(s2) = 1 + Len(t1) /\ s2[1] = b
      /\ \A i \in 1..Len(t1) : s2[1 + i] = t1[i]
  <2>1. t1 \in Seq(Int)
    BY <1>2
  <2> QED
    BY <2>1, InFront
<1> HIDE DEF r2, s2
<1>5. Len(r2) = 2 /\ r2[2] = b /\ Len(s2) = 2 /\ s2[2] = c
  <2>1. 1 \in 1..Len(s1) /\ 1 \in 1..Len(t1) /\ 1 + 1 = 2
    BY <1>2
  <2> QED
    BY <1>2, <1>3, <1>4, <2>1
<1> DEFINE r3 == <<a>> \o s2
<1>6. /\ r3 \in Seq(Int) /\ Len(r3) = 1 + Len(s2) /\ r3[1] = a
      /\ \A i \in 1..Len(s2) : r3[1 + i] = s2[i]
  <2>1. s2 \in Seq(Int)
    BY <1>4
  <2> QED
    BY <2>1, InFront
<1> HIDE DEF r3
<1>7. Len(r3) = 3 /\ r3[2] = b /\ r3[3] = c
  <2>1. 1 \in 1..Len(s2) /\ 2 \in 1..Len(s2) /\ 1 + 1 = 2 /\ 1 + 2 = 3
    BY <1>5
  <2> QED
    BY <1>4, <1>5, <1>6, <2>1
<1>8. NumberOf(r1) = a
  BY <1>2, RowNumber
<1>9. NumberOf(r2) = a + 10 * b
  BY <1>3, <1>5, RowNumber
<1>10. NumberOf(r3) = a + 10 * b + 100 * c
  BY <1>6, <1>7, RowNumber
<1> QED
  BY <1>8, <1>9, <1>10, Zenon DEF r1, s1, t1, r2, s2, r3

\* The last digit of one digit.
LEMMA OneDigit == ASSUME NEW x \in 0..9 PROVE x % 10 = x
OBVIOUS

\* With a picture for every digit the row shows the value.
LEMMA RowShows ==
  ASSUME drawn \in 0..100, digits = DigitsOf(drawn), NEW keys \in Seq(Int),
         Len(keys) >= 10, \A k \in 1..Len(keys) : keys[k] = k - 1
  PROVE  NumberOf(number_mode_pictures(keys)) = drawn
<1> DEFINE Missing(x) == x < 0 \/ x >= Len(keys)
           One(x) == IF keys[x + 1] >= 0 THEN <<keys[x + 1]>> ELSE <<>>
           Row(x, rest) == IF Missing(x) THEN <<>> ELSE One(x) \o rest
<1>1. /\ digits[0] = drawn % 10
      /\ digits[1] = IF drawn >= 10 THEN (drawn \div 10) % 10 ELSE -1
      /\ digits[2] = IF drawn >= 100 THEN (drawn \div 100) % 10 ELSE -1
  BY DEF DigitsOf, Digit, LV_PROGRESS_DIGIT, PlaceValue
<1>2. number_mode_pictures(keys)
        = Row(digits[0], Row(digits[1], Row(digits[2], <<>>)))
  BY Zenon DEF number_mode_pictures
<1>3. ASSUME NEW x \in 0..9
      PROVE  ~ Missing(x) /\ One(x) = <<x>>
  <2>1. x + 1 \in 1..Len(keys) /\ (x + 1) - 1 = x
    OBVIOUS
  <2>2. keys[x + 1] = x
    BY <2>1
  <2>3. One(x) = <<x>>
    BY <2>2
  <2>4. ~ Missing(x)
    OBVIOUS
  <2> QED
    BY <2>3, <2>4
<1>4. \A x \in 0..9 : \A rest : Row(x, rest) = <<x>> \o rest
  BY <1>3, Zenon
<1>5. \A rest : Row(-1, rest) = <<>>
  OBVIOUS
<1> HIDE DEF Row
<1>6. CASE drawn < 10
  <2>1. drawn \in 0..9 /\ digits[0] = drawn /\ digits[1] = -1 /\ drawn \in Int
    BY <1>1, <1>6
  <2>2. number_mode_pictures(keys) = <<drawn>> \o <<>>
    <3>1. Row(digits[1], Row(digits[2], <<>>)) = <<>>
      BY <1>5, <2>1
    <3> QED
      BY <1>2, <1>4, <2>1, <3>1
  <2>3. NumberOf(<<drawn>> \o <<>>) = drawn
    BY <2>1, Rows, Zenon
  <2> QED
    BY <2>2, <2>3
<1>7. CASE drawn \in 10..99
  <2> DEFINE a == drawn % 10
             b == drawn \div 10
  <2>1. /\ digits[0] = a /\ a \in 0..9 /\ digits[1] = b /\ b \in 0..9
        /\ digits[2] = -1 /\ a + 10 * b = drawn
    <3>1. drawn \in Int /\ drawn >= 10 /\ ~ (drawn >= 100)
      BY <1>7
    <3>2. a \in 0..9 /\ b \in 0..9 /\ a + 10 * b = drawn
      BY <1>7
    <3>3. digits[0] = a /\ digits[1] = b % 10 /\ digits[2] = -1
      BY <1>1, <3>1, Zenon
    <3> HIDE DEF a, b
    <3>4. b % 10 = b
      BY <3>2, OneDigit, Zenon
    <3>5. digits[1] = b
      BY <3>3, <3>4
    <3> QED
      BY <3>2, <3>3, <3>5
  <2> HIDE DEF a, b
  <2>2. number_mode_pictures(keys) = <<a>> \o (<<b>> \o <<>>)
    <3>1. Row(digits[2], <<>>) = <<>>
      BY <1>5, <2>1
    <3>2. Row(digits[1], <<>>) = <<b>> \o <<>>
      BY <1>4, <2>1
    <3>3. Row(digits[0], <<b>> \o <<>>) = <<a>> \o (<<b>> \o <<>>)
      BY <1>4, <2>1
    <3> QED
      BY <1>2, <3>1, <3>2, <3>3
  <2>3. NumberOf(<<a>> \o (<<b>> \o <<>>)) = a + 10 * b
    <3>1. a \in Int /\ b \in Int
      BY <2>1
    <3> QED
      BY <3>1, Rows, Zenon
  <2> QED
    BY <2>1, <2>2, <2>3
<1>8. CASE drawn = 100
  <2>1. digits[0] = 0 /\ digits[1] = 0 /\ digits[2] = 1
    BY <1>1, <1>8
  <2>2. 0 \in 0..9 /\ 1 \in 0..9
    OBVIOUS
  <2>3. number_mode_pictures(keys) = <<0>> \o (<<0>> \o (<<1>> \o <<>>))
    <3>1. Row(digits[2], <<>>) = <<1>> \o <<>>
      BY <1>4, <2>1, <2>2
    <3>2. Row(digits[1], <<1>> \o <<>>) = <<0>> \o (<<1>> \o <<>>)
      BY <1>4, <2>1, <2>2
    <3> QED
      BY <1>2, <1>4, <2>1, <2>2, <3>1, <3>2
  <2>4. NumberOf(<<0>> \o (<<0>> \o (<<1>> \o <<>>))) = 0 + 10 * 0 + 100 * 1
    <3>1. 0 \in Int /\ 1 \in Int
      OBVIOUS
    <3> QED
      BY <3>1, Rows, Zenon
  <2> QED
    BY <1>8, <2>3, <2>4
<1> QED
  BY <1>6, <1>7, <1>8

----------------------------------------------------------------------------
(* The widget of a configuration file.                                     *)

\* The JSON files that a configuration can be, as UIConfig describes them.
Element ==
  [object : BOOLEAN, name : STRING, area : SUBSET STRING, mode : STRING,
   keys : Seq(Int), src : STRING]
JsonPage == [name : STRING, elements : Seq(Element)]
JsonFile == [json : BOOLEAN, pages : Seq(JsonPage)]

\* The widget of a file.
UpgradeObj(file) ==
  ui_get_upgrade_obj(ui_find_page(ui_config_init(file), "upgrading_page"))

\* The pages that are left have all been parsed.
LEMMA PagesParsed ==
  ASSUME NEW file \in JsonFile
  PROVE  /\ ui_config_init(file) \in Seq(JsonPage)
         /\ \A k \in DOMAIN ui_config_init(file) :
              json_ui_page_parse(ui_config_init(file)[k])
<1>1. file.pages \in Seq(JsonPage)
  BY DEF JsonFile
<1>2. <<>> \in Seq(JsonPage) /\ DOMAIN <<>> = {}
  OBVIOUS
<1>3. CASE file.json /\ \A k \in DOMAIN file.pages : json_ui_page_parse(file.pages[k])
  <2>1. ui_config_init(file) = file.pages
    BY <1>3, Zenon DEF ui_config_init, ui_page_config_init
  <2> QED
    BY <1>1, <1>3, <2>1, Zenon
<1>4. CASE ~ (file.json /\ \A k \in DOMAIN file.pages : json_ui_page_parse(file.pages[k]))
  <2>1. ui_config_init(file) = <<>>
    BY <1>4, Zenon DEF ui_config_init, ui_page_config_init
  <2> QED
    BY <1>2, <2>1
<1> QED
  BY <1>3, <1>4

\* A page that is found is one of them.
LEMMA PageFound ==
  ASSUME NEW root \in Seq(JsonPage), NEW name, ui_find_page(root, name) # <<>>
  PROVE  \E k \in DOMAIN root : ui_find_page(root, name) = root[k].elements
<1> DEFINE First(k) == root[k].name = name /\ \A j \in 1..(k - 1) : root[j].name # name
           Named == {k \in DOMAIN root : root[k].name = name}
<1>1. DOMAIN root = 1..Len(root) /\ Len(root) \in Nat
  OBVIOUS
<1>2. /\ ui_find_page(root, name) = root[CHOOSE k \in DOMAIN root : First(k)].elements
      /\ name \in PageNames(root)
  BY Zenon DEF ui_find_page
<1>3. Named \in SUBSET Nat /\ Named # {}
  <2>1. Named # {}
    BY <1>2, Zenon DEF PageNames
  <2> QED
    BY <1>1, <2>1
<1>4. PICK k \in Named : \A j \in Named : k <= j
  <2> HIDE DEF Named
  <2> QED
    BY <1>3, Least
<1>5. ASSUME NEW j \in 1..(k - 1) PROVE root[j].name # name
  <2>1. j \in DOMAIN root /\ ~ (k <= j)
    BY <1>1
  <2> QED
    BY <1>4, <2>1
<1>6. k \in DOMAIN root /\ First(k)
  BY <1>5
<1> HIDE DEF First
<1>7. (CHOOSE i \in DOMAIN root : First(i)) \in DOMAIN root
  BY <1>6, Zenon
<1> QED
  BY <1>2, <1>7, Zenon

\* In number mode the list is long enough, and in order when none is missing.
LEMMA NumberList ==
  ASSUME NEW file \in JsonFile, UpgradeObj(file).type = "number",
         -1 \notin {UpgradeObj(file).image_array[k] :
                      k \in DOMAIN UpgradeObj(file).image_array}
  PROVE  LET keys == UpgradeObj(file).image_array
         IN  keys \in Seq(Int) /\ Len(keys) >= 10 /\ \A k \in 1..Len(keys) : keys[k] = k - 1
<1> DEFINE root == ui_config_init(file)
           elements == ui_find_page(root, "upgrading_page")
           e == elements[1]
           keys == UpgradeObj(file).image_array
<1>1. /\ elements # <<>> /\ e.name = "progress"
      /\ UpgradeObj(file) = [type |-> e.mode, image_array |-> image_array(e)]
  <2>1. CASE elements = <<>> \/ elements[1].name # "progress"
    <3>1. UpgradeObj(file) = NoWidget
      BY <2>1, Zenon DEF UpgradeObj, ui_get_upgrade_obj
    <3> QED
      BY <3>1 DEF NoWidget
  <2>2. CASE ~ (elements = <<>> \/ elements[1].name # "progress")
    BY <2>2, Zenon DEF UpgradeObj, ui_get_upgrade_obj
  <2> QED
    BY <2>1, <2>2
<1>2. PICK m \in DOMAIN root : elements = root[m].elements
  <2>1. root \in Seq(JsonPage)
    BY PagesParsed
  <2> QED
    BY <1>1, <2>1, PageFound
<1>3. root[m] \in JsonPage /\ json_ui_page_parse(root[m])
  <2>1. root \in Seq(JsonPage) /\ json_ui_page_parse(root[m])
    BY PagesParsed
  <2> HIDE DEF root
  <2> QED
    BY <2>1
<1> HIDE DEF root
<1>4. elements \in Seq(Element)
  BY <1>2, <1>3 DEF JsonPage
<1>5. 1 \in DOMAIN elements /\ e \in Element
  <2> HIDE DEF elements
  <2> QED
    BY <1>1, <1>4
<1>6. json_ui_page_cont_parse(e)
  BY <1>2, <1>3, <1>5, Zenon DEF json_ui_page_parse
<1> HIDE DEF elements
<1>7. e.mode = "number" /\ keys = image_array(e)
  BY <1>1
<1>8. Len(e.keys) >= 10
  <2>1. json_progress_parse(e)
    BY <1>1, <1>6 DEF json_ui_page_cont_parse
  <2> QED
    BY <1>7, <2>1 DEF json_progress_parse
<1>9. e.keys \in Seq(Int) /\ DOMAIN e.keys = 1..Len(e.keys) /\ Len(e.keys) \in Nat
  <2>1. e.keys \in Seq(Int)
    BY <1>5 DEF Element
  <2> QED
    BY <2>1
<1> HIDE DEF e
<1> DEFINE Broken(k) == \E j \in 1..k : e.keys[j] # j - 1
<1>10. keys = [k \in 1..Len(e.keys) |-> IF Broken(k) THEN -1 ELSE e.keys[k]]
  BY <1>7, <1>9 DEF image_array
<1> HIDE DEF keys
<1>11. ASSUME NEW k \in 1..Len(e.keys) PROVE keys[k] = k - 1 /\ keys[k] \in Int
  <2>1. keys[k] # -1
    <3>1. -1 \notin {keys[i] : i \in DOMAIN keys}
      BY DEF keys
    <3>2. k \in DOMAIN keys
      BY <1>10
    <3> QED
      BY <3>1, <3>2, Zenon
  <2>2. keys[k] = IF Broken(k) THEN -1 ELSE e.keys[k]
    <3> HIDE DEF Broken
    <3> QED
      BY <1>10
  <2>3. ~ Broken(k) /\ keys[k] = e.keys[k]
    BY <2>1, <2>2, Zenon
  <2>4. k \in 1..k
    BY <1>9
  <2>5. e.keys[k] = k - 1
    BY <2>3, <2>4
  <2> QED
    BY <1>9, <2>3, <2>5
<1>12. keys \in Seq(Int) /\ Len(keys) = Len(e.keys)
  <2>1. keys \in [1..Len(e.keys) -> Int]
    <3>1. DOMAIN keys = 1..Len(e.keys) /\ keys = [k \in DOMAIN keys |-> keys[k]]
      <4> HIDE DEF Broken
      <4> QED
        BY <1>10
    <3> QED
      BY <1>11, <3>1
  <2> QED
    BY <1>9, <2>1, LenProperties
<1> QED
  BY <1>8, <1>11, <1>12 DEF keys

\* In number mode the pictures of the digits make up the value that otaUI set, for
\* every configuration file: json_progress_parse accepts no list that lacks one of
\* the ten, unless it is out of order.
THEOREM NumbersReadRight ==
  ASSUME PackagesGenerated, ConfigFiles \subseteq JsonFile
  PROVE  Spec => []NumberReadsRight
<1> DEFINE Parsed == \E file \in ConfigFiles : upgrade_obj = UpgradeObj(file)
<1>1. Init => Parsed
  BY DEF Init, UIInit, UpgradeObj
<1>2. Parsed /\ [Next]_vars => Parsed'
  <2>1. [Next]_vars => upgrade_obj' = upgrade_obj
    BY DEF Next, Script, UI, UIStep, uiVars, vars
  <2> QED
    BY <2>1
<1>3. Inv /\ Parsed => NumberReadsRight
  <2> SUFFICES ASSUME Inv, Parsed, upgrade_obj.type = "number", ~ OutOfOrder, drawn >= 0
               PROVE  NumberOf(number_mode_pictures(upgrade_obj.image_array)) = drawn
    BY DEF NumberReadsRight
  <2>1. PICK file \in JsonFile : upgrade_obj = UpgradeObj(file)
    OBVIOUS
  <2> DEFINE keys == upgrade_obj.image_array
  <2>2. /\ keys \in Seq(Int) /\ Len(keys) >= 10
        /\ \A k \in 1..Len(keys) : keys[k] = k - 1
    BY <2>1, NumberList, Zenon DEF OutOfOrder
  <2>3. drawn \in 0..100 /\ digits = DigitsOf(drawn)
    BY DEF Inv, DisplayInv, DigitsOf
  <2> HIDE DEF keys
  <2>4. NumberOf(number_mode_pictures(keys)) = drawn
    BY <2>2, <2>3, RowShows
  <2> QED
    BY <2>4 DEF keys
<1> HIDE DEF Parsed
<1> QED
  BY <1>1, <1>2, <1>3, UpgradeInvariant, PTL DEF Spec

----------------------------------------------------------------------------
(* The picture of a bar.                                                   *)

\* lv_get_closest_element_index gives the last picture for exactly its key only.
LEMMA LastPicture ==
  ASSUME NEW keys \in Seq(Int), keys # <<>>, NEW v \in Int,
         lv_get_closest_element_index(keys, v) = Len(keys)
  PROVE  keys[Len(keys)] = v
<1> DEFINE diff(k) == IF keys[k] > v THEN keys[k] - v ELSE v - keys[k]
           Nearer(k) == \A j \in DOMAIN keys :
                          diff(k) < diff(j) \/ (diff(k) = diff(j) /\ k <= j)
           nearest == CHOOSE k \in DOMAIN keys : Nearer(k)
           Distances == {diff(k) : k \in DOMAIN keys}
<1>1. /\ Len(keys) \in Nat \ {0} /\ DOMAIN keys = 1..Len(keys)
      /\ \A k \in DOMAIN keys : diff(k) \in Nat /\ k \in Nat
  OBVIOUS
<1>2. PICK d \in Distances : \A e \in Distances : d <= e
  <2>1. Distances \subseteq Nat /\ Distances # {}
    BY <1>1
  <2> HIDE DEF Distances
  <2> QED
    BY <2>1, Least
<1> DEFINE Closest == {k \in DOMAIN keys : diff(k) = d}
<1>3. PICK k \in Closest : \A j \in Closest : k <= j
  <2>1. Closest \subseteq Nat /\ Closest # {}
    BY <1>1, <1>2
  <2> HIDE DEF Closest
  <2> QED
    BY <2>1, Least
<1>4. k \in DOMAIN keys /\ Nearer(k)
  <2>1. ASSUME NEW j \in DOMAIN keys
        PROVE  diff(k) < diff(j) \/ (diff(k) = diff(j) /\ k <= j)
    <3>1. diff(k) = d /\ d <= diff(j) /\ d \in Nat /\ diff(j) \in Nat
      BY <1>1, <1>2, <1>3
    <3>2. diff(j) = d => k <= j
      BY <1>3
    <3> HIDE DEF diff
    <3> QED
      BY <3>1, <3>2
  <2> QED
    BY <1>3, <2>1
<1>5. nearest \in DOMAIN keys
  <2> HIDE DEF Nearer
  <2> QED
    BY <1>4
<1>6. lv_get_closest_element_index(keys, v)
        = IF diff(nearest) # 0 /\ nearest = Len(keys) THEN nearest - 1 ELSE nearest
  BY DEF lv_get_closest_element_index
<1>7. nearest = Len(keys) /\ diff(nearest) = 0
  <2> HIDE DEF nearest, diff
  <2> QED
    BY <1>1, <1>5, <1>6
<1>8. diff(Len(keys)) = 0
  <2> HIDE DEF nearest, diff
  <2> QED
    BY <1>7
<1> QED
  BY <1>1, <1>8

\* The configurations whose bars end with a picture for 100.
BarsEndFull ==
  \A file \in ConfigFiles : EndsFull(UpgradeObj(file))

\* The picture of the full bar is drawn only when every partition of the package has
\* been written or skipped, for every list of pictures that ends at 100.
THEOREM FullBarInstalled ==
  ASSUME PackagesGenerated, BarsEndFull PROVE Spec => []FullBarMeansInstalled
<1>1. Init => EndsFull(upgrade_obj)
  BY DEF Init, UIInit, BarsEndFull, UpgradeObj
<1>2. EndsFull(upgrade_obj) /\ [Next]_vars => EndsFull(upgrade_obj)'
  <2>1. [Next]_vars => upgrade_obj' = upgrade_obj
    BY DEF Next, Script, UI, UIStep, uiVars, vars
  <2> QED
    BY <2>1 DEF EndsFull
<1>3. Inv /\ EndsFull(upgrade_obj) => FullBarMeansInstalled
  <2> SUFFICES ASSUME Inv, EndsFull(upgrade_obj), Bar,
                      Picture = Len(upgrade_obj.image_array)
               PROVE  \A p \in DOMAIN part : part[p] \in {"new", "skipped"}
    BY DEF FullBarMeansInstalled
  <2> DEFINE keys == upgrade_obj.image_array
  <2>1. keys \in Seq(Int) /\ keys # <<>> /\ keys[Len(keys)] >= 100
    BY DEF EndsFull, Bar
  <2>2. drawn \in 0..100 /\ digits = DigitsOf(drawn)
    BY DEF Bar, Inv, DisplayInv, DigitsOf
  <2>3. lv_upgrade_get_value = drawn
    BY <2>2, ReadBack
  <2>4. lv_get_closest_element_index(keys, drawn) = Len(keys)
    BY <2>3 DEF Picture
  <2>5. drawn >= 100
    <3> HIDE DEF keys
    <3>1. keys[Len(keys)] = drawn
      BY <2>1, <2>2, <2>4, LastPicture
    <3> QED
      BY <2>1, <3>1
  <2> QED
    BY <2>5 DEF Inv, InstalledInv, AllIn, Done
<1> QED
  BY <1>1, <1>2, <1>3, UpgradeInvariant, PTL DEF Spec

----------------------------------------------------------------------------
(* The display and the nodes that the script has announced.                *)

\* The properties and the places of instructions are numbers.
LEMMA Numbers ==
  ASSUME ScriptInv
  PROVE  /\ current \in Int /\ next \in 0..100
         /\ Instructions(script, {"next"}) \subseteq Nat
         /\ Instructions(script, {"current"}) \subseteq Nat
<1>1. current \in Int /\ next \in 0..100
  <2>1. current \in -1..100 /\ next \in 0..100
    BY DEF ScriptInv
  <2> QED
    BY <2>1
<1>2. \A ops : Instructions(script, ops) \subseteq Nat
  BY InstructionFacts DEF Instructions
<1> QED
  BY <1>1, <1>2

\* Where the script may report a failure, the next node is not below the current one.
LEMMA CurrentBelowNext ==
  ASSUME ScriptInv, Rises(script), PropInv,
         pos \in Instructions(script, {"version", "device", "ddelta"})
  PROVE  current <= next
<1>1. /\ current \in Int /\ next \in 0..100 /\ pos \in Nat
      /\ DOMAIN script = 1..Len(script) /\ Len(script) \in Nat
      /\ \A k \in DOMAIN script : script[k].val \in Nat
  BY InstructionFacts, Numbers
<1>2. CASE current <= 0
  BY <1>1, <1>2
<1>3. CASE ~ (current <= 0)
  <2>1. PICK c \in Instructions(script, {"current"}) :
          c < pos /\ current = script[c].val
    BY <1>3 DEF PropInv
  <2>2. PICK m \in Instructions(script, {"next"}) :
          m < pos /\ script[c].val <= script[m].val /\ ~ Skips(script, m, pos)
    BY <2>1 DEF Rises
  <2>3. script[m].val <= next
    BY <2>2 DEF PropInv
  <2>4. script[m].val \in Nat /\ script[c].val \in Nat
    BY <1>1 DEF Instructions
  <2> QED
    BY <1>1, <2>1, <2>2, <2>3, <2>4
<1> QED
  BY <1>2, <1>3

\* Every step of ota.sh raises its properties, or reports a failure.
PropFacts ==
  /\ PropInv' /\ next <= next'
  /\ current <= current' \/ current <= next

\* A step over an instruction that sets no property.
LEMMA PropPass ==
  ASSUME ScriptInv, PropInv, script' = script, next' = next,
         pos' \in Nat, pos <= pos',
         current' = current \/ (current' = -1 /\ current <= next),
         \A m \in Instructions(script, {"next"}) :
           pos <= m /\ m < pos' => Skips(script, m, pos')
  PROVE  PropFacts
<1>1. /\ current \in Int /\ next \in 0..100 /\ pos \in Nat
      /\ Instructions(script, {"next"}) \subseteq Nat
      /\ Instructions(script, {"current"}) \subseteq Nat
  BY InstructionFacts, Numbers
<1>2. ASSUME NEW m \in Instructions(script, {"next"}), m < pos'
      PROVE  script[m].val <= next \/ Skips(script, m, pos')
  <2>1. CASE m < pos
    <3>1. script[m].val <= next \/ Skips(script, m, pos)
      BY <2>1 DEF PropInv
    <3> QED
      BY <1>1, <3>1, SkippedStays
  <2>2. CASE pos <= m
    BY <1>2, <2>2
  <2> QED
    BY <1>1, <2>1, <2>2
<1>3. next' = 0 \/ \E m \in Instructions(script, {"next"}) :
                     m < pos' /\ next' = script[m].val
  BY <1>1 DEF PropInv
<1>4. current' <= 0 \/ \E c \in Instructions(script, {"current"}) :
                         c < pos' /\ current' = script[c].val
  BY <1>1 DEF PropInv
<1>5. PropInv'
  BY <1>2, <1>3, <1>4 DEF PropInv
<1> QED
  BY <1>1, <1>5 DEF PropFacts

\* Setting a property raises it.
LEMMA PropSet ==
  ASSUME ScriptInv, Rises(script), PropInv, Setprop
  PROVE  PropFacts
<1>1. /\ pos \in DOMAIN script /\ Val \in Nat /\ pos \in Nat
      /\ current \in Int /\ next \in 0..100
      /\ script' = script /\ pos' = pos + 1
      /\ Instructions(script, {"next"}) \subseteq Nat
      /\ Instructions(script, {"current"}) \subseteq Nat
  BY InstructionFacts, Numbers DEF Setprop, At, Goto
<1>2. CASE script[pos].op = "current"
  <2>1. current' = Val /\ next' = next
    BY <1>2 DEF Setprop, At
  <2>2. /\ pos \in Instructions(script, {"current"})
        /\ pos \notin Instructions(script, {"next"})
    BY <1>1, <1>2 DEF Instructions
  <2>3. current <= current'
    <3>1. CASE current <= 0
      BY <1>1, <2>1, <3>1
    <3>2. CASE ~ (current <= 0)
      <4>1. PICK c \in Instructions(script, {"current"}) :
              c < pos /\ current = script[c].val
        BY <3>2 DEF PropInv
      <4>2. script[c].val <= script[pos].val
        BY <2>2, <4>1 DEF Rises
      <4> QED
        BY <2>1, <4>1, <4>2 DEF Val
    <3> QED
      BY <3>1, <3>2
  <2>4. \A m \in Instructions(script, {"next"}) : m < pos' =>
          script[m].val <= next \/ Skips(script, m, pos')
    <3> SUFFICES ASSUME NEW m \in Instructions(script, {"next"}), m < pos'
                 PROVE  script[m].val <= next \/ Skips(script, m, pos')
      OBVIOUS
    <3>1. m < pos /\ m \in Nat
      BY <1>1, <2>2
    <3>2. script[m].val <= next \/ Skips(script, m, pos)
      BY <3>1 DEF PropInv
    <3> QED
      BY <1>1, <3>1, <3>2, SkippedStays
  <2>5. next' = 0 \/ \E m \in Instructions(script, {"next"}) :
                       m < pos' /\ next' = script[m].val
    BY <1>1, <2>1 DEF PropInv
  <2>6. \E c \in Instructions(script, {"current"}) : c < pos' /\ current' = script[c].val
    BY <1>1, <2>1, <2>2 DEF Val
  <2>7. PropInv'
    BY <1>1, <2>1, <2>4, <2>5, <2>6 DEF PropInv
  <2> QED
    BY <1>1, <2>1, <2>3, <2>7 DEF PropFacts
<1>3. CASE script[pos].op = "next"
  <2>1. current' = current /\ next' = Val
    BY <1>3 DEF Setprop, At
  <2>2. pos \in Instructions(script, {"next"})
    BY <1>1, <1>3 DEF Instructions
  <2>3. \A m \in Instructions(script, {"next"}) : m < pos' => script[m].val <= Val
    <3> SUFFICES ASSUME NEW m \in Instructions(script, {"next"}), m < pos'
                 PROVE  script[m].val <= script[pos].val
      BY DEF Val
    <3>1. CASE m = pos
      BY <1>1, <3>1 DEF Val
    <3>2. CASE m < pos
      BY <2>2, <3>2 DEF Rises
    <3> QED
      BY <1>1, <3>1, <3>2
  <2>4. next <= next'
    <3>1. CASE next = 0
      BY <1>1, <2>1, <3>1
    <3>2. CASE next # 0
      <4>1. PICK m \in Instructions(script, {"next"}) : m < pos /\ next = script[m].val
        BY <3>2 DEF PropInv
      <4>2. m < pos'
        BY <1>1, <4>1
      <4> QED
        BY <2>1, <2>3, <4>1, <4>2
    <3> QED
      BY <3>1, <3>2
  <2>5. \E m \in Instructions(script, {"next"}) : m < pos' /\ next' = script[m].val
    BY <1>1, <2>1, <2>2 DEF Val
  <2>6. current' <= 0 \/ \E c \in Instructions(script, {"current"}) :
                           c < pos' /\ current' = script[c].val
    BY <1>1, <2>1 DEF PropInv
  <2>7. PropInv'
    BY <1>1, <2>1, <2>3, <2>5, <2>6 DEF PropInv
  <2> QED
    BY <1>1, <2>1, <2>4, <2>7 DEF PropFacts
<1> QED
  BY <1>2, <1>3 DEF Setprop, At

\* All steps of ota.sh.
LEMMA PropScript ==
  ASSUME ScriptInv, Rises(script), PropInv, Script
  PROVE  PropFacts
<1>1. /\ StepFacts /\ script' = script /\ pos' \in Nat /\ pos <= pos'
  BY ScriptStep DEF StepFacts
<1>2. /\ pos \in Nat /\ Instructions(script, {"next"}) \subseteq Nat
  BY InstructionFacts, Numbers
<1>3. ASSUME script[pos].op # "next", pos' = pos + 1 \/ pos' = pos
      PROVE  \A m \in Instructions(script, {"next"}) :
               pos <= m /\ m < pos' => Skips(script, m, pos')
  <2>1. pos \notin Instructions(script, {"next"})
    BY <1>3 DEF Instructions
  <2> QED
    BY <1>2, <1>3, <2>1
<1>4. CASE Setprop
  BY <1>4, PropSet
<1>5. ASSUME Fail, script[pos].op \in {"version", "device", "ddelta"},
             pos \in DOMAIN script
      PROVE  PropFacts
  <2>1. current' = -1 /\ next' = next /\ pos' = pos /\ script[pos].op # "next"
    BY <1>5 DEF Fail
  <2>2. current <= next
    BY <1>5, CurrentBelowNext DEF Instructions
  <2> QED
    BY <1>1, <1>3, <2>1, <2>2, PropPass
<1>6. CASE Check
  <2>1. script[pos].op \in {"version", "device"} /\ pos \in DOMAIN script
    BY <1>6, InstructionFacts DEF Check, At
  <2>2. CASE Fail
    BY <1>5, <2>1, <2>2
  <2>3. CASE pos' = pos + 1 /\ current' = current /\ next' = next
    BY <1>1, <1>3, <2>1, <2>3, PropPass
  <2> QED
    BY <1>6, <2>2, <2>3 DEF Check, Goto
<1>7. CASE Guard
  <2>1. /\ pos \in Instructions(script, {"unless"})
        /\ Val \in Nat /\ Val = script[pos].val
    BY <1>7, InstructionFacts DEF Guard, At, Instructions, Val
  <2>2. PICK skip \in {0, Val} : pos' = pos + 1 + skip
    BY <1>7 DEF Guard, Goto
  <2>3. ASSUME NEW m \in Instructions(script, {"next"}), pos <= m, m < pos'
        PROVE  Skips(script, m, pos')
    <3>1. m # pos /\ m \in Nat
      BY <1>2, <2>1 DEF Instructions
    <3>2. pos < m /\ m <= pos + script[pos].val /\ pos + script[pos].val < pos'
      BY <1>2, <2>1, <2>2, <2>3, <3>1
    <3> QED
      BY <2>1, <3>2 DEF Skips
  <2>4. current' = current /\ next' = next
    BY <1>7 DEF Guard
  <2> QED
    BY <1>1, <2>3, <2>4, PropPass
<1>8. CASE RunUserScript \/ Skip \/ FinishWrite
  <2>1. pos' = pos + 1 /\ current' = current /\ next' = next
    BY <1>8 DEF RunUserScript, Skip, FinishWrite, Goto
  <2>2. script[pos].op # "next"
    BY <1>8 DEF RunUserScript, Skip, FinishWrite, At, ScriptInv, Writes, Instructions
  <2> QED
    BY <1>1, <1>3, <2>1, <2>2, PropPass
<1>9. CASE StartWrite \/ Exit
  <2>1. pos' = pos /\ current' = current /\ next' = next
    BY <1>9 DEF StartWrite, Exit
  <2> QED
    BY <1>1, <1>2, <2>1, PropPass
<1>10. CASE WriteFails
  <2>1. pos \in Writes(script)
    BY <1>10 DEF WriteFails, ScriptInv
  <2>2. CASE Fail /\ script[pos].op = "ddelta"
    BY <1>5, <2>1, <2>2 DEF Writes, Instructions
  <2>3. CASE pos' = pos /\ current' = current /\ next' = next
    BY <1>1, <1>2, <2>3, PropPass
  <2> QED
    BY <1>10, <2>2, <2>3 DEF WriteFails
<1> QED
  BY <1>4, <1>6, <1>7, <1>8, <1>9, <1>10 DEF Script, ScriptNext

\* The steps of both programs keep what otaUI shows among what was announced.
LEMMA AnnouncedStep ==
  Inv /\ Rises(script) /\ AnnouncedInv /\ [Next]_vars => AnnouncedInv'
<1> SUFFICES ASSUME Inv, Rises(script), AnnouncedInv, [Next]_vars PROVE AnnouncedInv'
  OBVIOUS
<1>1. /\ ScriptInv /\ DisplayInv /\ InstalledInv
  BY DEF Inv
<1>2. /\ current \in Int /\ next \in Int /\ current' \in Int /\ next' \in Int
      /\ prev_node \in Int /\ next_node \in Int /\ shown \in Int
  <2>1. Inv'
    BY InvStep
  <2>2. prev_node \in -1..100 /\ next_node \in 0..100 /\ shown \in 0..100
    BY <1>1 DEF DisplayInv
  <2>3. current' \in -1..100 /\ next' \in 0..100
    BY <2>1 DEF Inv, ScriptInv
  <2>4. current \in Int /\ next \in 0..100
    BY <1>1, Numbers
  <2> QED
    BY <2>2, <2>3, <2>4
<1>3. CASE Script
  <2>1. PropFacts
    BY <1>1, <1>3, PropScript DEF AnnouncedInv
  <2>2. ASSUME NEW v \in Int, Announced(v) PROVE v <= next' \/ v <= current'
    BY <1>2, <2>1, <2>2 DEF PropFacts, Announced
  <2>3. shown' = shown /\ prev_node' = prev_node /\ next_node' = next_node
    BY <1>3 DEF Script, uiVars
  <2> QED
    BY <1>2, <2>1, <2>2, <2>3 DEF PropFacts, AnnouncedInv, Announced
<1>4. CASE UI
  <2>1. script' = script /\ pos' = pos /\ current' = current /\ next' = next
    BY <1>4, UIFrame
  <2>2. PropInv'
    BY <2>1 DEF AnnouncedInv, PropInv
  <2>3. CASE DrawProgress
    <3>1. shown' = shown \/ shown' <= prev_node \/ shown' <= next_node
      BY <1>1, <1>4, <2>3, DrawStep, UIFrame
    <3>2. prev_node' = prev_node /\ next_node' = next_node
      BY <2>3 DEF DrawProgress, LoopEnd
    <3>3. shown' \in Int
      <4>1. Inv'
        BY InvStep
      <4> QED
        BY <4>1 DEF Inv, DisplayInv
    <3>4. shown' <= next \/ shown' <= current
      BY <1>2, <3>1, <3>3 DEF AnnouncedInv, Announced
    <3> QED
      BY <2>1, <2>2, <3>2, <3>4 DEF AnnouncedInv, Announced
  <2>4. CASE Quiet
    BY <1>2, <2>1, <2>2, <2>4 DEF Quiet, AnnouncedInv, Announced
  <2> QED
    BY <1>4, <2>3, <2>4, UIActions
<1>5. CASE UNCHANGED vars
  BY <1>5 DEF vars, AnnouncedInv, Announced, PropInv
<1> QED
  BY <1>3, <1>4, <1>5 DEF Next

\* The display never runs ahead of the nodes that the script has announced, when
\* otaUI starts at 0 and the nodes of the script rise.
THEOREM DisplayNeverAhead ==
  ASSUME PackagesGenerated, StartValues = {0}
  PROVE  Spec => []NeverAhead
<1>1. Init => Rises(script) /\ AnnouncedInv
  <2> SUFFICES ASSUME Init PROVE Rises(script) /\ AnnouncedInv
    OBVIOUS
  <2>1. Rises(script)
    BY Generated DEF Init, ScriptInit, PackagesRise
  <2>2. /\ pos = 1 /\ current = 0 /\ next = 0
        /\ shown = 0 /\ prev_node = 0 /\ next_node = 0
    BY DEF Init, ScriptInit, UIInit
  <2>3. Instructions(script, {"next"}) \subseteq Nat \ {0}
    <3>1. Inv
      BY InvInit, Generated
    <3> QED
      BY <3>1, InstructionFacts DEF Inv, Instructions
  <2> QED
    BY <2>1, <2>2, <2>3 DEF AnnouncedInv, Announced, PropInv
<1>2. Inv /\ Rises(script) /\ AnnouncedInv /\ [Next]_vars
        => (Rises(script) /\ AnnouncedInv)'
  <2> SUFFICES ASSUME Inv, Rises(script), AnnouncedInv, [Next]_vars
               PROVE  Rises(script)' /\ AnnouncedInv'
    OBVIOUS
  <2>1. script' = script
    <3>1. CASE Script
      BY <3>1, ScriptStep DEF Inv, StepFacts
    <3>2. CASE UI
      BY <3>2, UIFrame
    <3>3. CASE UNCHANGED vars
      BY <3>3 DEF vars
    <3> QED
      BY <3>1, <3>2, <3>3 DEF Next
  <2> QED
    BY <2>1, AnnouncedStep
<1>3. AnnouncedInv => NeverAhead
  BY DEF AnnouncedInv, Announced, NeverAhead
<1> QED
  BY <1>1, <1>2, <1>3, UpgradeInvariant, PTL DEF Spec

----------------------------------------------------------------------------
(* The types.                                                              *)

\* The counters of otaUI and what it shows keep their types.
CounterType ==
  /\ fast \in 0..FAST_TICKS /\ slow \in 0..SLOW_TICKS
  /\ count \in 0..(SYNC_TIME - 1) /\ overflows \in 0..MaxOverflows
  /\ stale \in 0..(Period + 1)
  /\ upc \in {"top", "top_next", "draw", "wait", "final", "final_next", "exited"}
FlagType == logo_mode \in LogoModes /\ rebooted \in BOOLEAN /\ up \in BOOLEAN
PageType == page \in pages \union {"none"}

\* The types of the constants.
LEMMA Constants ==
  /\ FAST_TICKS \in Nat /\ SLOW_TICKS \in Nat /\ Period \in Nat
  /\ UI_TICK_MS \in Nat \ {0} /\ SYNC_TIME \in Nat \ {0}
  /\ WRAP \in 0..(SYNC_TIME - 1) /\ MaxOverflows \in Nat
<1>1. SYNC_TIME \in Nat /\ UI_TICK_MS \in Nat \ {0}
  BY UIAssumption
<1>2. SYNC_TIME \div UI_TICK_MS \in Nat
  BY <1>1
<1> QED
  BY <1>2, UIAssumption DEF Period

\* fast and slow are reset when they reach their limits.
LEMMA CalcCounters ==
  ASSUME fast \in 0..FAST_TICKS, slow \in 0..SLOW_TICKS, ota_calc_progress
  PROVE  fast' \in 0..FAST_TICKS /\ slow' \in 0..SLOW_TICKS
<1> DEFINE behind  == shown < prev_node
           fastHit == behind /\ fast >= FAST_TICKS
           crawl   == ~ fastHit /\ shown < next_node
           step    == fastHit \/ (crawl /\ slow >= SLOW_TICKS)
<1>1. /\ fast' = IF step THEN 0 ELSE fast + (IF behind THEN 1 ELSE 0)
      /\ slow' = IF step THEN 0 ELSE slow + (IF crawl THEN 1 ELSE 0)
  BY DEF ota_calc_progress
<1>2. ~ step => /\ behind => fast < FAST_TICKS
                /\ crawl => slow < SLOW_TICKS
  BY Constants
<1> HIDE DEF behind, crawl, step
<1> QED
  BY <1>1, <1>2, Constants

\* The end of a turn of the loop.
LEMMA LoopEndType ==
  ASSUME CounterType, NEW ok \in BOOLEAN, LoopEnd(ok)
  PROVE  /\ count' \in 0..(SYNC_TIME - 1) /\ overflows' \in 0..MaxOverflows
         /\ stale' \in 0..(Period + 1)
         /\ upc' \in {"final", "wait", "top"}
<1>1. upc' \in {"final", "wait", "top"}
  BY DEF LoopEnd
<1>2. stale' \in 0..(Period + 1)
  BY Constants DEF LoopEnd, CounterType
<1>3. /\ (count + UI_TICK_MS) % SYNC_TIME \in 0..(SYNC_TIME - 1)
      /\ (count + UI_TICK_MS + SYNC_TIME - WRAP) % SYNC_TIME \in 0..(SYNC_TIME - 1)
  BY Constants DEF CounterType
<1>4. \/ count' = count /\ overflows' = overflows
      \/ count' = (count + UI_TICK_MS) % SYNC_TIME /\ overflows' = overflows
      \/ /\ count' = (count + UI_TICK_MS + SYNC_TIME - WRAP) % SYNC_TIME
         /\ overflows' = overflows + 1 /\ overflows < MaxOverflows
  BY DEF LoopEnd, CountTurn
<1>5. overflows \in 0..MaxOverflows /\ count \in 0..(SYNC_TIME - 1)
  BY DEF CounterType
<1>6. count' \in 0..(SYNC_TIME - 1) /\ overflows' \in 0..MaxOverflows
  BY <1>3, <1>4, <1>5, Constants
<1> QED
  BY <1>1, <1>2, <1>6

\* Each group of types is kept by every step.
LEMMA CounterStep == CounterType /\ [Next]_vars => CounterType'
<1> SUFFICES ASSUME CounterType, [Next]_vars PROVE CounterType'
  OBVIOUS
<1>1. CASE Script
  BY <1>1 DEF Script, uiVars, CounterType
<1>2. CASE Sync \/ NoSync \/ Wait
  BY <1>2, Constants DEF Sync, SyncCurrent, NoSync, Wait, CounterType
<1>3. CASE Finish
  BY <1>3, Constants DEF Finish, SyncCurrent, CounterType
<1>4. CASE DrawLogo
  <2>1. LoopEnd(ui_page_exist("logo_page")) /\ ui_page_exist("logo_page") \in BOOLEAN
    BY <1>4 DEF DrawLogo, ui_page_exist
  <2>2. fast' = fast /\ slow' = slow
    BY <1>4 DEF DrawLogo
  <2> QED
    BY <2>1, <2>2, LoopEndType DEF CounterType
<1>5. CASE DrawFail
  <2>1. /\ LoopEnd(ui_page_exist("upgrade_fail_page"))
        /\ ui_page_exist("upgrade_fail_page") \in BOOLEAN
    BY <1>5 DEF DrawFail, ui_page_exist
  <2>2. fast' = fast /\ slow' = slow
    BY <1>5 DEF DrawFail
  <2> QED
    BY <2>1, <2>2, LoopEndType DEF CounterType
<1>6. CASE DrawProgress
  <2>1. \E ok \in BOOLEAN : LoopEnd(ok)
    BY <1>6 DEF DrawProgress
  <2>2. fast' \in 0..FAST_TICKS /\ slow' \in 0..SLOW_TICKS
    BY <1>6, CalcCounters DEF DrawProgress, CounterType
  <2> QED
    BY <2>1, <2>2, LoopEndType DEF CounterType
<1>7. CASE UNCHANGED vars
  BY <1>7 DEF vars, CounterType
<1> QED
  BY <1>1, <1>2, <1>3, <1>4, <1>5, <1>6, <1>7 DEF Next, UI, UIStep, UINext

\* The same for the flags.
LEMMA FlagStep == FlagType /\ [Next]_vars => FlagType'
<1> SUFFICES ASSUME FlagType, [Next]_vars PROVE FlagType'
  OBVIOUS
<1>1. logo_mode' = logo_mode
  BY DEF Next, Script, UI, UIStep, uiVars, vars
<1>2. CASE Script
  <2>1. rebooted' = rebooted
    BY <1>2 DEF Script, uiVars
  <2>2. up' = up \/ up' = FALSE
    BY <1>2 DEF Script, ScriptNext, Setprop, Check, Guard, RunUserScript, Skip,
                StartWrite, FinishWrite, WriteFails, Exit
  <2> QED
    BY <1>1, <2>1, <2>2, Zenon DEF FlagType
<1>3. CASE Finish
  <2>1. \/ up' = up /\ rebooted' = rebooted
        \/ up' = ~ end_condition /\ rebooted' = end_condition
    BY <1>3 DEF Finish, SyncCurrent
  <2>2. end_condition \in BOOLEAN /\ (~ end_condition) \in BOOLEAN
    BY DEF end_condition
  <2> QED
    BY <1>1, <2>1, <2>2, Zenon DEF FlagType
<1>4. CASE Sync \/ NoSync \/ DrawLogo \/ DrawFail \/ DrawProgress \/ Wait
  <2>1. up' = up /\ rebooted' = rebooted
    BY <1>4 DEF Sync, SyncCurrent, NoSync, DrawLogo, DrawFail, DrawProgress, Wait,
                LoopEnd
  <2> QED
    BY <1>1, <2>1, Zenon DEF FlagType
<1>5. CASE UNCHANGED vars
  <2>1. up' = up /\ rebooted' = rebooted
    BY <1>5 DEF vars
  <2> QED
    BY <1>1, <2>1, Zenon DEF FlagType
<1> QED
  BY <1>2, <1>3, <1>4, <1>5 DEF Next, UI, UIStep, UINext

\* The same for the visible page.
LEMMA PageStep == PageType /\ [Next]_vars => PageType'
<1> SUFFICES ASSUME PageType, [Next]_vars PROVE PageType'
  OBVIOUS
<1>1. pages' = pages
  BY DEF Next, Script, UI, UIStep, uiVars, vars
<1>2. page' = page \/ page' \in pages
  <2>1. CASE Script
    BY <2>1 DEF Script, uiVars
  <2>2. CASE Sync \/ NoSync \/ Wait \/ Finish
    BY <2>2 DEF Sync, SyncCurrent, NoSync, Wait, Finish
  <2>3. CASE DrawLogo \/ DrawFail \/ DrawProgress
    BY <2>3 DEF DrawLogo, DrawFail, DrawProgress, ui_page_show, ui_page_exist
  <2>4. CASE UNCHANGED vars
    BY <2>4 DEF vars
  <2> QED
    BY <2>1, <2>2, <2>3, <2>4 DEF Next, UI, UIStep, UINext
<1> QED
  BY <1>1, <1>2 DEF PageType

\* A digit is one.
LEMMA DigitType ==
  ASSUME drawn \in -1..100, digits = DigitsOf(drawn)
  PROVE  digits \in [Digit -> -1..9]
<1>1. \A d \in Digit : PlaceValue[d] \in {1, 10, 100}
  BY DEF PlaceValue
<1>2. \A d \in Digit : drawn >= 0 => (drawn \div PlaceValue[d]) % 10 \in 0..9
  BY <1>1
<1> QED
  BY <1>2 DEF DigitsOf

\* The state of ota.sh and otaUI keeps its types.
THEOREM TypeCorrect ==
  ASSUME PackagesGenerated PROVE Spec => []TypeOK
<1> DEFINE Types == CounterType /\ FlagType /\ PageType
<1>1. Init => Types
  <2> SUFFICES ASSUME Init PROVE Types
    OBVIOUS
  <2>1. /\ fast = 0 /\ slow = 0 /\ count = 0 /\ overflows = 0 /\ stale = 0 /\ page = "none"
        /\ upc \in {"top", "exited"}
    BY DEF Init, UIInit
  <2>2. CounterType /\ PageType
    BY <2>1, Constants DEF CounterType, PageType
  <2>3. FlagType
    <3>1. logo_mode \in LogoModes /\ rebooted = FALSE /\ up = TRUE
      BY DEF Init, UIInit, ScriptInit
    <3> QED
      BY <3>1, Zenon DEF FlagType
  <2> QED
    BY <2>2, <2>3
<1>2. Types /\ [Next]_vars => Types'
  BY CounterStep, FlagStep, PageStep
<1>3. Inv /\ Types => TypeOK
  <2> SUFFICES ASSUME Inv, Types PROVE TypeOK
    OBVIOUS
  <2>1. /\ pos \in 1..(Len(script) + 1) /\ phase \in {"running", "writing", "exited"}
        /\ part \in [DOMAIN part -> Content]
        /\ current \in -1..100 /\ next \in 0..100
    BY DEF Inv, ScriptInv
  <2>2. /\ prev_node \in -1..100 /\ next_node \in 0..100 /\ shown \in 0..100
        /\ drawn \in -1..100 /\ digits = DigitsOf(drawn)
    BY DEF Inv, DisplayInv, DigitsOf
  <2>3. digits \in [Digit -> -1..9]
    BY <2>2, DigitType
  <2>4. /\ current \in -1..130 /\ next \in 0..130
        /\ prev_node \in -1..130 /\ next_node \in 0..130
    BY <2>1, <2>2
  <2>5. CounterType /\ FlagType /\ PageType
    OBVIOUS
  <2>6. up \in BOOLEAN /\ rebooted \in BOOLEAN
    BY <2>5, Zenon DEF FlagType
  <2>7. logo_mode \in LogoModes /\ page \in pages \union {"none"}
    BY <2>5, Zenon DEF FlagType, PageType
  <2> HIDE DEF Types
  <2> QED
    BY <2>1, <2>2, <2>3, <2>4, <2>5, <2>6, <2>7, Zenon DEF TypeOK, CounterType
<1> HIDE DEF Types
<1> QED
  BY <1>1, <1>2, <1>3, UpgradeInvariant, PTL DEF Spec

----------------------------------------------------------------------------
(* The turns between two readings.                                         *)

\* Quotient and remainder.
LEMMA DivMod ==
  ASSUME NEW a \in Nat, NEW n \in Nat \ {0}
  PROVE  /\ a % n \in 0..(n - 1) /\ a \div n \in Nat
         /\ a = n * (a \div n) + (a % n)
<1>1. a % n \in 0..(n - 1)
  OBVIOUS
<1>2. a \div n \in Nat
  BY Quotients
<1>3. a = n * (a \div n) + (a % n)
  OBVIOUS
<1> QED
  BY <1>1, <1>2, <1>3

\* They are the only ones.
LEMMA Remainder ==
  ASSUME NEW n \in Nat \ {0}, NEW q \in Nat, NEW r \in 0..(n - 1)
  PROVE  (n * q + r) % n = r
<1> DEFINE a == n * q + r
           p == a \div n
           s == a % n
<1>1. a \in Nat
  OBVIOUS
<1> HIDE DEF a
<1>2. s \in 0..(n - 1) /\ p \in Nat /\ a = n * p + s
  BY <1>1, DivMod
<1> HIDE DEF p, s
<1>3. n * p + s = n * q + r
  BY <1>2 DEF a
<1>4. CASE p < q
  <2>1. n * (p + 1) <= n * q /\ n * (p + 1) = n * p + n
    BY <1>2, <1>4
  <2> QED
    BY <1>2, <1>3, <2>1
<1>5. CASE q < p
  <2>1. n * (q + 1) <= n * p /\ n * (q + 1) = n * q + n
    BY <1>2, <1>5
  <2> QED
    BY <1>2, <1>3, <2>1
<1>6. CASE p = q
  <2>1. s = r
    BY <1>2, <1>3, <1>6
  <2> QED
    BY <2>1 DEF s, a
<1> QED
  BY <1>2, <1>4, <1>5, <1>6

\* Until the first overflow the counter tells the turns since the last reading.
ReadInv ==
  /\ overflows \in Nat
  /\ overflows = 0 =>
       /\ stale \in 0..Period
       /\ upc \in {"top", "top_next", "draw"} /\ stale < Period
            => count = stale * UI_TICK_MS
       /\ upc = "top" /\ stale = Period => SyncDue
       /\ upc \in {"top_next", "draw"} => stale < Period

\* The constants.
LEMMA PeriodFacts ==
  ASSUME SYNC_TIME % UI_TICK_MS = 0
  PROVE  /\ SYNC_TIME \in Nat \ {0} /\ UI_TICK_MS \in Nat \ {0}
         /\ Period \in Nat \ {0} /\ SYNC_TIME = UI_TICK_MS * Period
<1>1. SYNC_TIME \in Nat \ {0} /\ UI_TICK_MS \in Nat \ {0}
  BY UIAssumption
<1>2. Period \in Nat /\ SYNC_TIME = UI_TICK_MS * Period + 0
  BY <1>1, DivMod DEF Period
<1>3. SYNC_TIME = UI_TICK_MS * Period
  BY <1>1, <1>2
<1>4. Period # 0
  BY <1>1, <1>3
<1> QED
  BY <1>1, <1>2, <1>3, <1>4

\* The turns of a period add up to it: after k turns the counter is at its k-th
\* place, and at 0 with the last one.
LEMMA TurnMore ==
  ASSUME SYNC_TIME % UI_TICK_MS = 0, NEW k \in Nat, k < Period
  PROVE  (k * UI_TICK_MS + UI_TICK_MS) % SYNC_TIME
           = IF k + 1 = Period THEN 0 ELSE (k + 1) * UI_TICK_MS
<1>1. /\ SYNC_TIME \in Nat \ {0} /\ UI_TICK_MS \in Nat \ {0}
      /\ Period \in Nat \ {0} /\ SYNC_TIME = UI_TICK_MS * Period
  BY PeriodFacts
<1> DEFINE v == (k + 1) * UI_TICK_MS
<1>2. k * UI_TICK_MS + UI_TICK_MS = v /\ v \in Nat
  BY <1>1
<1>3. CASE k + 1 = Period
  <2>1. v = SYNC_TIME * 1 + 0 /\ 0 \in 0..(SYNC_TIME - 1)
    BY <1>1, <1>3
  <2>2. (SYNC_TIME * 1 + 0) % SYNC_TIME = 0
    BY <1>1, <2>1, Remainder
  <2> QED
    BY <1>2, <1>3, <2>1, <2>2
<1>4. CASE k + 1 # Period
  <2>1. PICK d \in Nat \ {0} : Period = (k + 1) + d
    <3>1. Period - (k + 1) \in Nat \ {0}
      BY <1>1, <1>4
    <3> QED
      BY <1>1, <3>1
  <2>2. SYNC_TIME = v + UI_TICK_MS * d /\ UI_TICK_MS * d \in Nat \ {0}
    BY <1>1, <2>1
  <2> HIDE DEF v
  <2>3. v = SYNC_TIME * 0 + v /\ v \in 0..(SYNC_TIME - 1) /\ 0 \in Nat
    BY <1>1, <1>2, <2>2
  <2>4. (SYNC_TIME * 0 + v) % SYNC_TIME = v
    BY <1>1, <2>3, Remainder
  <2>5. v % SYNC_TIME = v
    BY <2>3, <2>4
  <2> QED
    BY <1>2, <1>4, <2>5 DEF v
<1> QED
  BY <1>3, <1>4

\* A turn of the loop.
LEMMA LoopTurns ==
  ASSUME SYNC_TIME % UI_TICK_MS = 0, ReadInv, upc = "draw", NEW ok, LoopEnd(ok)
  PROVE  ReadInv'
<1>1. SYNC_TIME \in Nat \ {0} /\ UI_TICK_MS \in Nat \ {0} /\ Period \in Nat \ {0}
  BY PeriodFacts
<1>2. overflows \in Nat /\ overflows' \in {overflows, overflows + 1}
  BY DEF ReadInv, LoopEnd, CountTurn
<1>3. ASSUME overflows' = 0
      PROVE  /\ stale' \in 0..Period /\ upc' \notin {"top_next", "draw"}
             /\ upc' = "top" => count' = IF stale' = Period THEN 0
                                         ELSE stale' * UI_TICK_MS
  <2>1. overflows = 0
    BY <1>2, <1>3
  <2>2. stale \in Nat /\ stale < Period /\ count = stale * UI_TICK_MS
    BY <1>1, <2>1 DEF ReadInv
  <2>3. /\ stale' = stale + 1 /\ upc' \notin {"top_next", "draw"}
        /\ upc' = "top" => ok
    BY <1>1, <2>2 DEF LoopEnd
  <2>4. ok => count' = (count + UI_TICK_MS) % SYNC_TIME
    BY <1>2, <1>3, <2>1 DEF LoopEnd, CountTurn
  <2>5. (count + UI_TICK_MS) % SYNC_TIME
          = IF stale + 1 = Period THEN 0 ELSE (stale + 1) * UI_TICK_MS
    BY <2>2, TurnMore
  <2>6. stale' \in 0..Period
    BY <1>1, <2>2, <2>3
  <2> QED
    BY <2>3, <2>4, <2>5, <2>6
<1>4. overflows' \in Nat
  BY <1>2
<1>5. UI_TICK_MS' = UI_TICK_MS /\ Period' = Period
  BY DEF Period
<1> QED
  BY <1>1, <1>3, <1>4, <1>5 DEF ReadInv, SyncDue

\* Every step keeps the place in the period.
LEMMA ReadStep ==
  ASSUME SYNC_TIME % UI_TICK_MS = 0, ReadInv, [Next]_vars
  PROVE  ReadInv'
<1>1. SYNC_TIME \in Nat \ {0} /\ UI_TICK_MS \in Nat \ {0} /\ Period \in Nat \ {0}
  BY PeriodFacts
<1>2. CASE UNCHANGED <<upc, count, overflows, stale>>
  BY <1>2 DEF ReadInv, SyncDue, Period
<1>3. CASE Sync
  <2>1. CASE SyncDue /\ SyncCurrent("top", "top_next")
    <3>1. /\ count' = count /\ overflows' = overflows /\ stale' = 0
          /\ upc' = "top_next" /\ count = 0
      BY <2>1 DEF SyncDue, SyncCurrent
    <3> QED
      BY <1>1, <3>1 DEF ReadInv, SyncDue, Period
  <2>2. CASE /\ upc = "top_next" /\ upc' = "draw"
             /\ UNCHANGED <<count, overflows, stale>>
    BY <2>2 DEF ReadInv, SyncDue, Period
  <2> QED
    BY <1>3, <2>1, <2>2 DEF Sync
<1>4. CASE NoSync
  <2>1. upc = "top" /\ upc' = "draw" /\ UNCHANGED <<count, overflows, stale>> /\ ~ SyncDue
    BY <1>4 DEF NoSync
  <2> QED
    BY <1>1, <2>1 DEF ReadInv, Period
<1>5. CASE DrawLogo \/ DrawFail \/ DrawProgress
  <2>1. upc = "draw" /\ \E ok : LoopEnd(ok)
    BY <1>5, Zenon DEF DrawLogo, DrawFail, DrawProgress
  <2> QED
    BY <2>1, LoopTurns
<1>6. CASE Wait
  BY <1>6 DEF Wait, ReadInv, SyncDue, Period
<1>7. CASE Finish
  <2>1. /\ count' = count /\ overflows' = overflows /\ stale' \in {0, stale}
        /\ upc' \notin {"top", "top_next", "draw"}
    BY <1>7 DEF Finish, SyncCurrent
  <2> QED
    BY <1>1, <2>1 DEF ReadInv, Period
<1>8. \/ UNCHANGED <<upc, count, overflows, stale>>
      \/ Sync \/ NoSync \/ DrawLogo \/ DrawFail \/ DrawProgress \/ Wait \/ Finish
  BY DEF Next, Script, UI, UIStep, UINext, uiVars, vars
<1> QED
  BY <1>2, <1>3, <1>4, <1>5, <1>6, <1>7, <1>8

\* Until count_tick_ms overflows, otaUI reads the properties again within a period,
\* for every CONFIG_OTA_UI_PROG_SYNC_TIME that is a number of whole turns.
THEOREM ReadsInTime ==
  ASSUME SYNC_TIME % UI_TICK_MS = 0 PROVE Spec => []ReadsEveryPeriod
<1>1. Init => ReadInv
  <2> SUFFICES ASSUME Init PROVE ReadInv
    OBVIOUS
  <2>1. count = 0 /\ overflows = 0 /\ stale = 0 /\ upc \in {"top", "exited"}
    BY DEF Init, UIInit
  <2>2. UI_TICK_MS \in Nat \ {0} /\ Period \in Nat \ {0}
    BY PeriodFacts
  <2>3. 0 * UI_TICK_MS = 0
    BY <2>2
  <2> QED
    BY <2>1, <2>2, <2>3 DEF ReadInv
<1>2. ReadInv /\ [Next]_vars => ReadInv'
  BY ReadStep
<1>3. ReadInv => ReadsEveryPeriod
  BY PeriodFacts DEF ReadInv, ReadsEveryPeriod
<1> QED
  BY <1>1, <1>2, <1>3, PTL DEF Spec
=============================================================================
