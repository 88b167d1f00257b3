------------------------------- MODULE GenOta -------------------------------
(***************************************************************************)
(* tools/gen_ota_zip.py: the ota.sh script it writes into an upgrade       *)
(* package.  A script is a sequence of instructions; the shell commands    *)
(* around them (echo, time, log redirection) are left out.  A partition is *)
(* its index in bin_list, new partitions follow the patched ones.  A       *)
(* weight is speed_dict[bin] * size, here a positive integer, and progress *)
(* is computed exactly where the tool uses floating point.                 *)
(***************************************************************************)
EXTENDS Integers, Sequences, SequencesExt

\* Instructions of ota.sh.
SetCurrent(n)     == [op |-> "current", val |-> n]   \* setprop ota.progress.current
SetNext(n)        == [op |-> "next", val |-> n]      \* setprop ota.progress.next
CheckVersion      == [op |-> "version", val |-> 0]   \* [ %d -lt $version_current ]
CheckDevice(i)    == [op |-> "device", val |-> i]    \* [ ! -e /dev/<xxx> ]
Install(i)        == [op |-> "dd", val |-> i]        \* dd if=/ota/... of=/dev/<xxx>
VerifyInstall(i)  == [op |-> "verify", val |-> i]    \* avb_verify -c, then dd or skip
Apply(i)          == [op |-> "ddelta", val |-> i]    \* ddelta_apply /dev/<xxx>
UnlessPresent(n)  == [op |-> "unless", val |-> n]    \* if [ ! -e /ota/<last> ]: n instructions
UserScript        == [op |-> "user", val |-> 0]      \* text of --user_begin_script, --user_end_script

\* The sums of the first weights, 0 to all of them.
Sums(weights) ==
  LET sum[i \in 0..Len(weights)] == IF i = 0 THEN 0 ELSE sum[i - 1] + weights[i]
  IN  sum

Sum1(weights, n) == Sums(weights)[n]
Total(weights)   == Sum1(weights, Len(weights))

Start == 30   \* ota_progress when ota.sh starts

----------------------------------------------------------------------------
(* Full packages.                                                          *)

\* Mutant: the last node is not rounded up to the end of the scale.
full_progress_floor(weights, max) ==
  [i \in DOMAIN weights |->
     Start + (Sum1(weights, i) * (max - Start)) \div (Total(weights) + 1)]

\* ota_progress_list of gen_full_sh.
full_progress(weights, max) ==
  [i \in DOMAIN weights |->
     IF i = Len(weights) THEN max
     ELSE Start + (Sum1(weights, i) * (max - Start)) \div Total(weights)]

\* What both kinds of script do before and after the installation.
Prologue(args, nodes) ==
  (IF args.user_begin_script THEN <<UserScript>> ELSE <<>>)
  \o <<SetCurrent(Start), SetNext(nodes[1])>>
  \o (IF args.skip_version_check THEN <<>> ELSE <<CheckVersion>>)

Epilogue(args) ==
  IF args.user_end_script
    THEN <<SetNext(100), UserScript, SetCurrent(100)>> ELSE <<>>

\* The progress lines after installing partition i.
Report(nodes, i) ==
  <<SetCurrent(nodes[i])>>
  \o (IF i < Len(nodes) THEN <<SetNext(nodes[i + 1])>> ELSE <<>>)

max_progress(args) == 100 - args.user_end_script_progress

gen_full_sh(args) ==
  LET nodes == full_progress(args.weights, max_progress(args))
      n     == Len(args.weights)
      step(i) == IF i \in args.upgrade_verify THEN VerifyInstall(i) ELSE Install(i)
  IN  Prologue(args, nodes)
      \o [i \in 1..n |-> CheckDevice(i)]
      \o FlattenSeq([i \in 1..n |-> <<step(i)>> \o Report(nodes, i)])
      \o Epilogue(args)

----------------------------------------------------------------------------
(* Differential packages.  args.weights are those of the patches,          *)
(* args.bin_weights those of the new images of the patched partitions, and *)
(* args.new_weights those of the new partitions.                           *)

\* ota_progress_list of gen_diff_ota_sh: the patches take the scale up to
\* max, and the new partitions add to that.
diff_progress(args) ==
  LET max  == max_progress(args)
      n    == Len(args.weights)
      m    == Len(args.new_weights)
      bins == args.bin_weights \o args.new_weights
      node(i) ==
        IF i <= n
          THEN Start + (Sum1(args.weights, i) * (max - Start)) \div Total(args.weights)
          ELSE max + (Sum1(args.new_weights, i - n) * (max - 70)) \div Total(bins)
  IN  [i \in 1..(n + m) |-> IF i = n + m THEN max ELSE node(i)]

gen_diff_ota_sh(args) ==
  LET nodes == diff_progress(args)
      n     == Len(args.weights)
      m     == Len(args.new_weights)
      \* within the guard the last patch announces no next node
      patch(i) == <<Apply(i), SetCurrent(nodes[i])>>
                  \o (IF i < n THEN <<SetNext(nodes[i + 1])>> ELSE <<>>)
      patches == FlattenSeq([i \in 1..n |-> patch(i)])
      news    == FlattenSeq([j \in 1..m |-> <<Install(n + j)>> \o Report(nodes, n + j)])
  IN  Prologue(args, nodes)
      \o <<UnlessPresent(Len(patches))>> \o patches \o news
      \o Epilogue(args)

\* The script of a package: one input path makes a full package, two make a
\* differential one.
ota_sh(args) == IF args.full THEN gen_full_sh(args) ELSE gen_diff_ota_sh(args)

Partitions(args) ==
  1..(Len(args.weights) + (IF args.full THEN 0 ELSE Len(args.new_weights)))
=============================================================================
