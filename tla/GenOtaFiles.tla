---------------------------- MODULE GenOtaFiles -----------------------------
(***************************************************************************)
(* tools/gen_ota_zip.py, gen_diff_ota and gen_full_ota: which files of the *)
(* input directories go into a package and which of them ota.sh patches or *)
(* installs, then the user's files and the signature.  A file is what its  *)
(* name makes it: firmware (vela_<xxx>.bin or .elf), the recovery image    *)
(* (vela_ota...), or another file.                                         *)
(***************************************************************************)
EXTENDS Naturals, Sequences, SequencesExt, FiniteSets

CONSTANTS
  Files,        \* names that occur in the input directories
  MaxUserFiles, \* bound on the length of --user_file
  Failures      \* what os.system may return for a tool that fails

\* os.system returns a wait status: an exit status in the high byte, or the signal
\* that ended the tool in the low one.
ASSUME FilesAssumption == IsFiniteSet(Files) /\ MaxUserFiles \in Nat
ASSUME FailuresAssumption ==
  Failures \subseteq {256 * status : status \in 1..255} \union 1..255

Kind == {"firmware", "ota", "other"}

VARIABLES
  kind,               \* what each file's name makes it
  full,               \* one input directory: a full package
  old, new,           \* the files of the old (if any) and the new directory
  newpartition,       \* option --newpartition
  differ,             \* common files whose contents differ
  user_file,          \* option --user_file: does the path exist?
  sign,               \* option --sign
  newpartition_list,  \* files to install on new partitions
  cursor,             \* the position of a "for" loop
  bin_list,           \* partitions that ota.sh patches or installs
  zip,                \* what the package holds: <<"patch", "file" or "user", name>>
  output,             \* the file args.output, once it is closed
  exit_code,          \* of the tool, RUNNING before its end
  pc

input == <<kind, full, old, new, newpartition, differ, user_file, sign>>
vars == <<input, newpartition_list, cursor, bin_list, zip, output, exit_code, pc>>

RUNNING == 256

\* exit(ret): the caller gets the low byte.  The archive is closed with what has
\* been packed when it is still open.
Exit(ret) ==
  /\ pc' = "error"
  /\ exit_code' = ret % 256
  /\ output' = IF pc \in {"filter", "add"} THEN "partial" ELSE output

\* list(set(new_files) - set(old_files)) is in no particular order.  The tool
\* exits at once when one of two directories is empty.
Init ==
  /\ kind \in [Files -> Kind]
  /\ full \in BOOLEAN
  /\ old \in IF full THEN {{}} ELSE (SUBSET Files) \ {{}}
  /\ new \in (SUBSET Files) \ {{}}
  /\ differ \in SUBSET (old \intersect new)
  /\ newpartition \in IF full THEN {FALSE} ELSE BOOLEAN
  /\ user_file \in UNION {[1..n -> BOOLEAN] : n \in 0..MaxUserFiles}
  /\ sign \in BOOLEAN
  /\ newpartition_list \in IF newpartition THEN SetToSeqs(new \ old) ELSE {<<>>}
  /\ cursor = 1
  /\ bin_list = {} /\ zip = {}
  /\ output = "none" /\ exit_code = RUNNING
  /\ pc = IF full THEN "full" ELSE "filter"

\* file[0:5] != 'vela_' or the suffix is wrong
Invalid(f) == kind[f] = "other"

\* Mutant: every file is taken for an invalid one.
Filter_all ==
  /\ pc = "filter" /\ cursor <= Len(newpartition_list)
  /\ newpartition_list' = RemoveFirst(newpartition_list, newpartition_list[cursor])
  /\ cursor' = cursor + 1
  /\ UNCHANGED <<input, bin_list, zip, output, exit_code, pc>>

\* One turn of the loop that removes invalid files from the list it runs over:
\* after a removal the next file has moved to the position just visited.
Filter ==
  /\ pc = "filter" /\ cursor <= Len(newpartition_list)
  /\ LET file == newpartition_list[cursor]
     IN  newpartition_list' = IF Invalid(file)
                                THEN RemoveFirst(newpartition_list, file)
                                ELSE newpartition_list
  /\ cursor' = cursor + 1
  /\ UNCHANGED <<input, bin_list, zip, output, exit_code, pc>>

\* Common files that differ are patched; the recovery image is packed as it
\* is, changed or not.
Patched == {f \in old \intersect new : kind[f] = "firmware" /\ f \in differ}

Packed(files) ==
  {<<IF kind[f] = "ota" THEN "file" ELSE "patch", f>> : f \in files}
Matching == Patched \union {f \in old \intersect new : kind[f] = "ota"}

Match ==
  /\ pc = "filter" /\ cursor > Len(newpartition_list)
  /\ bin_list' = Patched
  /\ zip' = Packed(Matching)
  /\ pc' = "add"
  /\ UNCHANGED <<input, newpartition_list, cursor, output, exit_code>>

\* ddelta_generate, which runs for the recovery image as well, fails for a file:
\* the tool ends with those before it packed and without an ota.sh.
MatchFails ==
  /\ pc = "filter" /\ cursor > Len(newpartition_list)
  /\ \E f \in Matching : \E before \in SUBSET (Matching \ {f}) :
       /\ bin_list' = before \intersect Patched
       /\ zip' = Packed(before)
  /\ \E ret \in Failures : Exit(ret)
  /\ UNCHANGED <<input, newpartition_list, cursor>>

\* The loop of gen_full_ota.
Full ==
  /\ pc = "full"
  /\ bin_list' = {f \in new : kind[f] = "firmware"}
  /\ zip' = {<<"file", f>> : f \in {g \in new : ~ Invalid(g)}}
  /\ pc' = "add"
  /\ UNCHANGED <<input, newpartition_list, cursor, output, exit_code>>

\* The new partitions are packed, then ota.sh is written; the tool ends with
\* exit(-1) when there is nothing to patch or to install.
AddNew ==
  /\ pc = "add"
  /\ zip' = zip \union {<<"file", f>> : f \in ToSet(newpartition_list)}
  /\ cursor' = 1
  /\ IF bin_list = {} THEN Exit(255)
                      ELSE pc' = "user" /\ UNCHANGED <<output, exit_code>>
  /\ UNCHANGED <<input, newpartition_list, bin_list>>

\* Mutant: the loop goes on behind a missing path.
AddUserFile_skip ==
  /\ pc = "user" /\ cursor <= Len(user_file)
  /\ zip' = IF user_file[cursor] THEN zip \union {<<"user", cursor>>} ELSE zip
  /\ cursor' = cursor + 1
  /\ UNCHANGED <<input, newpartition_list, bin_list, output, exit_code, pc>>

\* One turn of the loop over args.user_file, which stops at a missing path and
\* leaves out the ones behind it.
AddUserFile ==
  /\ pc = "user" /\ cursor <= Len(user_file)
  /\ IF user_file[cursor]
       THEN zip' = zip \union {<<"user", cursor>>} /\ cursor' = cursor + 1
       ELSE zip' = zip /\ cursor' = Len(user_file) + 1
  /\ UNCHANGED <<input, newpartition_list, bin_list, output, exit_code, pc>>

\* ota_zip.close(), and the end of a tool that does not sign.
Close ==
  /\ pc = "user" /\ cursor > Len(user_file)
  /\ output' = "unsigned"
  /\ IF sign THEN pc' = "sign" /\ UNCHANGED exit_code
             ELSE pc' = "done" /\ exit_code' = 0
  /\ UNCHANGED <<input, newpartition_list, cursor, bin_list, zip>>

\* signapk writes a signed copy, which replaces the package, or fails.
Sign ==
  /\ pc = "sign"
  /\ \/ pc' = "done" /\ output' = "signed" /\ exit_code' = 0
     \/ \E ret \in Failures : Exit(ret)
  /\ UNCHANGED <<input, newpartition_list, cursor, bin_list, zip>>

Next == Filter \/ Match \/ MatchFails \/ Full \/ AddNew \/ AddUserFile \/ Close \/ Sign

Spec == Init /\ [][Next]_vars

----------------------------------------------------------------------------
\* Names that are not firmware among the new files: the loop removes some of
\* them and, since it skips the file after each removal, may leave others.
InvalidNew == {f \in new \ old : Invalid(f)}
Removed == InvalidNew \ ToSet(newpartition_list)
Kept == InvalidNew \intersect ToSet(newpartition_list)

\* When gen_ota_zip.py has run to its end, no changed firmware and no firmware that
\* was to go to a new partition is left out of the package, what ota.sh installs
\* is in it, and it is signed if --sign asked for that.  Of the new files whose
\* names are not firmware no more are installed than were removed: each removal
\* inside the loop makes it skip at most one file.  The user files are in it up to
\* the first missing one; those behind it are left out.
PackedAtEnd ==
  pc = "done" =>
    /\ \A f \in differ : kind[f] = "firmware" => <<"patch", f>> \in zip
    /\ full => \A f \in new : kind[f] = "firmware" => f \in bin_list
    /\ full => \A f \in bin_list : <<"file", f>> \in zip
    /\ \A f \in ToSet(newpartition_list) : <<"file", f>> \in zip
    /\ newpartition =>
         /\ \A f \in new \ old : ~ Invalid(f) => f \in ToSet(newpartition_list)
         /\ Cardinality(Kept) <= Cardinality(Removed)
    /\ \A k \in DOMAIN user_file :
         <<"user", k>> \in zip <=> \A j \in 1..k : user_file[j]
    /\ output = IF sign THEN "signed" ELSE "unsigned"

\* README, after "gen_ota_zip.py old new --sign": "ota.zip is a signed ota package".
\* The caller of the tool knows it by exit code 0.  That holds while no tool fails
\* with a wait status whose low byte is 0, as that of exit status 1 is.
ZeroMeansSigned == exit_code = 0 /\ sign => output = "signed"
=============================================================================
