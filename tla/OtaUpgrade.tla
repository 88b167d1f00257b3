----------------------------- MODULE OtaUpgrade -----------------------------
(***************************************************************************)
(* An upgrade in the recovery system: ota.sh installs the package while    *)
(* otaUI, started with "otaUI &", follows its progress properties.  The    *)
(* two run concurrently and share nothing but the properties.              *)
(***************************************************************************)
EXTENDS OtaScript, OtaUI

vars == <<script, pos, phase, part, current, next, up, logo_mode, pages, upgrade_obj, upc, prev_node, next_node,
          shown, fast, slow, count, overflows, stale, page, drawn, digits, rebooted>>

Init == ScriptInit /\ UIInit

Script == ScriptNext /\ UNCHANGED uiVars
UI     == UIStep /\ UNCHANGED scriptVars

Next == Script \/ UI

\* Both programs are scheduled; the commands that the script runs end.
Spec == Init /\ [][Next]_vars /\ WF_vars(Script) /\ WF_vars(UI)

----------------------------------------------------------------------------
TypeOK ==
  /\ pos \in 1..(Len(script) + 1)
  /\ phase \in {"running", "writing", "exited"}
  /\ part \in [DOMAIN part -> Content]
  /\ current \in -1..130 /\ next \in 0..130 /\ up \in BOOLEAN
  /\ upc \in {"top", "top_next", "draw", "wait", "final", "final_next", "exited"}
  /\ prev_node \in -1..130 /\ next_node \in 0..130
  /\ shown \in 0..100
  /\ fast \in 0..FAST_TICKS /\ slow \in 0..SLOW_TICKS
  /\ count \in 0..(SYNC_TIME - 1) /\ overflows \in 0..MaxOverflows
  /\ stale \in 0..(Period + 1)
  /\ logo_mode \in LogoModes /\ page \in pages \union {"none"}
  /\ drawn \in -1..100 /\ digits \in [Digit -> -1..9] /\ rebooted \in BOOLEAN

\* The success page is shown only when every partition of the package has
\* been written or deliberately skipped.
SuccessMeansInstalled ==
  page = "upgrade_success_page"
    => \A p \in DOMAIN part : part[p] \in {"new", "skipped"}

\* otaUI runs its reboot command only when ota.sh is not at work on a
\* partition: it never cuts off an installation.
RebootOnlyWhenIdle == rebooted => phase = "exited"

\* The display never runs ahead of the nodes that the script has announced.
NeverAhead == shown <= next \/ shown <= current

\* The display never goes back.
ProgressMonotone == [][shown' >= shown]_vars

\* A failure that the script reports ends in a reboot to the old system, also
\* when the configuration has no failure page.  Without a progress object otaUI
\* gives up at its first turn, and a later failure is not seen; nor is one
\* after count_tick_ms has overflowed.
FailureReboots ==
  ~ logo_mode /\ ui_refresh_page_progress_ok /\ current = -1
    ~> rebooted \/ overflows > 0

\* The comment on lv_upgrade_t.value, "sync with above param progress[]": what
\* lv_upgrade_get_value reads from the digits is the value that was set.
ValueInSync == drawn >= 0 => lv_upgrade_get_value = drawn

\* What lv_render_bar_mode_content draws.
Bar == upgrade_obj.type = "bar" /\ drawn >= 0
Picture == lv_get_closest_element_index(upgrade_obj.image_array, lv_upgrade_get_value)

\* The picture of the full bar is drawn only when every partition of the package
\* has been written or skipped, although it is the nearest one long before.
FullBarMeansInstalled ==
  Bar /\ Picture = Len(upgrade_obj.image_array)
    => \A p \in DOMAIN part : part[p] \in {"new", "skipped"}

OutOfOrder == -1 \in {upgrade_obj.image_array[k] : k \in DOMAIN upgrade_obj.image_array}

\* The number that a row of digits shows, the last digit first.
NumberOf(row) ==
  LET Place(i) == IF i <= Len(row) THEN row[i] * PlaceValue[i - 1] ELSE 0
  IN  Place(1) + Place(2) + Place(3)

\* In number mode the pictures that the widget takes for its digits, one after
\* the other, make up the number that otaUI set: the list that the parser
\* accepted has all of them.  The exception is a list out of order, which it
\* logs as an error and accepts.
NumberReadsRight ==
  upgrade_obj.type = "number" /\ ~ OutOfOrder /\ drawn >= 0
    => NumberOf(number_mode_pictures(upgrade_obj.image_array)) = drawn

\* Every upgrade ends: otaUI exits or the device restarts.  The exceptions are a
\* differential package whose patches ota.sh skips, because the last image is
\* already in /ota, so that it reports nothing after the first node, and one that
\* takes so long that count_tick_ms overflows.
UpgradeEnds ==
  <>(\/ upc = "exited" \/ ~ up
     \/ phase = "exited" /\ current = Start
     \/ overflows > 0)

\* Until count_tick_ms overflows, otaUI reads the properties again within the
\* turns whose UI_TICK_MS make up the period; the time a turn takes is up to LVGL.
\* Behind the overflow the remainder passes by 0, as 2^32 is no multiple of the
\* period, and the claim is false.
ReadsEveryPeriod == overflows = 0 => stale <= Period

\* The pictures of a bar end with that of 100.
EndsFull(obj) ==
  obj.type = "bar" =>
    LET keys == obj.image_array
    IN  keys \in Seq(Int) /\ keys # <<>> /\ keys[Len(keys)] >= 100
=============================================================================
