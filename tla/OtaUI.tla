------------------------------- MODULE OtaUI --------------------------------
(***************************************************************************)
(* ui/ui_ota.c and the page handling of ui/ui_display.c: the otaUI program *)
(* that follows the ota.progress.* properties, moves the progress display  *)
(* between the script's nodes, and ends with a success or a failure page.  *)
(***************************************************************************)
EXTENDS Integers, OtaProps, UIConfig, LvUpgrade

CONSTANTS
  FAST_TICKS,    \* 2: turns between steps towards a node that was reached
  SLOW_TICKS,    \* 100: turns between steps towards the next node
  UI_TICK_MS,    \* 10000, what a turn adds to count_tick_ms
  SYNC_TIME,     \* CONFIG_OTA_UI_PROG_SYNC_TIME, 40000 by default
  WRAP,          \* 2^32 % SYNC_TIME, 7296 by default: what an overflow takes
                 \* from the place of the counter in the period
  MaxOverflows,  \* bound on the overflows of count_tick_ms
  StartValues,   \* option -p
  LogoModes,     \* option -l given or not
  ConfigFiles    \* the configuration files it may be started with

ASSUME UIAssumption ==
  /\ {FAST_TICKS, SLOW_TICKS} \subseteq Nat
  /\ {UI_TICK_MS, SYNC_TIME} \subseteq Nat \ {0}
  /\ WRAP \in 0..(SYNC_TIME - 1)
  /\ MaxOverflows \in Nat
  /\ StartValues \subseteq 0..99
  /\ LogoModes \subseteq BOOLEAN

VARIABLES
  logo_mode,           \* how otaUI was called
  pages, upgrade_obj,  \* the pages it has, and the widget of the upgrading page
  upc,                 \* where main is
  prev_node, next_node, shown,   \* progress.prev_node, .next_node, .current
  fast, slow,          \* fast_tick_count, slow_tick_count
  count,               \* count_tick_ms % sync_progress_time
  overflows,           \* history: how often count_tick_ms went past 2^32
  stale,               \* history: turns since the properties were last read
  page,                \* the visible page
  rebooted             \* history: otaUI ran reboot_cmd

uiVars == <<logo_mode, pages, upgrade_obj, upc, prev_node, next_node, shown, fast, slow, count, overflows, stale, page, drawn, digits, rebooted>>

\* Turns of the loop between two readings; the history variable stale is
\* capped just above it.
Period == SYNC_TIME \div UI_TICK_MS

UIInit ==
  /\ logo_mode \in LogoModes
  /\ \E file \in ConfigFiles :
       /\ pages = PageNames(ui_config_init(file))
       /\ upgrade_obj = ui_get_upgrade_obj(ui_find_page(ui_config_init(file), "upgrading_page"))
       /\ upc = IF file.json THEN "top" ELSE "exited"
  /\ WidgetInit
  /\ prev_node = 0 /\ next_node = 0 /\ shown \in StartValues
  /\ fast = 0 /\ slow = 0 /\ count = 0 /\ overflows = 0 /\ stale = 0
  /\ page = "none" /\ rebooted = FALSE

----------------------------------------------------------------------------
\* Mutant: the counters are not reset after a step.
ota_calc_progress_no_reset ==
  LET behind  == shown < prev_node
      fastHit == behind /\ fast >= FAST_TICKS
      crawl   == ~ fastHit /\ shown < next_node
      value   == shown + (IF fastHit \/ (crawl /\ slow >= SLOW_TICKS) THEN 1 ELSE 0)
  IN  /\ shown' = IF value >= 100 /\ prev_node < 100 THEN 99 ELSE value
      /\ fast' = fast + (IF behind THEN 1 ELSE 0)
      /\ slow' = slow + (IF crawl THEN 1 ELSE 0)

\* Mutant: the display is held back at the last node instead of below 100.
ota_calc_progress_hold ==
  LET behind  == shown < prev_node
      fastHit == behind /\ fast >= FAST_TICKS
      crawl   == ~ fastHit /\ shown < next_node
      step    == fastHit \/ (crawl /\ slow >= SLOW_TICKS)
      value   == shown + (IF step THEN 1 ELSE 0)
  IN  /\ shown' = IF value >= next_node THEN prev_node ELSE value
      /\ fast' = IF step THEN 0 ELSE fast + (IF behind THEN 1 ELSE 0)
      /\ slow' = IF step THEN 0 ELSE slow + (IF crawl THEN 1 ELSE 0)

\* Mutant: the display is not held below 100.
ota_calc_progress_free ==
  LET behind  == shown < prev_node
      fastHit == behind /\ fast >= FAST_TICKS
      crawl   == ~ fastHit /\ shown < next_node
      step    == fastHit \/ (crawl /\ slow >= SLOW_TICKS)
  IN  /\ shown' = shown + (IF step THEN 1 ELSE 0)
      /\ fast' = IF step THEN 0 ELSE fast + (IF behind THEN 1 ELSE 0)
      /\ slow' = IF step THEN 0 ELSE slow + (IF crawl THEN 1 ELSE 0)

\* Mutant: the slow crawl does not stop at the next node.
ota_calc_progress_crawl ==
  LET behind  == shown < prev_node
      fastHit == behind /\ fast >= FAST_TICKS
      crawl   == ~ fastHit /\ shown < 100
      step    == fastHit \/ (crawl /\ slow >= SLOW_TICKS)
      value   == shown + (IF step THEN 1 ELSE 0)
  IN  /\ shown' = IF value >= 100 /\ prev_node < 100 THEN 99 ELSE value
      /\ fast' = IF step THEN 0 ELSE fast + (IF behind THEN 1 ELSE 0)
      /\ slow' = IF step THEN 0 ELSE slow + (IF crawl THEN 1 ELSE 0)

\* Catch up quickly with the last node, then crawl towards the next one, and
\* stay below 100 until the script has reported 100.
ota_calc_progress ==
  LET behind  == shown < prev_node
      fastHit == behind /\ fast >= FAST_TICKS
      crawl   == ~ fastHit /\ shown < next_node
      step    == fastHit \/ (crawl /\ slow >= SLOW_TICKS)
      value   == shown + (IF step THEN 1 ELSE 0)
  IN  /\ shown' = IF value >= 100 /\ prev_node < 100 THEN 99 ELSE value
      /\ fast' = IF step THEN 0 ELSE fast + (IF behind THEN 1 ELSE 0)
      /\ slow' = IF step THEN 0 ELSE slow + (IF crawl THEN 1 ELSE 0)

ui_page_exist(name) == name \in pages

\* ui_page_show(name) succeeds when the page exists, and then it is the only
\* visible one.
ui_page_show(name) == page' = IF ui_page_exist(name) THEN name ELSE page

ui_refresh_page_progress_ok == upgrade_obj # NoWidget

\* ui_set_progress(upgrading_page_name, v), which fails without such an object.
ui_set_progress(v) ==
  IF ui_refresh_page_progress_ok THEN lv_upgrade_set_progress(v)
                                 ELSE UNCHANGED <<drawn, digits>>

\* ota_sync_upgrade_progress reads the two properties one after the other.
SyncCurrent(from, to) ==
  /\ up /\ upc = from
  /\ prev_node' = current /\ upc' = to
  /\ stale' = 0
  /\ UNCHANGED <<next_node, shown, fast, slow, count, overflows, page, drawn, digits, rebooted>>

SyncDue == count = 0

Sync ==
  \/ SyncDue /\ SyncCurrent("top", "top_next") /\ UNCHANGED up
  \/ /\ up /\ upc = "top_next"
     /\ next_node' = next /\ upc' = "draw"
     /\ UNCHANGED <<prev_node, shown, fast, slow, count, overflows, stale, page, drawn, digits, rebooted, up>>

NoSync ==
  /\ up /\ upc = "top" /\ ~ SyncDue
  /\ upc' = "draw"
  /\ UNCHANGED <<prev_node, next_node, shown, fast, slow, count, overflows, stale, page,
                 drawn, digits, rebooted, up>>

\* Mutant: a turn counts for the 10 that the comment on UI_TICK_MS says.
CountTurn_ms ==
  /\ count' = (count + UI_TICK_MS \div 1000) % SYNC_TIME
  /\ overflows' = overflows

\* count_tick_ms += UI_TICK_MS.  The counter is signed but is compared as an
\* unsigned number, so the remainder changes course at 2^32 and not at 2^31.
\* The turns before that are not counted: an overflow may come at any turn.
CountTurn ==
  \/ count' = (count + UI_TICK_MS) % SYNC_TIME /\ overflows' = overflows
  \/ /\ overflows < MaxOverflows
     /\ overflows' = overflows + 1
     /\ count' = (count + UI_TICK_MS + SYNC_TIME - WRAP) % SYNC_TIME

\* The loop goes on, sleeps and breaks, or breaks at once when ret is an error.
LoopEnd(ok) ==
  /\ upc' = IF ~ ok THEN "final"
            ELSE IF logo_mode \/ prev_node < 0 \/ shown' >= 100 THEN "wait"
            ELSE "top"
  /\ IF ok THEN CountTurn ELSE UNCHANGED <<count, overflows>>
  /\ stale' = IF stale <= Period THEN stale + 1 ELSE stale
  /\ UNCHANGED <<prev_node, next_node, rebooted, up>>

DrawLogo ==
  /\ up /\ upc = "draw" /\ logo_mode
  /\ ui_page_show("logo_page")
  /\ UNCHANGED <<shown, fast, slow, drawn, digits>>
  /\ LoopEnd(ui_page_exist("logo_page"))

DrawFail ==
  /\ up /\ upc = "draw" /\ ~ logo_mode /\ prev_node < 0
  /\ ui_page_show("upgrade_fail_page")
  /\ UNCHANGED <<shown, fast, slow, drawn, digits>>
  /\ LoopEnd(ui_page_exist("upgrade_fail_page"))

DrawProgress ==
  /\ up /\ upc = "draw" /\ ~ logo_mode /\ prev_node >= 0
  /\ ota_calc_progress
  /\ ui_set_progress(shown')
  /\ LET success == ui_page_exist("upgrade_success_page") /\ shown' >= 100
     IN  /\ ui_page_show(IF success THEN "upgrade_success_page" ELSE "upgrading_page")
         /\ LoopEnd(success \/ ui_refresh_page_progress_ok)

\* sleep(cmd_wait_time)
Wait ==
  /\ up /\ upc = "wait"
  /\ upc' = "final"
  /\ UNCHANGED <<prev_node, next_node, shown, fast, slow, count, overflows, stale, page,
                 drawn, digits, rebooted, up>>

\* Mutant: reboot_cmd runs whatever the script reports.
end_condition_any == TRUE

\* Mutant: a failure does not run reboot_cmd.
end_condition_over == prev_node > 100

end_condition == prev_node < 0 \/ prev_node > 100

\* The synchronisation after the loop, and system(reboot_cmd).
Finish ==
  \/ SyncCurrent("final", "final_next") /\ UNCHANGED up
  \/ /\ up /\ upc = "final_next"
     /\ next_node' = next /\ upc' = "exited"
     /\ rebooted' = end_condition
     /\ up' = ~ end_condition
     /\ UNCHANGED <<prev_node, shown, fast, slow, count, overflows, stale, page, drawn, digits>>

UINext == Sync \/ NoSync \/ DrawLogo \/ DrawFail \/ DrawProgress \/ Wait \/ Finish

UIStep == UINext /\ UNCHANGED <<current, next, logo_mode, pages, upgrade_obj>>
=============================================================================
