------------------------------ MODULE LvUpgrade -----------------------------
(***************************************************************************)
(* ui/extra/lv_upgrade.c: the value that the progress widget keeps, as a   *)
(* number and as digits, and the picture it draws for it.  Sizes, areas    *)
(* and animations are layout and are left out.                             *)
(***************************************************************************)
EXTENDS Integers, Sequences

VARIABLES
  drawn,    \* lv_upgrade_t.value, an int8_t
  digits    \* lv_upgrade_t.progress: the last digit first, -1 where there is none

LV_PROGRESS_DIGIT == 3
Digit == 0..(LV_PROGRESS_DIGIT - 1)

\* What a digit counts for.
PlaceValue == [d \in Digit |-> IF d = 0 THEN 1 ELSE IF d = 1 THEN 10 ELSE 100]

Int8(v) == ((v + 128) % 256) - 128

\* lv_upgrade_constructor
WidgetInit == drawn = -1 /\ digits = [d \in Digit |-> -1]

\* Mutant: the loop ends one digit early.
lv_upgrade_set_progress_short(v) ==
  /\ drawn' = Int8(v)
  /\ digits' = [d \in Digit |-> IF d = 0 \/ (d = 1 /\ v >= 10)
                                  THEN (v \div PlaceValue[d]) % 10 ELSE -1]

\* Nothing happens when v is the value already shown.
lv_upgrade_set_progress(v) ==
  IF drawn >= 0 /\ drawn = v THEN UNCHANGED <<drawn, digits>>
  ELSE /\ drawn' = Int8(v)
       /\ digits' = [d \in Digit |-> IF d = 0 \/ v >= PlaceValue[d]
                                       THEN (v \div PlaceValue[d]) % 10 ELSE -1]

\* The sum ends at the first digit that is not there.
lv_upgrade_get_value ==
  LET hundreds == IF digits[2] < 0 THEN 0 ELSE 100 * digits[2]
      tens     == IF digits[1] < 0 THEN 0 ELSE 10 * digits[1] + hundreds
  IN  IF digits[0] < 0 THEN 0 ELSE digits[0] + tens

\* The pictures that lv_render_number_mode_content and lv_calc_number_mode_size
\* take for the digits, from right to left, each by its key: they end at the
\* first digit beyond the list, and pass over one whose picture is missing.
number_mode_pictures(keys) ==
  LET Ends(d)    == digits[d] < 0 \/ digits[d] >= Len(keys)
      Picture(d) == IF keys[digits[d] + 1] >= 0 THEN <<keys[digits[d] + 1]>> ELSE <<>>
      Row(d, rest) == IF Ends(d) THEN <<>> ELSE Picture(d) \o rest
  IN  Row(0, Row(1, Row(2, <<>>)))

\* Mutant: the nearest picture, also when it is the full one.
lv_get_closest_element_index_plain(keys, v) ==
  LET diff(k) == IF keys[k] > v THEN keys[k] - v ELSE v - keys[k]
  IN  CHOOSE k \in DOMAIN keys : \A j \in DOMAIN keys :
        diff(k) < diff(j) \/ (diff(k) = diff(j) /\ k <= j)

\* The picture of a bar: the first of those with the nearest key, but the last
\* one only for exactly its key.
lv_get_closest_element_index(keys, v) ==
  LET diff(k) == IF keys[k] > v THEN keys[k] - v ELSE v - keys[k]
      nearest == CHOOSE k \in DOMAIN keys : \A j \in DOMAIN keys :
                   diff(k) < diff(j) \/ (diff(k) = diff(j) /\ k <= j)
  IN  IF diff(nearest) # 0 /\ nearest = Len(keys) THEN nearest - 1 ELSE nearest
=============================================================================
