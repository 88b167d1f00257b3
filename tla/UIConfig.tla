------------------------------ MODULE UIConfig ------------------------------
(***************************************************************************)
(* ui/ui_config_parse.c: the pages that otaUI builds from its JSON file.   *)
(* A file is a record: json tells whether cJSON_Parse accepts it, pages is *)
(* the sequence of its members other than bg_color.  A page has a name and *)
(* the sequence of its elements; an element is the record of what the      *)
(* parser looks at:                                                        *)
(*   object     it is a JSON object                                        *)
(*   name       what its name begins with: "progress", "label" or "other"  *)
(*   area       the members of its area that are numbers                   *)
(*   mode       the progress mode                                          *)
(*   keys       the keys of img_src_list, in the order of the file         *)
(*   src        img_src: "absent" (or no string), "missing" when the file  *)
(*              cannot be opened, or "file"                                *)
(* Optional attributes (align, offset, colours) change only the layout.    *)
(***************************************************************************)
EXTENDS Integers, Sequences

PROGRESS_MODES == {"number", "bar", "circle", "animation", "custom_anim"}

json_area_parse(e) == {"x", "y", "w", "h"} \subseteq e.area

\* Of align, area and offset only the area is mandatory.
json_ui_obj_parse(e) == json_area_parse(e)

\* NULL when the file cannot be opened; what is read from it is not looked at.
read_all_from_file(src) == src = "file"
json_ui_image_set(e) == read_all_from_file(e.src)

\* Mutant: a list of nine images is enough in number mode.
json_progress_parse_nine(e) ==
  /\ json_ui_obj_parse(e)
  /\ e.mode \in PROGRESS_MODES
  /\ e.mode = "number" => Len(e.keys) >= 9

\* The result is UI_SUCCESS.
json_progress_parse(e) ==
  /\ json_ui_obj_parse(e)
  /\ e.mode \in PROGRESS_MODES
  /\ e.mode = "number" => Len(e.keys) >= 10

json_label_parse(e) ==
  json_ui_obj_parse(e) /\ e.src # "absent" /\ json_ui_image_set(e)

json_ui_page_cont_parse(e) ==
  /\ e.object
  /\ \/ e.name = "progress" /\ json_progress_parse(e)
     \/ e.name = "label" /\ json_label_parse(e)

json_ui_page_parse(p) ==
  \A k \in DOMAIN p.elements : json_ui_page_cont_parse(p.elements[k])

\* The pages on the screen.  The first page that fails removes all of them with
\* lv_obj_clean and ends the loop, and the result is UI_SUCCESS all the same.
ui_page_config_init(root) ==
  IF \A k \in DOMAIN root : json_ui_page_parse(root[k]) THEN root ELSE <<>>

\* The pages after ui_config_init, which fails only when the file is not JSON.
ui_config_init(file) == IF file.json THEN ui_page_config_init(file.pages) ELSE <<>>

PageNames(pages) == {pages[k].name : k \in DOMAIN pages}

\* The elements of the first page of that name, as lv_obj_get_child orders them.
ui_find_page(pages, name) ==
  IF name \notin PageNames(pages) THEN <<>>
  ELSE pages[CHOOSE k \in DOMAIN pages :
               /\ pages[k].name = name
               /\ \A j \in 1..(k - 1) : pages[j].name # name].elements

\* The keys of lv_upgrade_t.image_array, -1 where there is no image.  In number
\* mode the key is the index, and the first image out of order ends the loop.
image_array(e) ==
  [k \in DOMAIN e.keys |->
     IF e.mode = "number" /\ \E j \in 1..k : e.keys[j] # j - 1 THEN -1 ELSE e.keys[k]]

\* The widget that ui_refresh_page_progress finds: it looks only at the first
\* element of the page.
NoWidget == [type |-> "none", image_array |-> <<>>]
ui_get_upgrade_obj(elements) ==
  IF elements = <<>> \/ elements[1].name # "progress" THEN NoWidget
  ELSE [type |-> elements[1].mode, image_array |-> image_array(elements[1])]
=============================================================================
