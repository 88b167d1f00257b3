---------------------------- MODULE MCOtaUpgrade ----------------------------
(* Instances of OtaUpgrade: the packages of the runs.                      *)
EXTENDS OtaUpgrade

Area == {"x", "y", "w", "h"}
Label(src) ==
  [object |-> TRUE, name |-> "label", area |-> Area, mode |-> "none",
   keys |-> <<>>, src |-> src]
Progress(mode, keys) ==
  [object |-> TRUE, name |-> "progress", area |-> Area, mode |-> mode,
   keys |-> keys, src |-> "absent"]
Image == Label("file")
Page(name, elements) == [name |-> name, elements |-> elements]
Numbers(n) == [k \in 1..n |-> k - 1]

\* The pages of ota_ui_config_sample.json, with a bar.
SamplePages(upgrading, failLabel) ==
  <<Page("logo_page", <<Image>>),
    Page("upgrading_page", upgrading),
    Page("upgrade_fail_page", <<failLabel, Image>>),
    Page("upgrade_success_page", <<Image>>)>>

BarElement == Progress("bar", <<0, 50, 100>>)
SampleFile == [json |-> TRUE, pages |-> SamplePages(<<BarElement, Image>>, Image)]
NumberFile ==
  [json |-> TRUE, pages |-> <<Page("upgrading_page", <<Progress("number", Numbers(10))>>)>>]

\* Labels and progress elements that do not parse: a missing image or none, an
\* incomplete area, no object, an unknown element; a list that is too short and
\* an unknown mode.
BadLabels ==
  {Label("missing"), Label("absent"), [Image EXCEPT !.area = Area \ {"h"}],
   [Image EXCEPT !.object = FALSE], [Image EXCEPT !.name = "other"]}
BadProgress ==
  {Progress("number", Numbers(9)), Progress("dial", <<>>)}

\* Files with one of them, with a label before the progress, and no JSON.
DefectiveFiles ==
  {[json |-> TRUE, pages |-> SamplePages(<<BarElement>>, l)] : l \in BadLabels}
  \union {[json |-> TRUE, pages |-> SamplePages(<<p>>, Image)] : p \in BadProgress}
  \union {[json |-> TRUE, pages |-> SamplePages(<<Image, BarElement>>, Image)],
          [json |-> FALSE, pages |-> <<>>]}

AnyFile == {SampleFile, NumberFile} \union DefectiveFiles
OneFile == {SampleFile}

Full(weights, verify, skip, end, endp) ==
  [full |-> TRUE, weights |-> weights, upgrade_verify |-> verify,
   skip_version_check |-> skip, user_begin_script |-> end,
   user_end_script |-> end,
   user_end_script_progress |-> endp]

Diff(weights, bins, news) ==
  [full |-> FALSE, weights |-> weights, bin_weights |-> bins,
   new_weights |-> news, skip_version_check |-> TRUE,
   user_begin_script |-> FALSE, user_end_script |-> FALSE,
   user_end_script_progress |-> 0]

\* Two partitions, one of them behind avb_verify -c, with a version check; and one
\* partition with user scripts and without the check.
FullPackages == {Full(<<1, 2>>, {2}, FALSE, FALSE, 0),
                 Full(<<2>>, {}, TRUE, TRUE, 5)}

\* Patches only, and a patch with a new partition.
PatchPackages  == {Diff(<<1, 1>>, <<4, 4>>, <<>>)}
NewPartPackage == {Diff(<<1>>, <<4>>, <<4>>)}

ShippedPackages == FullPackages \union PatchPackages

\* The bars of the configurations of the runs end with the picture of 100.
ASSUME ShippedPictures ==
  \A file \in AnyFile :
    EndsFull(ui_get_upgrade_obj(ui_find_page(ui_config_init(file), "upgrading_page")))
=============================================================================
