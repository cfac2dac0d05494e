---------------------------- MODULE DisplayMaps ----------------------------
(***************************************************************************)
(* display-maps.json: how the remaining percentage of a limit is labelled  *)
(* and which windows the status selector sums up                           *)
(* (thread/session/display_maps.rs).                                       *)
(*                                                                         *)
(* A percent map has a kind, the percentages its labels are given for (of  *)
(* a thresholds map, the lower bounds) and perhaps a fallback.             *)
(***************************************************************************)
EXTENDS Integers, Sequences

Percents == 0 .. 100
ClampPercent(value) == IF value < 0 THEN 0 ELSE IF value > 100 THEN 100 ELSE value

PercentMap(kind, labelled, fallback) == [kind |-> kind, labelled |-> labelled, fallback |-> fallback]

(* PercentDisplayMap::render finds a label or a fallback; with neither the *)
(* adapter panics.                                                         *)
Renders(map, value) ==
  \/ map.kind = "template" \/ map.fallback
  \/ map.kind = "exact" /\ value \in map.labelled
  \/ map.kind = "thresholds" /\ \E min \in map.labelled : value >= min

\* The entry of a thresholds map that renders the value.
ThresholdFor(map, value) ==
  CHOOSE min \in map.labelled : value >= min /\ \A other \in map.labelled : value >= other => min >= other

\* A configuration as its file spells it, valid or not.
IsConfig(config) ==
  config \in [maps : {config.maps}, primary : {config.primary}, secondary : {config.secondary},
             summary : {config.summary}, options : {config.options}]

ValidMap(map) ==
  \/ map.kind = "template" \/ map.fallback
  \/ map.kind = "exact" /\ Percents \subseteq map.labelled
  \/ map.kind = "thresholds" /\ 0 \in map.labelled

\* validate_limit_summary_options
ValidOptions(config) ==
  /\ config.options # << >>
  /\ \A i \in DOMAIN config.options :
       /\ config.options[i].summary # << >>
       /\ \A j \in DOMAIN config.options : config.options[i].id = config.options[j].id => i = j
  /\ \E i \in DOMAIN config.options : config.options[i].summary = config.summary

\* validate_display_maps_config
ValidMaps(config) ==
  /\ config.summary # << >>
  /\ ValidOptions(config)
  /\ {config.primary, config.secondary} \subseteq DOMAIN config.maps
  /\ \A id \in DOMAIN config.maps : ValidMap(config.maps[id])

DefaultMaps ==
  [maps |-> [id \in {"five_hour_percent", "weekly_percent"} |-> PercentMap("template", {}, FALSE)],
   primary |-> "five_hour_percent", secondary |-> "weekly_percent",
   summary |-> <<"primary", "secondary">>,
   options |-> << [id |-> "primary", summary |-> <<"primary">>],
                  [id |-> "primary_secondary", summary |-> <<"primary", "secondary">>] >>]

OptionIds(config) == {config.options[i].id : i \in DOMAIN config.options}

\* selected_limits_summary_option_id
SelectedOption(config) ==
  LET first == CHOOSE i \in DOMAIN config.options :
                 /\ config.options[i].summary = config.summary
                 /\ \A j \in 1 .. i - 1 : config.options[j].summary # config.summary
  IN config.options[first].id

\* set_limits_summary_by_option_id, for an option there is
SelectSummary(config, i) == [config EXCEPT !.summary = config.options[i].summary]

\* render_limits_summary finds a label for whatever remains of the windows.
RendersLimits(config, remaining) ==
  \A i \in DOMAIN config.summary :
    Renders(config.maps[IF config.summary[i] = "primary" THEN config.primary ELSE config.secondary],
            ClampPercent(remaining))
=============================================================================
