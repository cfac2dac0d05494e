---------------------------- MODULE Preferences ----------------------------
(***************************************************************************)
(* The model, reasoning effort and service tier of a session, and the      *)
(* defaults and lists kept for later ones in selector-preferences.json     *)
(* (thread/session/selector_preferences.rs and materialize.rs,             *)
(* config/reasoning.rs, config/model_selector.rs, settings.rs).            *)
(*                                                                         *)
(* An optional value is a sequence of at most one element, and a key of    *)
(* the file that may be absent or null is an optional value that may be    *)
(* "null".  Lists are sets: their order is that of a menu.                 *)
(***************************************************************************)
EXTENDS OpenSessions, Integers, Sequences, FiniteSets

CONSTANTS
  Catalogue,      \* the answer of model/list: id, slug, hidden, efforts, default
  Lower,          \* a name in lower case, for names of models and what users type for them
  Efforts,        \* reasoning efforts
  BuiltIn,        \* the efforts listed when no model advertises any
  DefaultEffort   \* ReasoningEffort::default

\* No two models share a name.
ASSUME CatalogueAssumption ==
  \A m \in Catalogue, n \in Catalogue :
    {Lower[m.id], Lower[m.slug]} \cap {Lower[n.id], Lower[n.slug]} # {} => m = n

\* "null" is no effort: an optional one may be "null".
ASSUME EffortsAssumption == "null" \notin Efforts

VARIABLES
  models,   \* the models an open session knows
  choice,   \* its model, effort and tier, and the defaults it would save
  lists,    \* the models and efforts configured when it started
  layout,   \* the groups of the model selector it shows, {} for all
  file,     \* selector-preferences.json
  saving    \* the contents a session is about to write there, if any

choiceVars == <<models, choice, lists, layout, file, saving>>

OrElse(option, default) == IF option = << >> THEN default ELSE option[1]

NoLists == [models |-> {}, efforts |-> {}]
Groups == {"models", "effort", "speed"}
NoDefaults == [model |-> "null", effort |-> "null", tier |-> "null"]
NoChoice == [model |-> "null", effort |-> "null", tier |-> "null", defaults |-> NoDefaults]

\* The file: what its sections hold, and whether it is there and parses.
Contents(model, effort, tier, configured, groups) ==
  [state |-> "valid", model |-> model, effort |-> effort, tier |-> tier,
   lists |-> configured, layout |-> groups]
NoFile == [Contents(<< >>, << >>, << >>, << >>, << >>) EXCEPT !.state = "absent"]
InvalidFile == [NoFile EXCEPT !.state = "invalid"]

-----------------------------------------------------------------------------
(* Models and efforts.                                                     *)

\* find_model_for_current: none or one
Find(known, name) == {m \in known : name \in {m.id, m.slug}}

SameName(a, b) == Lower[a] = Lower[b]

\* ordered_models
Listed(configured, known) ==
  IF configured.models = {} THEN {m \in known : ~m.hidden}
  ELSE {m \in known : \E name \in configured.models : SameName(name, m.id) \/ SameName(name, m.slug)}

\* normalize_reasoning_effort_for_model
NormalEffort(known, model, effort) ==
  IF \E m \in Find(known, model) : effort \notin m.efforts
  THEN (CHOOSE m \in Find(known, model) : TRUE).default
  ELSE effort

\* normalize_reasoning_effort_for_preferences
PreferredEffort(known, model, configured, effort) ==
  IF effort \in configured.efforts THEN effort ELSE NormalEffort(known, model, effort)

\* resolve_reasoning_effort
ResolvedEffort(known, model, given) ==
  OrElse(given, NormalEffort(known, model, DefaultEffort))

\* The check of set_reasoning_effort.
Accepts(s, effort) ==
  effort \in lists[s].efforts \/ \A m \in Find(models[s], choice[s].model) : effort \in m.efforts

-----------------------------------------------------------------------------
(* The file.                                                               *)

\* advertised_reasoning_efforts
Advertised(known) ==
  LET all == UNION {m.efforts : m \in known} IN IF all = {} THEN BuiltIn ELSE all

\* materialized_model_selector
MaterializedLists(configured, known) ==
  [models |-> IF configured.models # {} THEN configured.models
              ELSE {m.id : m \in Listed(configured, known)},
   efforts |-> IF configured.efforts # {} THEN configured.efforts
               ELSE Advertised(Listed(configured, known))]

\* materialized_selector_layout, of the model selector
MaterializedLayout(groups) == IF groups = {} THEN Groups ELSE groups

Mut_KeepsFileDefaults(s) ==
  saving' = [saving EXCEPT ![s] =
    IF file.state = "invalid" THEN << >>
    ELSE <<Contents(<<OrElse(file.model, choice'[s].defaults.model)>>,
                    <<OrElse(file.effort, choice'[s].defaults.effort)>>,
                    <<OrElse(file.tier, choice'[s].defaults.tier)>>,
                    <<MaterializedLists(OrElse(file.lists, lists'[s]), models'[s])>>,
                    <<MaterializedLayout(OrElse(file.layout, layout'[s]))>>)>>]

\* persist_selector_preferences: nothing is written over a file that does not parse.
Saves(s) ==
  saving' = [saving EXCEPT ![s] =
    IF file.state = "invalid" THEN << >>
    ELSE <<Contents(<<choice'[s].defaults.model>>, <<choice'[s].defaults.effort>>,
                    <<choice'[s].defaults.tier>>,
                    <<MaterializedLists(OrElse(file.lists, lists'[s]), models'[s])>>,
                    <<MaterializedLayout(OrElse(file.layout, layout'[s]))>>)>>]

\* write_selector_preferences, which may fail
FileWritten(s, done) ==
  /\ saving[s] # << >>
  /\ file' = IF done THEN saving[s][1] ELSE file
  /\ saving' = [saving EXCEPT ![s] = << >>]
  /\ UNCHANGED <<models, choice, lists, layout>>

\* The user edits the file.
FileEdited(contents) ==
  file' = contents /\ UNCHANGED <<models, choice, lists, layout, saving>>

-----------------------------------------------------------------------------
(* A session.                                                              *)
ChoicesInit ==
  /\ models = [s \in Sessions |-> {}]
  /\ choice = [s \in Sessions |-> NoChoice]
  /\ lists = [s \in Sessions |-> NoLists]
  /\ layout = [s \in Sessions |-> {}]
  /\ file = NoFile
  /\ saving = [s \in Sessions |-> << >>]

\* A default of the file, as apply_selector_preferences takes it over.
Default(key) == OrElse(key, "null")

(* build_thread_from_bootstrap and apply_selector_preferences, with the    *)
(* model, effort and tier the server gave the thread.  A session does not  *)
(* start from a file that does not parse, and writes one if there is none. *)
ChoicesStart(s, known, given) ==
  LET configured == OrElse(file.lists, NoLists)
      model == IF file.model # << >> /\ Find(known, Default(file.model)) # {}
               THEN Default(file.model) ELSE given.model
      effort == IF Default(file.effort) # "null"
                THEN PreferredEffort(known, model, configured, Default(file.effort))
                ELSE ResolvedEffort(known, given.model, given.effort)
  IN /\ file.state # "invalid"
     /\ models' = [models EXCEPT ![s] = known]
     /\ lists' = [lists EXCEPT ![s] = configured]
     /\ layout' = [layout EXCEPT ![s] = OrElse(file.layout, {})]
     /\ choice' = [choice EXCEPT ![s] =
          [model |-> model, effort |-> effort, tier |-> OrElse(file.tier, given.tier),
           defaults |-> [model |-> Default(file.model), effort |-> Default(file.effort),
                         tier |-> Default(file.tier)]]]
     /\ IF file.state = "absent" THEN Saves(s) ELSE saving' = [saving EXCEPT ![s] = << >>]
     /\ UNCHANGED file

ChoicesEnd(s) ==
  /\ models' = [models EXCEPT ![s] = {}] /\ choice' = [choice EXCEPT ![s] = NoChoice]
  /\ lists' = [lists EXCEPT ![s] = NoLists] /\ layout' = [layout EXCEPT ![s] = {}]
  /\ saving' = [saving EXCEPT ![s] = << >>]
  /\ UNCHANGED file

\* load asks for the models again if there are none.
ModelsLoaded(s) ==
  /\ models[s] = {} /\ models' = [models EXCEPT ![s] = Catalogue]
  /\ UNCHANGED <<choice, lists, layout, file, saving>>

\* apply_thread_switch: the preferences play no part.
ChoicesSwitch(s, given) ==
  /\ choice' = [choice EXCEPT ![s].model = given.model, ![s].tier = given.tier,
                              ![s].effort = ResolvedEffort(models[s], given.model, given.effort)]
  /\ UNCHANGED <<models, lists, layout, file, saving>>

Mut_KeepsEffort(s, model) ==
  /\ choice' = [choice EXCEPT ![s].model = model, ![s].defaults.model = model]
  /\ UNCHANGED <<models, lists, layout>>
  /\ Saves(s) /\ UNCHANGED file

SetModel(s, model) ==
  /\ choice' = [choice EXCEPT ![s].model = model, ![s].defaults.model = model,
                              ![s].effort = PreferredEffort(models[s], model, lists[s], @)]
  /\ UNCHANGED <<models, lists, layout>>
  /\ Saves(s) /\ UNCHANGED file

SetEffort(s, effort) ==
  /\ Accepts(s, effort)
  /\ choice' = [choice EXCEPT ![s].effort = effort, ![s].defaults.effort = effort]
  /\ UNCHANGED <<models, lists, layout>>
  /\ Saves(s) /\ UNCHANGED file

SetTier(s, tier) ==
  /\ choice' = [choice EXCEPT ![s].tier = tier, ![s].defaults.tier = tier]
  /\ UNCHANGED <<models, lists, layout>>
  /\ Saves(s) /\ UNCHANGED file

-----------------------------------------------------------------------------
(* What the model selector offers (config_options, model_option_groups).   *)
CurrentId(s) ==
  IF Find(models[s], choice[s].model) = {} THEN choice[s].model
  ELSE (CHOOSE m \in Find(models[s], choice[s].model) : TRUE).id

\* hides_model looks for the id of a model, also where ordered_models took it by its slug.
ModelOptions(s) ==
  {CurrentId(s)} \cup
  {id \in {m.id : m \in Listed(lists[s], models[s])} :
     lists[s].models # {} => \E name \in lists[s].models : SameName(name, id)}

\* reasoning_effort_option_groups and hides_reasoning_effort
EffortOptions(s) ==
  {choice[s].effort} \cup
  UNION {IF lists[s].efforts = {} THEN m.efforts ELSE lists[s].efforts :
           m \in Find(models[s], choice[s].model)}

\* fast_mode_options, with "null" for the standard tier
TierOptions(s) == {"null", "fast", "flex", choice[s].tier}

\* apply_group_layout: a layout that names no group there is counts for nothing.
ShownGroups(s) == IF layout[s] \cap Groups = {} THEN Groups ELSE layout[s] \cap Groups

Options(s, group) ==
  CASE group \notin ShownGroups(s) -> {}
    [] group = "models" -> ModelOptions(s)
    [] group = "effort" -> EffortOptions(s)
    [] OTHER -> TierOptions(s)
=============================================================================
