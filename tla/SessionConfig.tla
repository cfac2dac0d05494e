--------------------------- MODULE SessionConfig ---------------------------
(***************************************************************************)
(* What sessions keep of the account, of their context and of the user's   *)
(* choices, in memory and in the files of the adapter's home directory     *)
(* (thread/session/lifecycle.rs, settings.rs, view.rs, controls.rs).       *)
(*                                                                         *)
(* Sessions start, switch threads and end at any time; a session that      *)
(* reads a file to change it writes it in a later step.                    *)
(***************************************************************************)
EXTENDS RateLimits, UsageCache, Preferences, DisplayMaps

CONSTANTS
  Scenes,       \* what one behaviour is about, its bounds, and what the server gives a thread
  ModelNames,   \* what a client may set as the model
  Tiers,        \* and as the tier
  Edits,        \* selector-preferences.json as the user leaves it
  MapEdits      \* display-maps.json as the user leaves it

ASSUME MapEditsAssumption == \A config \in MapEdits : IsConfig(config)

VARIABLES
  scene,
  maps,      \* display_maps of a session
  mapsFile,  \* display-maps.json: at most one configuration, valid or not
  starts,    \* how many sessions have started
  picks,     \* how many choices were made, and edits of their file
  checked,   \* history: the effort of a session was fitted to a model it knew when it was set
  apart,     \* history: sessions never overlapped, and the file was theirs alone
  chosen     \* history: what was chosen last, of each kind

mapVars == <<maps, mapsFile>>
historyVars == <<scene, starts, picks, checked, apart, chosen>>
vars == <<open, limitVars, usageVars, choiceVars, mapVars, historyVars>>

About(s) == scene.about = s

\* The models a session may know when it starts, which only choices depend on.
Known == IF ~About("choices") THEN {{}} ELSE IF scene.late THEN {{}, Catalogue} ELSE {Catalogue}

Init ==
  /\ scene \in Scenes
  /\ open = {} /\ starts = 0 /\ picks = 0
  /\ LimitsInit /\ UsageInit /\ ChoicesInit
  /\ maps = [s \in Sessions |-> DefaultMaps] /\ mapsFile = << >>
  /\ checked = {} /\ apart = TRUE
  /\ chosen = [model |-> << >>, effort |-> << >>, tier |-> << >>]

\* The model a session uses from now on is one it knows.
KnowsModel(s) == Find(models'[s], choice'[s].model) # {}
ChecksEffort(s, fits) == checked' = IF fits /\ KnowsModel(s) THEN checked \cup {s} ELSE checked \ {s}

Quiet == notice' = NoNotice /\ UNCHANGED <<index, reading, seen>>

\* The lock of a session is held while it writes a file.
Unlocked(s) == s \in open /\ caching[s] = << >> /\ saving[s] = << >>

-----------------------------------------------------------------------------
(* Sessions.                                                               *)

(* build_started_thread and build_resumed_thread, and a fork or a fresh    *)
(* thread for a known session: the models may be unknown, and neither file *)
(* may be there and not parse.                                             *)
Start(s, t, resumed, known, given) ==
  /\ s \notin open /\ starts < scene.starts /\ Cardinality(open) < scene.sessions
  /\ resumed => turns[t] # << >>
  /\ mapsFile # << >> => ValidMaps(mapsFile[1])
  /\ open' = open \cup {s} /\ starts' = starts + 1
  /\ LimitsForgotten(s)
  /\ UsageStarts(s, t, resumed)
  /\ ChoicesStart(s, known, given)
  /\ maps' = [maps EXCEPT ![s] = OrElse(mapsFile, DefaultMaps)]
  /\ mapsFile' = <<OrElse(mapsFile, DefaultMaps)>>
  /\ ChecksEffort(s, \/ Default(file.effort) # "null"
                     \/ given.effort = << >> /\ choice'[s].model = given.model)
  /\ apart' = (apart /\ open = {})
  /\ UNCHANGED <<scene, picks, chosen>>

\* The session is closed, or its process ends, whatever it was doing.
End(s) ==
  /\ s \in open /\ open' = open \ {s}
  /\ LimitsForgotten(s) /\ UsageEnds(s) /\ ChoicesEnd(s)
  /\ maps' = [maps EXCEPT ![s] = DefaultMaps] /\ UNCHANGED mapsFile
  /\ checked' = checked \ {s}
  /\ apart' = (apart /\ saving[s] = << >>)
  /\ UNCHANGED <<scene, starts, picks, chosen>>

(* apply_thread_switch, with what was read of the limits unless that       *)
(* failed.                                                                 *)
Switch(s, t, given) ==
  /\ Unlocked(s)
  /\ AppliesObserved(s, "switch") \/ Quiet
  /\ UsageSwitches(s, t) /\ ChoicesSwitch(s, given)
  /\ ChecksEffort(s, given.effort = << >>)
  /\ UNCHANGED <<open, mapVars, scene, starts, picks, apart, chosen>>

-----------------------------------------------------------------------------
(* Limits.                                                                 *)
OnlyLimits == UNCHANGED <<open, usageVars, choiceVars, mapVars, historyVars>>

UpdateLimits(s, snap) ==
  About("limits") /\ Unlocked(s) /\ LimitsUpdated(s, snap) /\ UNCHANGED reading /\ OnlyLimits

\* A failed read is one without windows: neither changes anything.
ReadLimits(s, why, snap) ==
  About("limits") /\ s \in open /\ ReadsLimits(s, why, snap) /\ OnlyLimits

ApplyStartup(s) ==
  Unlocked(s) /\ "startup" \in DOMAIN reading[s] /\ AppliesObserved(s, "startup") /\ OnlyLimits

ApplyAfterTurn(s) == Unlocked(s) /\ AppliesAfterTurn(s) /\ OnlyLimits

-----------------------------------------------------------------------------
(* Usage of the context.                                                   *)
OnlyUsage == Quiet /\ UNCHANGED <<open, choiceVars, mapVars, historyVars>>

ServerSteps(t) ==
  /\ About("usage")
  /\ \/ TurnRuns(t) \/ RolledBack(t)
     \/ turns[t] # << >> /\ \E tokens \in Counts[t][Last(t)] : TurnCounts(t, tokens)
  /\ OnlyUsage

ReportTokens(s, n, tokens, size, readable) ==
  Unlocked(s) /\ TokensReported(s, n, tokens, size, readable) /\ OnlyUsage

WriteCache(s, done) == CacheWritten(s, done) /\ OnlyUsage

Compact(s) == About("usage") /\ Unlocked(s) /\ UsageCompacted(s) /\ OnlyUsage

-----------------------------------------------------------------------------
(* Choices.                                                                *)
Pick(s, kind, value) ==
  /\ Unlocked(s) /\ picks < scene.picks /\ picks' = picks + 1
  /\ chosen' = [chosen EXCEPT ![kind] = <<value>>]
  /\ IF kind = "tier" THEN UNCHANGED checked ELSE ChecksEffort(s, TRUE)
  /\ apart' = (apart /\ file.state # "invalid")
  /\ Quiet /\ UNCHANGED <<open, mapVars, scene, starts>>

PickModel(s, model) == SetModel(s, model) /\ Pick(s, "model", model) /\ UsageForgotten(s)
PickEffort(s, effort) == SetEffort(s, effort) /\ Pick(s, "effort", effort) /\ UNCHANGED usageVars
PickTier(s, tier) == SetTier(s, tier) /\ Pick(s, "tier", tier) /\ UNCHANGED usageVars

WriteFile(s, done) ==
  /\ FileWritten(s, done)
  /\ apart' = (apart /\ done)
  /\ Quiet /\ UNCHANGED <<open, usageVars, mapVars, scene, starts, picks, checked, chosen>>

EditFile(contents) ==
  /\ scene.edits /\ picks < scene.picks /\ picks' = picks + 1
  /\ FileEdited(contents) /\ apart' = FALSE
  /\ Quiet /\ UNCHANGED <<open, usageVars, mapVars, scene, starts, checked, chosen>>

LoadModels(s) ==
  /\ About("choices") /\ Unlocked(s) /\ ModelsLoaded(s)
  /\ Quiet /\ UNCHANGED <<open, usageVars, mapVars, historyVars>>

(* set_status_control writes all of the session's maps, without a look at  *)
(* the file.                                                               *)
PickSummary(s, i) ==
  /\ About("maps") /\ Unlocked(s) /\ i \in DOMAIN maps[s].options
  /\ maps' = [maps EXCEPT ![s] = SelectSummary(@, i)]
  /\ mapsFile' = <<maps'[s]>>
  /\ Quiet /\ UNCHANGED <<open, usageVars, choiceVars, historyVars>>

EditMaps(config) ==
  /\ About("maps") /\ mapsFile' = <<config>>
  /\ Quiet /\ UNCHANGED <<open, usageVars, choiceVars, maps, historyVars>>

-----------------------------------------------------------------------------
SessionSteps(s) ==
  \/ \E t \in Threads, resumed \in BOOLEAN, known \in Known, given \in scene.given :
       Start(s, t, resumed, known, given)
  \/ \E t \in Threads, given \in scene.given : Switch(s, t, given)
  \/ End(s) \/ ApplyStartup(s) \/ ApplyAfterTurn(s) \/ Compact(s) \/ LoadModels(s)
  \/ \E snap \in Snapshots : UpdateLimits(s, snap)
  \/ \E why \in Purposes, snap \in Snapshots : ReadLimits(s, why, snap)
  \/ /\ s \in open
     /\ \E n \in Turns(thread[s][1]), size \in Sizes, readable \in BOOLEAN :
          \E tokens \in reports[thread[s][1]][n] : ReportTokens(s, n, tokens, size, readable)
  \/ \E done \in BOOLEAN : WriteCache(s, done) \/ WriteFile(s, done)
  \/ \E model \in ModelNames : PickModel(s, model)
  \/ \E effort \in Efforts : PickEffort(s, effort)
  \/ \E tier \in Tiers : PickTier(s, tier)
  \/ \E i \in DOMAIN maps[s].options : PickSummary(s, i)

Next ==
  \/ \E s \in Sessions : SessionSteps(s)
  \/ \E t \in Threads : ServerSteps(t)
  \/ \E contents \in Edits : EditFile(contents)
  \/ \E config \in MapEdits : EditMaps(config)

Spec == Init /\ [][Next]_vars

-----------------------------------------------------------------------------
(* The effort a session has need not be one its model takes: the server    *)
(* gave it, or it was set before the models were loaded, or it is the      *)
(* default of a model that lists others or none.  That effort apart, every *)
(* effort the selector offers is one the session takes, and so is that one *)
(* where it was fitted to a model the session knew (settings.rs:93-135,    *)
(* config/model_selector.rs:171-253, selector_preferences.rs:410-424).     *)
OffersAreAccepted ==
  \A s \in open : \A effort \in Options(s, "effort") :
    \/ Accepts(s, effort)
    \/ /\ effort = choice[s].effort
       /\ s \in checked => \E m \in Find(models[s], choice[s].model) : effort = m.default

(* Unless sessions overlapped, a write failed or someone edited the file, a *)
(* session that starts has what was chosen last of each kind, if it knows   *)
(* the model (selector_preferences.rs:386-461).                            *)
Remembers(s) ==
  /\ chosen.tier # << >> => choice[s].tier = chosen.tier[1]
  /\ chosen.effort # << >> /\ chosen.effort[1] \in lists[s].efforts =>
       choice[s].effort = chosen.effort[1]
  /\ chosen.model # << >> /\ Find(models[s], chosen.model[1]) # {} =>
       choice[s].model = chosen.model[1]

ChoicesSurviveRestart ==
  [][\A s \in open' \ open : apart' => Remembers(s)']_vars
=============================================================================
