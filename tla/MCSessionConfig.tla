-------------------------- MODULE MCSessionConfig --------------------------
(* Values for the instance of SessionConfig.                               *)
EXTENDS SessionConfig, TLC

SessionsAreAlike == Permutations(Sessions)

Model(id, slug, hidden, efforts, default) ==
  [id |-> id, slug |-> slug, hidden |-> hidden, efforts |-> efforts, default |-> default]

MCCatalogue ==
  { Model("a", "a-slug", FALSE, {"low", "high"}, "low"),
    Model("b", "b", FALSE, {}, "medium") }

MCLower == [name \in {"a", "a-slug", "A-SLUG", "b", "x"} |-> IF name = "A-SLUG" THEN "a-slug" ELSE name]

Given(model, effort, tier) == [model |-> model, effort |-> effort, tier |-> tier]
Plain == {Given("a", << >>, "null")}
AnyGiven == {Given("a-slug", << >>, "null"), Given("b", <<"high">>, "flex")}

Scene(about, sessions, started, picked_, edits, late, given) ==
  [about |-> about, sessions |-> sessions, starts |-> started, picks |-> picked_, edits |-> edits,
   late |-> late, given |-> given]

MCScenes ==
  { Scene("limits", 1, 1, 0, FALSE, FALSE, Plain),
    Scene("usage", 2, 3, 0, FALSE, FALSE, Plain),
    Scene("choices", 1, 3, 2, TRUE, TRUE, AnyGiven),
    Scene("choices", 2, 2, 2, FALSE, FALSE, AnyGiven),
    Scene("maps", 2, 2, 0, FALSE, FALSE, Plain) }

Both(primary, secondary) ==
  [w \in Windows |-> IF w = "primary" THEN primary ELSE secondary]

MCSnapshots ==
  {NoLimits} \cup [{"primary"} -> {0, 75, 96}] \cup {Both(80, 0), Both(130, 92)}

\* Two turns of one thread and one of the other, with counts that tell them apart.
MCCounts == [t \in {"t", "u"} |-> IF t = "t" THEN <<{1}, {5}>> ELSE <<{2}>>]

MCEdits ==
  { InvalidFile,
    Contents(<<"b">>, << >>, << >>, << >>, << >>),
    Contents(<<"b">>, <<"high">>, << >>, << >>, << >>),
    Contents(<<"null">>, <<"high">>, <<"null">>, <<[models |-> {"A-SLUG"}, efforts |-> {"high"}]>>,
             <<{"effort", "speed"}>>) }

Bars == [DefaultMaps EXCEPT !.maps["five_hour_percent"] = PercentMap("thresholds", {0, 50}, FALSE)]
MCMapEdits == {Bars, [Bars EXCEPT !.maps["five_hour_percent"] = PercentMap("thresholds", {50}, FALSE)]}
=============================================================================
