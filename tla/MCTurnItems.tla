---------------------------- MODULE MCTurnItems ----------------------------
(* Plans, texts, decisions and questions for the instances of TurnItems.   *)
EXTENDS TurnItems

Scene(about, kinds, turns) == [about |-> about, kinds |-> kinds, turns |-> turns]

MCScenes ==
  { Scene("plan", {"check", "edit"}, 2),
    Scene("cards", {"native", "search"}, 2),
    Scene("tools", {"mcp", "web", "collab", "imageView", "imageGeneration", "edit"}, 1),
    Scene("diff", {"edit"}, 3),
    Scene("approvals", {"native", "delete", "edit"}, 1) }

CallsAreAlike == Permutations(Calls)

MCServerPlans ==
  { [n \in 1 .. 4 |-> "pending"], <<"pending">>,
    <<"completed", "inProgress", "pending", "pending">>, << >> }

MCPlanTexts ==
  { <<Line("steps"), Line("bullet"), Line("bullet"), Line("prose")>>,
    <<Line("prose")>>,
    <<Line("plan"), Box("completed"), Box("pending")>>,
    <<Line("intro"), Line("number"), Line("planBullet"), Line("number")>> }

MCTurnDiffs ==
  { [changed |-> {"f"}, gone |-> {}], [changed |-> {"f"}, gone |-> {"f"}],
    [changed |-> {"f", "g"}, gone |-> {"g"}], [changed |-> {"g"}, gone |-> {}] }

\* f is in the workspace, at the path that g has from the root.
MCNamesakes == [file \in {"g"} |-> "f"]

MCOffers ==
  { [available |-> << >>, amendment |-> "none"],
    [available |-> << >>, amendment |-> "rule"],
    [available |-> <<DecisionOf("allow-network-host", "a"), DecisionOf("allow-network-host", "b"),
                     DecisionOf("deny-network-host", "a"), Decision("cancel")>>,
     amendment |-> "none"] }

MCQuestions ==
  { << [labels |-> <<"a", "b">>, other |-> TRUE], [labels |-> << >>, other |-> TRUE],
       [labels |-> <<"a", "b", "c", "d">>, other |-> TRUE] >> }
=============================================================================
