\* Three turns and two tool calls; a plan shows at most three of its steps, and
\* /diff remembers two turns.
SPECIFICATION Spec
CONSTANTS
  c1 = c1
  c2 = c2
  Calls = {c1, c2}
  Files = {"f", "g"}
  Terminal = TRUE
  HeadLines = 1
  TailLines = 1
  BelowRoot = TRUE
  Namesakes <- MCNamesakes
  HistoryLimit = 2
  MaxVisible = 3
  MaxChunks = 3
  Scenes <- MCScenes
  ServerPlans <- MCServerPlans
  PlanTexts <- MCPlanTexts
  Offers <- MCOffers
  TurnDiffs <- MCTurnDiffs
  Questions <- MCQuestions
SYMMETRY CallsAreAlike
INVARIANTS TypeOK OutputShownOnce ServerPlanShown DiffShowsNewest ReplyMatchesChoice EditsNotShownTwice
PROPERTIES LateItemsIgnored PlanNeverFallsBack
