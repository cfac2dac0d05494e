-------------------------- MODULE TurnItemsProofs ---------------------------
(***************************************************************************)
(* Proofs about TurnItems: what the client is shown of the plan, the tool  *)
(* calls, the diffs and the approvals of a session's turns.                *)
(***************************************************************************)
EXTENDS TurnItems, TLAPS

-----------------------------------------------------------------------------
(* Turns and items.                                                        *)

(* The server runs only the turn that is active, and a diff waits only for *)
(* the end of that turn.                                                   *)
TurnInv ==
  /\ turn \in Nat /\ running \in BOOLEAN /\ active \in BOOLEAN
  /\ life \in [Calls -> {"new", "open", "closed"}]
  /\ owner \in [Calls -> Nat]
  /\ kind = [c \in Calls |-> kind[c]]
  /\ target = [c \in Calls |-> target[c]]
  /\ \A c \in Calls : owner[c] <= turn /\ (life[c] = "new" => owner[c] = 0)
  /\ \A c \in Calls : life[c] # "new" => kind[c] \in Kinds
  /\ running => active /\ stop = "none" /\ turn > 0
  /\ latest # NoDiff => running

LEMMA TurnInitially == Init => TurnInv
<1> SUFFICES ASSUME Init PROVE TurnInv
  OBVIOUS
<1>1. turn = 0 /\ ~running /\ running \in BOOLEAN /\ active \in BOOLEAN /\ latest = NoDiff
  BY DEF Init, DiffInit
<1>2. /\ life \in [Calls -> {"new", "open", "closed"}]
      /\ owner \in [Calls -> Nat] /\ \A c \in Calls : owner[c] = 0 /\ life[c] = "new"
      /\ kind = [c \in Calls |-> kind[c]] /\ target = [c \in Calls |-> target[c]]
  BY DEF Init
<1> QED
  BY <1>1, <1>2 DEF TurnInv

\* What the steps that only show something leave alone.
turnsAndItems == <<turn, running, active, stop, life, owner, kind, target, latest>>

LEMMA TurnInductive == TurnInv /\ [Next]_vars => TurnInv'
<1> SUFFICES ASSUME TurnInv, [Next]_vars PROVE TurnInv'
  OBVIOUS
<1>1. ASSUME UNCHANGED turnsAndItems PROVE TurnInv'
  BY <1>1 DEF TurnInv, turnsAndItems
<1>2. ASSUME NEW m, SetMode(m) PROVE TurnInv'
  BY <1>1, <1>2 DEF SetMode, Quiet, turnVars, itemVars, diffVars, turnsAndItems
<1>3. ASSUME NEW m, BeginTurn(m) PROVE TurnInv'
  BY <1>3 DEF BeginTurn, TurnInv, itemVars, DiffForgotten
<1>4. ASSUME NEW t, NEW reason \in Reasons, TurnCompleted(t, reason) PROVE TurnInv'
  BY <1>4 DEF TurnCompleted, TurnInv, FinalizeDiff, turnVars, itemVars, diffVars
<1>5. CASE FinishTurn
  <2>1. /\ running' = running /\ active' \in BOOLEAN /\ (active' = active \/ ~running)
        /\ UNCHANGED <<turn, stop, life, owner, kind, target, latest>>
    BY <1>5 DEF FinishTurn, TurnInv, itemVars, diffVars
  <2> QED
    BY <2>1 DEF TurnInv
<1>6. ASSUME NEW yes, OfferImplementation(yes) PROVE TurnInv'
  BY <1>6 DEF OfferImplementation, TurnInv, itemVars, diffVars
<1>7. CASE ThreadSwitched
  BY <1>7 DEF ThreadSwitched, TurnInv, itemVars, HistoryForgotten
<1>8. ASSUME NEW c \in Calls, NEW k \in Kinds, NEW file, ItemStarted(c, k, file) PROVE TurnInv'
  <2>1. /\ life' = [life EXCEPT ![c] = "open"] /\ owner' = [owner EXCEPT ![c] = turn]
        /\ kind' = [kind EXCEPT ![c] = k] /\ (\E x : target' = [target EXCEPT ![c] = x])
        /\ UNCHANGED <<turn, running, active, stop, latest>>
    BY <1>8 DEF ItemStarted, turnVars
  <2>2. /\ life' \in [Calls -> {"new", "open", "closed"}] /\ owner' \in [Calls -> Nat]
        /\ kind' = [x \in Calls |-> kind'[x]] /\ target' = [x \in Calls |-> target'[x]]
    BY <2>1 DEF TurnInv
  <2> QED
    BY <2>1, <2>2 DEF TurnInv
<1>9. ASSUME NEW c \in Calls, NEW status, ItemCompleted(c, status) PROVE TurnInv'
  BY <1>9 DEF ItemCompleted, TurnInv, turnVars
<1>10. ASSUME NEW c \in Calls, NEW k \in Kinds, NEW status, ReplayItem(c, k, status) PROVE TurnInv'
  BY <1>10 DEF ReplayItem, TurnInv, turnVars, diffVars
<1>11. ASSUME NEW c \in Calls, NEW chunk, CommandOutput(c, chunk) PROVE TurnInv'
  BY <1>1, <1>11 DEF CommandOutput, turnVars, diffVars, turnsAndItems
<1>12. ASSUME NEW c \in Calls, TerminalInteraction(c) PROVE TurnInv'
  BY <1>1, <1>12 DEF TerminalInteraction, turnVars, itemVars, diffVars, turnsAndItems
<1>13. ASSUME Asked PROVE TurnInv'
  BY <1>1, <1>13 DEF Asked, turnVars, itemVars, diffVars, turnsAndItems
<1>14. CASE AgentText \/ \E plan \in ServerPlans : TurnPlanUpdated(plan)
  BY <1>1, <1>14 DEF AgentText, TurnPlanUpdated, turnVars, itemVars, diffVars, turnsAndItems
<1>15. ASSUME NEW text, PlanItemCompleted(text) PROVE TurnInv'
  BY <1>1, <1>15 DEF PlanItemCompleted, turnVars, itemVars, diffVars, turnsAndItems
<1>16. ASSUME NEW diff, TurnDiffUpdated(diff) PROVE TurnInv'
  BY <1>16 DEF TurnDiffUpdated, DiffUpdated, TurnInv, turnVars, itemVars
<1>17. ASSUME NEW n, ShowDiff(n) PROVE TurnInv'
  BY <1>1, <1>17 DEF ShowDiff, DiffCommand, turnVars, itemVars, diffVars, turnsAndItems
<1>18. CASE UNCHANGED vars
  BY <1>1, <1>18 DEF vars, turnVars, itemVars, diffVars, turnsAndItems
<1>19. CASE SessionStep
  BY <1>19, <1>2, <1>3, <1>4, <1>5, <1>6, <1>7 DEF SessionStep
<1>20. CASE MessageStep
  BY <1>20, <1>14, <1>15, <1>16, <1>17 DEF MessageStep
<1>21. ASSUME NEW c \in Calls, ItemStep(c) PROVE TurnInv'
  BY <1>21, <1>8, <1>9, <1>10, <1>11, <1>12, <1>13
     DEF ItemStep, CommandApproval, FileChangeApproval, PermissionsApproval, UserInput, Unsupported
<1> QED
  BY <1>18, <1>19, <1>20, <1>21 DEF Next

-----------------------------------------------------------------------------
(* Cards.                                                                  *)

(* The kinds of calls whose card shows the output of a command.             *)
LEMMA KindsOfCommands ==
  /\ CommandKinds = {"native", "check", "search", "delete"}
  /\ CommandKinds \subseteq Kinds
  /\ \A k \in Kinds : \/ k \in CommandKinds
                      \/ k \in {"mcp", "web", "imageView", "imageGeneration", "collab", "edit"}
  BY DEF CommandKinds, Commands, Kinds

(* An item that starts gets a card, and touches no other call.             *)
LEMMA CardOfStarted ==
  ASSUME NEW c \in Calls, NEW k \in Kinds, NEW file, CardStarts(c, k, file)
  PROVE  /\ started' = (IF k = "imageView" THEN started ELSE started \cup {c})
         /\ terminals' \in {terminals, terminals \cup {c}}
         /\ k \notin CommandKinds => terminals' = terminals
         /\ outputSeen' = outputSeen /\ output' = output
         /\ covered' = (IF k \in CommandKinds THEN covered \ {c} ELSE covered)
         /\ \E status \in Statuses : card' = [card EXCEPT ![c] = status]
         /\ plannedEdit' = IF k = "edit" THEN [plannedEdit EXCEPT ![c] = file] ELSE plannedEdit
<1> USE DEF Begin, Card, Other, Drawn, Statuses
<1>1. CASE k \in CommandKinds
  BY <1>1, KindsOfCommands DEF CardStarts, CommandStarted
<1>2. CASE k = "mcp"
  BY <1>2, KindsOfCommands DEF CardStarts, McpToolCallStarted
<1>3. CASE k = "web"
  BY <1>3, KindsOfCommands DEF CardStarts, WebSearchStarted
<1>4. CASE k = "collab"
  BY <1>4, KindsOfCommands DEF CardStarts, CollabStarted
<1>5. CASE k = "imageView"
  BY <1>5, KindsOfCommands DEF CardStarts, ImageViewStarted
<1>6. CASE k = "imageGeneration"
  BY <1>6, KindsOfCommands DEF CardStarts, ImageGenerationStarted, ImageStatus
<1>7. CASE k = "edit"
  BY <1>7, KindsOfCommands DEF CardStarts, EditStarted
<1> QED
  BY <1>1, <1>2, <1>3, <1>4, <1>5, <1>6, <1>7, KindsOfCommands

(* And so does one that ends.                                              *)
LEMMA CardOfEnded ==
  ASSUME NEW c \in Calls, kind[c] \in Kinds, NEW status, CardEnds(c, status)
  PROVE  /\ started' = (IF kind[c] = "imageView" THEN started ELSE started \ {c})
         /\ terminals' = (IF kind[c] \in CommandKinds THEN terminals \ {c} ELSE terminals)
         /\ outputSeen' = (IF kind[c] \in CommandKinds THEN outputSeen \ {c} ELSE outputSeen)
         /\ card' = card \/ \E s \in Statuses : card' = [card EXCEPT ![c] = s]
         /\ output' = (IF kind[c] \in CommandKinds
                       THEN [output EXCEPT ![c] = CompletedOutput(c, produced[c])] ELSE output)
         /\ covered' = (IF kind[c] \in CommandKinds THEN covered \ ({c} \ terminals) ELSE covered)
         /\ plannedEdit' = IF kind[c] = "edit" THEN [plannedEdit EXCEPT ![c] = NoFile] ELSE plannedEdit
<1> USE DEF End, Card, Other, Statuses, Settled
<1>1. CASE kind[c] \in CommandKinds
  BY <1>1, KindsOfCommands DEF CardEnds, CommandCompleted
<1>2. CASE kind[c] = "mcp"
  BY <1>2, KindsOfCommands DEF CardEnds, McpToolCallCompleted
<1>3. CASE kind[c] = "web"
  BY <1>3, KindsOfCommands DEF CardEnds, WebSearchCompleted
<1>4. CASE kind[c] = "collab"
  BY <1>4, KindsOfCommands DEF CardEnds, CollabCompleted
<1>5. CASE kind[c] = "imageView"
  BY <1>5, KindsOfCommands DEF CardEnds, cardVars
<1>6. CASE kind[c] = "imageGeneration"
  BY <1>6, KindsOfCommands DEF CardEnds, ImageGenerationCompleted, ImageStatus
<1>7. CASE kind[c] = "edit"
  BY <1>7, KindsOfCommands DEF CardEnds, EditCompleted
<1> QED
  BY <1>1, <1>2, <1>3, <1>4, <1>5, <1>6, <1>7, KindsOfCommands

(* An item of the history is drawn and does not count as started.          *)
LEMMA CardOfReplayed ==
  ASSUME NEW c \in Calls, NEW k \in Kinds, NEW status, CardReplays(c, k, status)
  PROVE  /\ UNCHANGED <<started, terminals, outputSeen, plannedEdit>>
         /\ \E s \in Statuses : card' = [card EXCEPT ![c] = s]
         /\ output' = (IF k \in CommandKinds
                       THEN [output EXCEPT ![c] = IF UsesTerminal(k) THEN AllChunks(MaxChunks)
                                                  ELSE Preview(MaxChunks)]
                       ELSE output)
         /\ covered' = (IF k \in CommandKinds THEN covered \ {c} ELSE covered)
<1> USE DEF Drawn, Card, Other, Statuses, Settled
<1>1. CASE k \in CommandKinds
  BY <1>1, KindsOfCommands DEF CardReplays, CommandReplayed
<1>2. CASE k = "mcp"
  BY <1>2, KindsOfCommands DEF CardReplays, McpReplayed
<1>3. CASE k \in {"web", "imageView"}
  BY <1>3, KindsOfCommands DEF CardReplays, WebImageReplayed
<1>4. CASE k = "collab"
  BY <1>4, KindsOfCommands DEF CardReplays, CollabReplayed
<1>5. CASE k = "imageGeneration"
  BY <1>5, KindsOfCommands DEF CardReplays, ImageGenerationReplayed, ImageStatus
<1>6. CASE k = "edit"
  BY <1>6, KindsOfCommands DEF CardReplays, EditReplayed
<1> QED
  BY <1>1, <1>2, <1>3, <1>4, <1>5, <1>6, KindsOfCommands

\* A request is shown on the card of an item of the turn, or of a call of its own.
CardAsked(c) ==
  \/ Asks(c) /\ (CardPending(c) \/ (\E d \in BOOLEAN : CommandPending(c, kind[c], d)) \/ UNCHANGED cardVars)
  \/ AsksApart(c) /\ (CardPending(c) \/ QuestionAnswered(c))

(* A dialog draws a status on one card, and may put its text on it.         *)
LEMMA CardOfDialog ==
  ASSUME NEW c \in Calls, CardAsked(c)
  PROVE  /\ UNCHANGED <<started, terminals, outputSeen, output, plannedEdit>>
         /\ covered' \in {covered, covered \ {c}, covered \cup {c}}
         /\ card' = card \/ \E s \in {"pending", "completed"} : card' = [card EXCEPT ![c] = s]
         /\ \/ life[c] = "new"
            \/ life[c] = "open" /\ owner[c] = turn /\ (card' = card \/ card' = [card EXCEPT ![c] = "pending"])
<1> USE DEF Drawn, Card, Other
<1>1. CASE Asks(c) /\ (CardPending(c) \/ UNCHANGED cardVars)
  BY <1>1 DEF Asks, Current, CardPending, cardVars
<1>2. ASSUME Asks(c), NEW d \in BOOLEAN, CommandPending(c, kind[c], d)
      PROVE  /\ UNCHANGED <<started, terminals, outputSeen, output, plannedEdit>>
             /\ covered' \in {covered, covered \ {c}, covered \cup {c}}
             /\ card' = [card EXCEPT ![c] = "pending"] /\ life[c] = "open" /\ owner[c] = turn
  BY <1>2 DEF Asks, Current, CommandPending
<1>3. CASE AsksApart(c) /\ (CardPending(c) \/ QuestionAnswered(c))
  BY <1>3 DEF AsksApart, CardPending, QuestionAnswered
<1> QED
  BY <1>1, <1>2, <1>3 DEF CardAsked

\* Every request of the server is one.
LEMMA RequestsAreDialogs ==
  ASSUME NEW c \in Calls,
         \/ \E offer \in Offers, detailed \in BOOLEAN : CommandApproval(c, offer, detailed)
         \/ FileChangeApproval(c) \/ PermissionsApproval(c) \/ Unsupported(c)
         \/ \E questions \in Questions : UserInput(c, questions)
  PROVE  CardAsked(c) /\ Asked
  BY DEF CommandApproval, FileChangeApproval, PermissionsApproval, Unsupported, UserInput, CardAsked

-----------------------------------------------------------------------------
(* Approvals.                                                              *)

(* Two options of a command approval are never taken for each other: the   *)
(* second of a kind carries its place.                                     *)
LEMMA OptionsAreTold ==
  ASSUME NEW D, NEW offered \in Seq(D), NEW picked \in DOMAIN offered
  PROVE  DecisionFor(OptionIds(offered)[picked], offered) = offered[picked]
<1> DEFINE id == OptionIds(offered)[picked]
           same == {n \in DOMAIN offered : OptionIds(offered)[n] = id}
<1>1. DOMAIN offered = 1 .. Len(offered) /\ Len(offered) \in Nat
  OBVIOUS
<1>2. ASSUME NEW m \in DOMAIN offered, NEW n \in DOMAIN offered, m < n
      PROVE  OptionIds(offered)[m] # OptionIds(offered)[n]
  <2>1. CASE offered[m].k = offered[n].k
    <3>1. OptionIds(offered)[n] = <<offered[n].k, n>>
      BY <1>1, <1>2, <2>1 DEF OptionIds
    <3>2. OptionIds(offered)[m] = <<offered[m].k, m>> \/ OptionIds(offered)[m] = <<offered[m].k, 0>>
      BY DEF OptionIds
    <3>3. m # n /\ 0 # n
      BY <1>1, <1>2
    <3> QED
      BY <3>1, <3>2, <3>3
  <2>2. CASE offered[m].k # offered[n].k
    <3>1. OptionIds(offered)[n][1] = offered[n].k /\ OptionIds(offered)[m][1] = offered[m].k
      BY DEF OptionIds
    <3> QED
      BY <2>2, <3>1
  <2> QED
    BY <2>1, <2>2
<1>3. same = {picked}
  BY <1>1, <1>2
<1>4. \A n \in same : (\A m \in same : m <= n) => n = picked
  BY <1>3
<1>5. picked \in same /\ \A m \in same : m <= picked
  BY <1>1, <1>3
<1>6. (CHOOSE n \in same : \A m \in same : m <= n) = picked
  BY <1>4, <1>5
<1> QED
  BY <1>6 DEF DecisionFor

(* The changes an edit announced are remembered while its turn runs, and   *)
(* are those it makes; what was asked fits what was answered.              *)
PlansKept ==
  /\ plannedEdit = [c \in Calls |-> plannedEdit[c]]
  /\ running => \A c \in Calls :
       life[c] = "open" /\ owner[c] = turn /\ kind[c] = "edit" => plannedEdit[c] = target[c]

ApprovalInv == PlansKept /\ ReplyMatchesChoice

(* Without a dialog there is nothing to match.                              *)
LEMMA NothingAskedFits == asked' = NothingAsked => ReplyMatchesChoice'
  BY DEF NothingAsked, ReplyMatchesChoice

LEMMA ApprovalInitially == Init => ApprovalInv
<1> SUFFICES ASSUME Init PROVE ApprovalInv
  OBVIOUS
<1>1. PlansKept
  BY DEF Init, CardsInit, PlansKept
<1>2. ReplyMatchesChoice
  BY DEF Init, AskedInit, NothingAsked, ReplyMatchesChoice
<1> QED
  BY <1>1, <1>2 DEF ApprovalInv

(* What the server asks about a command, an edit or permissions.           *)
LEMMA CommandAnswered ==
  ASSUME NEW c, NEW offer \in Offers, AskCommand(c, offer.available, offer.amendment)
  PROVE  ReplyMatchesChoice'
<1> DEFINE offered == OfferedDecisions(offer.available, offer.amendment)
<1>1. PICK D : offered \in Seq(D)
  <2>1. CASE offer.available # << >>
    BY <2>1, MessagesAssumption DEF OfferedDecisions
  <2>2. CASE offer.available = << >>
    <3>1. PICK a, b, d : offered = <<a, b, d>>
      BY <2>2 DEF OfferedDecisions
    <3>2. <<a, b, d>> \in Seq({a, b, d})
      OBVIOUS
    <3> QED
      BY <3>1, <3>2
  <2> QED
    BY <2>1, <2>2
<1> HIDE DEF offered
<1>2. PICK picked \in Picks(offered) :
        asked' = [kind |-> "command", call |-> c, shows |-> "command", offered |-> offered,
                  picked |-> picked, reply |-> DecisionFrom(offered, picked)]
  BY DEF AskCommand, Answered, offered
<1>3. picked # 0 => picked \in DOMAIN offered
  BY <1>1 DEF Picks
<1>4. DecisionFrom(offered, picked) = IF picked = 0 THEN Decision("cancel") ELSE offered[picked]
  BY <1>1, <1>3, OptionsAreTold DEF DecisionFrom
<1>5. /\ asked'.kind = "command" /\ asked'.offered = offered /\ asked'.picked = picked
      /\ asked'.reply = DecisionFrom(offered, picked)
  BY <1>2
<1> QED
  BY <1>4, <1>5 DEF ReplyMatchesChoice, Refusal

(* The user answers for an edit.                                            *)
LEMMA EditAnswered ==
  ASSUME NEW c, NEW planned, AskEdit(c, planned), planned = target[c], UNCHANGED target
  PROVE  ReplyMatchesChoice'
<1>1. PICK picked \in 0 .. 2 :
        asked' = [kind |-> "edit", call |-> c, shows |-> planned, offered |-> EditOptions,
                  picked |-> picked, reply |-> IF picked = 1 THEN "accept" ELSE "decline"]
  BY DEF AskEdit, Answered, Picks, EditOptions
<1>2. /\ asked'.kind = "edit" /\ asked'.offered = <<"accept", "decline">> /\ asked'.picked = picked
      /\ asked'.reply = (IF picked = 1 THEN "accept" ELSE "decline")
      /\ asked'.shows = planned /\ asked'.call = c
  BY <1>1 DEF EditOptions
<1>3. Refusal("edit") = "decline"
  BY DEF Refusal
<1>4. picked \in {0, 1, 2}
  BY <1>1
<1> QED
  BY <1>2, <1>3, <1>4 DEF ReplyMatchesChoice

(* The user answers for permissions.                                        *)
LEMMA PermissionsAnswered ==
  ASSUME NEW c, AskPermissions(c)
  PROVE  ReplyMatchesChoice'
<1>1. PICK picked \in 0 .. 3 :
        asked' = [kind |-> "permissions", call |-> c, shows |-> "request", offered |-> PermissionOptions,
                  picked |-> picked,
                  reply |-> IF picked \in {1, 2} THEN PermissionOptions[picked] ELSE "none"]
  BY DEF AskPermissions, Answered, Picks, PermissionOptions
<1>2. /\ asked'.kind = "permissions" /\ asked'.offered = PermissionOptions /\ asked'.picked = picked
      /\ asked'.reply = (IF picked \in {1, 2} THEN PermissionOptions[picked] ELSE "none")
  BY <1>1
<1>3. Refusal("permissions") = "none" /\ PermissionOptions[3] = "none"
  BY DEF Refusal, PermissionOptions
<1>4. picked \in {0, 1, 2, 3}
  BY <1>1
<1> QED
  BY <1>2, <1>3, <1>4 DEF ReplyMatchesChoice

(* Steps that leave the cards and the items alone.                         *)
LEMMA PlansUntouched ==
  ASSUME PlansKept, UNCHANGED <<plannedEdit, life, owner, kind, target, turn>>,
         running' = running \/ running' = FALSE
  PROVE  PlansKept'
  BY DEF PlansKept

LEMMA ApprovalInductive == TurnInv /\ ApprovalInv /\ [Next]_vars => ApprovalInv'
<1> SUFFICES ASSUME TurnInv, ApprovalInv, [Next]_vars PROVE ApprovalInv'
  OBVIOUS
<1>1. PlansKept
  BY DEF ApprovalInv
<1>2. ASSUME NEW m, SetMode(m) PROVE ApprovalInv'
  BY <1>1, <1>2, PlansUntouched, NothingAskedFits
     DEF SetMode, Quiet, Silent, turnVars, itemVars, cardVars, ApprovalInv
<1>3. ASSUME NEW m, BeginTurn(m) PROVE ApprovalInv'
  <2>1. \A c \in Calls : owner'[c] # turn'
    BY <1>3 DEF BeginTurn, TurnInv, itemVars
  <2>2. plannedEdit' = [c \in Calls |-> plannedEdit'[c]]
    BY <1>3 DEF BeginTurn, CardsForgotten
  <2> QED
    BY <1>3, <2>1, <2>2, NothingAskedFits DEF BeginTurn, Quiet, Silent, ApprovalInv, PlansKept
<1>4. ASSUME NEW t, NEW reason, TurnCompleted(t, reason) PROVE ApprovalInv'
  <2>1. /\ UNCHANGED <<plannedEdit, life, owner, kind, target, turn>>
        /\ running' = running \/ running' = FALSE
    BY <1>4 DEF TurnCompleted, turnVars, itemVars, cardVars
  <2> QED
    BY <1>1, <1>4, <2>1, PlansUntouched, NothingAskedFits DEF TurnCompleted, Quiet, Silent, ApprovalInv
<1>5. CASE FinishTurn \/ \E yes \in BOOLEAN : OfferImplementation(yes)
  <2>1. UNCHANGED <<plannedEdit, life, owner, kind, target, turn, running>>
    BY <1>5 DEF FinishTurn, OfferImplementation, itemVars, cardVars
  <2> QED
    BY <1>1, <1>5, <2>1, PlansUntouched, NothingAskedFits
       DEF FinishTurn, OfferImplementation, Quiet, Silent, ApprovalInv
<1>6. CASE ThreadSwitched
  <2>1. ~running'
    BY <1>6 DEF ThreadSwitched, Idle, TurnInv
  <2>2. plannedEdit' = [c \in Calls |-> plannedEdit'[c]]
    BY <1>6 DEF ThreadSwitched, CardsForgotten
  <2> QED
    BY <1>6, <2>1, <2>2, NothingAskedFits DEF ThreadSwitched, Quiet, Silent, ApprovalInv, PlansKept
<1>7. ASSUME NEW c \in Calls, NEW k \in Kinds, NEW file, ItemStarted(c, k, file) PROVE ApprovalInv'
  <2>1. plannedEdit' = IF k = "edit" THEN [plannedEdit EXCEPT ![c] = file] ELSE plannedEdit
    BY <1>7, CardOfStarted DEF ItemStarted
  <2>2. /\ kind' = [kind EXCEPT ![c] = k]
        /\ target' = [target EXCEPT ![c] = IF k = "edit" THEN file ELSE NoFile]
        /\ life' = [life EXCEPT ![c] = "open"] /\ owner' = [owner EXCEPT ![c] = turn]
        /\ UNCHANGED <<turn, running>>
    BY <1>7 DEF ItemStarted, turnVars
  <2>3. PlansKept'
    BY <1>1, <2>1, <2>2 DEF PlansKept, TurnInv
  <2> QED
    BY <1>7, <2>3, NothingAskedFits DEF ItemStarted, Quiet, Silent, ApprovalInv
<1>8. ASSUME NEW c \in Calls, NEW status, ItemCompleted(c, status) PROVE ApprovalInv'
  <2>1. plannedEdit' = plannedEdit \/ plannedEdit' = [plannedEdit EXCEPT ![c] = NoFile]
    BY <1>8, CardOfEnded DEF ItemCompleted, TurnInv, cardVars
  <2>2. life' = [life EXCEPT ![c] = "closed"] /\ UNCHANGED <<turn, running, owner, kind, target>>
    BY <1>8 DEF ItemCompleted, turnVars
  <2>3. PlansKept'
    BY <1>1, <2>1, <2>2 DEF PlansKept, TurnInv
  <2> QED
    BY <1>8, <2>3, NothingAskedFits DEF ItemCompleted, Quiet, Silent, ApprovalInv
<1>9. ASSUME NEW c \in Calls, NEW k \in Kinds, NEW status, ReplayItem(c, k, status) PROVE ApprovalInv'
  <2>1. plannedEdit' = plannedEdit
    BY <1>9, CardOfReplayed DEF ReplayItem
  <2>2. /\ life' = [life EXCEPT ![c] = "closed"] /\ kind' = [kind EXCEPT ![c] = k]
        /\ UNCHANGED <<turn, running, owner, target>>
    BY <1>9 DEF ReplayItem, turnVars
  <2>3. PlansKept'
    BY <1>1, <2>1, <2>2 DEF PlansKept, TurnInv
  <2> QED
    BY <1>9, <2>3, NothingAskedFits DEF ReplayItem, Quiet, Silent, ApprovalInv
<1>10. ASSUME NEW c \in Calls, NEW chunk, CommandOutput(c, chunk) PROVE ApprovalInv'
  <2>1. UNCHANGED <<plannedEdit, life, owner, kind, target, turn, running>>
    BY <1>10 DEF CommandOutput, OutputDelta, turnVars, cardVars
  <2> QED
    BY <1>1, <1>10, <2>1, PlansUntouched, NothingAskedFits DEF CommandOutput, Quiet, Silent, ApprovalInv
<1>11. ASSUME NEW c \in Calls, TerminalInteraction(c) PROVE ApprovalInv'
  BY <1>1, <1>11, PlansUntouched, NothingAskedFits
     DEF TerminalInteraction, Quiet, Silent, turnVars, itemVars, ApprovalInv
<1>12. ASSUME NEW c \in Calls, NEW offer \in Offers, NEW detailed \in BOOLEAN,
              CommandApproval(c, offer, detailed)
       PROVE  ApprovalInv'
  BY <1>1, <1>12, PlansUntouched, CommandAnswered
     DEF CommandApproval, CommandPending, Asked, turnVars, itemVars, ApprovalInv
<1>13. ASSUME NEW c \in Calls, FileChangeApproval(c) PROVE ApprovalInv'
  <2>1. plannedEdit[c] = target[c]
    BY <1>1, <1>13 DEF FileChangeApproval, Asks, Current, PlansKept
  <2>2. AskEdit(c, plannedEdit[c]) /\ UNCHANGED <<plannedEdit, life, owner, kind, target, turn, running>>
    BY <1>13 DEF FileChangeApproval, CardPending, Drawn, Other, Asked, turnVars, itemVars
  <2> QED
    BY <1>1, <2>1, <2>2, PlansUntouched, EditAnswered DEF ApprovalInv
<1>14. ASSUME NEW c \in Calls, PermissionsApproval(c) PROVE ApprovalInv'
  BY <1>1, <1>14, PlansUntouched, PermissionsAnswered
     DEF PermissionsApproval, CardPending, Drawn, Other, Asked, turnVars, itemVars, ApprovalInv
<1>15. ASSUME NEW c \in Calls, Unsupported(c) \/ \E questions \in Questions : UserInput(c, questions)
       PROVE  ApprovalInv'
  <2>1. UNCHANGED <<plannedEdit, life, owner, kind, target, turn, running>>
    BY <1>15 DEF Unsupported, UserInput, QuestionAnswered, Drawn, Other, Asked, turnVars, itemVars, cardVars
  <2>2. asked'.kind \in {"input", "unsupported"}
    BY <1>15 DEF Unsupported, UserInput, AskUser, Reject, Answered
  <2>3. ReplyMatchesChoice'
    BY <2>2 DEF ReplyMatchesChoice
  <2> QED
    BY <1>1, <2>1, <2>3, PlansUntouched DEF ApprovalInv
<1>16. CASE MessageStep
  <2>1. UNCHANGED <<plannedEdit, life, owner, kind, target, turn, running>> /\ asked' = NothingAsked
    BY <1>16 DEF MessageStep, AgentText, TurnPlanUpdated, PlanItemCompleted, TurnDiffUpdated, ShowDiff,
                 Quiet, Silent, turnVars, itemVars, cardVars
  <2> QED
    BY <1>1, <2>1, PlansUntouched, NothingAskedFits DEF ApprovalInv
<1>17. CASE UNCHANGED vars
  BY <1>17 DEF vars, turnVars, itemVars, cardVars, ApprovalInv, PlansKept, ReplyMatchesChoice
<1>18. CASE SessionStep
  BY <1>18, <1>2, <1>3, <1>4, <1>5, <1>6 DEF SessionStep
<1>19. ASSUME NEW c \in Calls, ItemStep(c) PROVE ApprovalInv'
  BY <1>19, <1>7, <1>8, <1>9, <1>10, <1>11, <1>12, <1>13, <1>14, <1>15 DEF ItemStep
<1> QED
  BY <1>16, <1>17, <1>18, <1>19 DEF Next

(* The server is told what the user picked, whatever it offered, and an     *)
(* edit is approved on the changes it announced (approvals/command.rs:50-68,*)
(* approvals/file_change.rs:58-80, approvals/permissions.rs:22-73).         *)
THEOREM RepliesMatchChoices == Spec => []ReplyMatchesChoice
<1>1. TurnInv /\ ApprovalInv => ReplyMatchesChoice
  BY DEF ApprovalInv
<1> QED
  BY <1>1, TurnInitially, TurnInductive, ApprovalInitially, ApprovalInductive, PTL DEF Spec

-----------------------------------------------------------------------------
(* The diff of a turn.                                                     *)

(* While a turn runs it has no diff card yet, and the places of its edits  *)
(* are remembered.                                                         *)
DiffInv ==
  /\ diffCard.turn \in Nat /\ diffCard.turn <= turn
  /\ diffCard.turn = 0 => diffCard.shown = {}
  /\ running => diffCard.turn # turn
  /\ running => \A c \in Calls : owner[c] = turn /\ kind[c] = "edit" => <<"file", target[c]>> \in edited
  /\ EditsNotShownTwice

LEMMA DiffInitially == Init => DiffInv
<1> SUFFICES ASSUME Init PROVE DiffInv
  OBVIOUS
<1>1. diffCard.turn = 0 /\ diffCard.shown = {} /\ turn = 0 /\ ~running
  BY DEF Init, DiffInit
<1> QED
  BY <1>1 DEF DiffInv, EditsNotShownTwice

(* What a card shows of a diff is not found where an edit was shown.        *)
LEMMA CardLeavesEditsOut ==
  ASSUME NEW diff, NEW there \in NamesakesAfter(diff), NEW f \in CardOf(diff, there),
         <<"file", f>> \in edited
  PROVE  BelowRoot /\ f \in diff.gone \cup DOMAIN Namesakes
<1>1. there \subseteq DOMAIN Namesakes /\ PathOf(f, diff, there) # <<"file", f>>
  BY DEF NamesakesAfter, CardOf
<1>2. CASE f \in there
  BY <1>1, <1>2, DiffAssumption
<1>3. CASE f \notin there
  BY <1>1, <1>3 DEF PathOf
<1> QED
  BY <1>2, <1>3

(* A step that draws no diff shows no edit twice.                           *)
LEMMA DiffKept ==
  ASSUME TurnInv, DiffInv, UNCHANGED <<turn, diffCard, owner, kind, target>>, edited \subseteq edited',
         running' = running \/ running' = FALSE
  PROVE  DiffInv'
  BY DEF DiffInv, EditsNotShownTwice

LEMMA DiffInductive == TurnInv /\ DiffInv /\ [Next]_vars => DiffInv'
<1> SUFFICES ASSUME TurnInv, DiffInv, [Next]_vars PROVE DiffInv'
  OBVIOUS
<1>1. ASSUME NEW m, SetMode(m) PROVE DiffInv'
  BY <1>1, DiffKept DEF SetMode, turnVars, itemVars, diffVars
<1>2. ASSUME NEW m, BeginTurn(m) PROVE DiffInv'
  <2>1. turn' = turn + 1 /\ UNCHANGED <<diffCard, owner, kind, target>>
    BY <1>2 DEF BeginTurn, DiffForgotten, itemVars
  <2>2. \A c \in Calls : owner'[c] # turn'
    BY <2>1 DEF TurnInv
  <2>3. diffCard'.turn < turn'
    BY <2>1 DEF TurnInv, DiffInv
  <2> QED
    BY <2>1, <2>2, <2>3 DEF DiffInv, EditsNotShownTwice, TurnInv
<1>3. ASSUME NEW t \in 1 .. turn, NEW reason, TurnCompleted(t, reason) PROVE DiffInv'
  <2>1. CASE t # turn \/ lastCompleted = t
    BY <1>3, <2>1, DiffKept DEF TurnCompleted, turnVars, itemVars, diffVars
  <2>2. CASE ~(t # turn \/ lastCompleted = t)
    <3>1. t = turn /\ running' = FALSE /\ FinalizeDiff(t) /\ UNCHANGED <<turn, owner, kind, target>>
      BY <1>3, <2>2 DEF TurnCompleted, itemVars
    <3>4. PICK there \in NamesakesAfter(latest) :
            diffCard' = IF CardOf(latest, there) = {} THEN diffCard
                        ELSE [turn |-> turn, shown |-> CardOf(latest, there),
                              gone |-> CardOf(latest, there) \cap latest.gone]
      BY <3>1 DEF FinalizeDiff
    <3>2. CASE CardOf(latest, there) = {}
      BY <3>1, <3>2, <3>4, DiffKept DEF FinalizeDiff, TurnInv
    <3>3. CASE CardOf(latest, there) # {}
      <4>1. diffCard' = [turn |-> turn, shown |-> CardOf(latest, there),
                         gone |-> CardOf(latest, there) \cap latest.gone]
        BY <3>3, <3>4
      <4>2. running
        <5>1. NoDiff.changed = {}
          BY DEF NoDiff
        <5> QED
          BY <3>3, <5>1 DEF CardOf, TurnInv
      <4>3. EditsNotShownTwice'
        <5>1. ASSUME NEW c \in Calls, owner[c] = turn, kind[c] = "edit", target[c] \in CardOf(latest, there)
              PROVE  BelowRoot /\ target[c] \in latest.gone \cup DOMAIN Namesakes
          BY <5>1, <4>2, CardLeavesEditsOut DEF DiffInv
        <5> QED
          BY <5>1, <4>1, <3>1 DEF EditsNotShownTwice
      <4>4. turn \in Nat /\ turn # 0
        BY <4>2 DEF TurnInv
      <4> QED
        BY <3>1, <4>1, <4>3, <4>4 DEF DiffInv
    <3> QED
      BY <3>2, <3>3
  <2> QED
    BY <2>1, <2>2
<1>4. CASE FinishTurn \/ \E yes \in BOOLEAN : OfferImplementation(yes)
  BY <1>4, DiffKept DEF FinishTurn, OfferImplementation, itemVars, diffVars
<1>5. CASE ThreadSwitched
  <2>1. ~running' /\ UNCHANGED <<turn, diffCard, owner, kind, target>>
    BY <1>5 DEF ThreadSwitched, Idle, TurnInv, HistoryForgotten, itemVars
  <2> QED
    BY <2>1 DEF DiffInv, EditsNotShownTwice
<1>6. ASSUME NEW c \in Calls, NEW k \in Kinds, NEW file, ItemStarted(c, k, file) PROVE DiffInv'
  <2>1. /\ kind' = [kind EXCEPT ![c] = k]
        /\ target' = [target EXCEPT ![c] = IF k = "edit" THEN file ELSE NoFile]
        /\ owner' = [owner EXCEPT ![c] = turn]
        /\ UNCHANGED <<turn, running, diffCard>> /\ running
        /\ edited' = IF k = "edit" THEN edited \cup {<<"file", file>>} ELSE edited
    BY <1>6 DEF ItemStarted, turnVars, RememberEdit
  <2>2. diffCard.turn # turn
    BY <2>1 DEF DiffInv
  <2>3. ASSUME NEW x \in Calls, owner'[x] = turn, kind'[x] = "edit"
        PROVE  <<"file", target'[x]>> \in edited'
    <3>1. CASE x = c
      BY <2>1, <2>3, <3>1 DEF TurnInv
    <3>2. CASE x # c
      BY <2>1, <2>3, <3>2 DEF TurnInv, DiffInv
    <3> QED
      BY <3>1, <3>2
  <2> QED
    BY <2>1, <2>2, <2>3 DEF DiffInv, EditsNotShownTwice
<1>7. ASSUME NEW c \in Calls, NEW status, ItemCompleted(c, status) PROVE DiffInv'
  BY <1>7, DiffKept DEF ItemCompleted, RememberEdit, turnVars
<1>8. ASSUME NEW c \in Calls, NEW k \in Kinds, NEW status, ReplayItem(c, k, status) PROVE DiffInv'
  <2>1. /\ kind' = [kind EXCEPT ![c] = k] /\ UNCHANGED <<turn, running, diffCard, owner, target, edited>>
        /\ owner[c] = 0
    BY <1>8 DEF ReplayItem, turnVars, diffVars, TurnInv
  <2>2. \A x \in Calls : kind'[x] = "edit" => x = c \/ kind[x] = "edit"
    BY <2>1 DEF TurnInv
  <2>3. running => owner[c] # turn
    BY <2>1 DEF TurnInv
  <2>4. diffCard.turn = turn /\ owner[c] = turn => diffCard.shown = {}
    BY <2>1 DEF DiffInv
  <2> QED
    BY <2>1, <2>2, <2>3, <2>4 DEF DiffInv, EditsNotShownTwice
<1>9. ASSUME NEW c \in Calls,
             (\E chunk : CommandOutput(c, chunk)) \/ TerminalInteraction(c) \/ Asked
      PROVE  DiffInv'
  BY <1>9, DiffKept DEF CommandOutput, TerminalInteraction, Asked, turnVars, itemVars, diffVars
<1>10. CASE MessageStep
  BY <1>10, DiffKept DEF MessageStep, AgentText, TurnPlanUpdated, PlanItemCompleted, TurnDiffUpdated,
       DiffUpdated, ShowDiff, DiffCommand, turnVars, itemVars, diffVars
<1>11. CASE UNCHANGED vars
  BY <1>11, DiffKept DEF vars, turnVars, itemVars, diffVars
<1>12. CASE SessionStep
  BY <1>12, <1>1, <1>2, <1>3, <1>4, <1>5 DEF SessionStep
<1>13. ASSUME NEW c \in Calls, ItemStep(c) PROVE DiffInv'
  BY <1>13, <1>6, <1>7, <1>8, <1>9
     DEF ItemStep, CommandApproval, FileChangeApproval, PermissionsApproval, UserInput, Unsupported
<1> QED
  BY <1>10, <1>11, <1>12, <1>13 DEF Next

(* A file the cards of a turn's edits have shown is not shown again by the  *)
(* diff of the turn, unless the workspace is below the root of the          *)
(* repository and the file was deleted or has a namesake in the workspace:  *)
(* then its place is looked up wrongly (diff.rs).                           *)
THEOREM EditsAreShownOnce == Spec => []EditsNotShownTwice
<1>1. TurnInv /\ DiffInv => EditsNotShownTwice
  BY DEF DiffInv
<1> QED
  BY <1>1, TurnInitially, TurnInductive, DiffInitially, DiffInductive, PTL DEF Spec

-----------------------------------------------------------------------------
(* The diffs of earlier turns.                                             *)

Records == [turn : Nat, diff : Diffs]
(* As many of the last elements of a sequence as the limit allows.          *)
IsNewestOf(kept, all, limit) ==
  /\ Len(kept) <= Len(all) /\ Len(kept) <= limit
  /\ Len(kept) < limit => Len(kept) = Len(all)
  /\ \A i \in 1 .. Len(kept) : kept[i] = all[Len(all) - Len(kept) + i]


(* The history holds the newest of the settled diffs, as many as it may,   *)
(* and none of the turn that runs.                                         *)
HistoryInv ==
  /\ latest \in Diffs /\ settled \in Seq(Records) /\ history \in Seq(Records)
  /\ IsNewestOf(history, settled, HistoryLimit)
  /\ running => \A i \in DOMAIN settled : settled[i].turn # turn
  /\ \A i \in DOMAIN settled : settled[i].turn <= turn

(* A report is of files the records change, and leaves out none that only  *)
(* one of them does.                                                       *)
LEMMA ReportsAreComplete ==
  ASSUME NEW R, NEW records \in Seq(R), NEW files \in ReportsOf(records), NEW f
  PROVE  LET Touching == {n \in DOMAIN records : f \in records[n].diff.changed}
         IN /\ f \in files => Touching # {}
            /\ (\E n \in Touching : Touching = {n}) => f \in files
<1> DEFINE changed == UNION {records[n].diff.changed : n \in DOMAIN records}
           Touching(x) == {n \in DOMAIN records : x \in records[n].diff.changed}
           Newer(x) == CHOOSE n \in Touching(x) : \A m \in Touching(x) : m <= n
           mayCancel == {x \in changed : /\ Touching(x) # {Newer(x)}
                                         /\ x \notin records[Newer(x)].diff.gone}
<1>1. PICK cancelled \in SUBSET mayCancel : files = changed \ cancelled
  BY DEF ReportsOf
<1>2. f \in files => Touching(f) # {}
  BY <1>1
<1>3. ASSUME NEW n \in Touching(f), Touching(f) = {n} PROVE f \in files
  <2>1. n <= n
    OBVIOUS
  <2>2. Newer(f) = n
    BY <1>3, <2>1
  <2>3. f \notin mayCancel
    BY <1>3, <2>2
  <2>4. f \in changed
    BY <1>3
  <2> QED
    BY <1>1, <2>3, <2>4
<1> QED
  BY <1>2, <1>3

(* The last n records of the history are the last n of the settled diffs.  *)
LEMMA SelectedAreNewest ==
  ASSUME HistoryInv, NEW n \in 1 .. HistoryLimit
  PROVE  Selected(n) = Newest(n) /\ Newest(n) \in Seq(Records)
<1> DEFINE h == Len(history)
           m == Len(settled)
           k == IF n > h THEN h ELSE n
<1>1. /\ history \in Seq(Records) /\ settled \in Seq(Records) /\ n \in Nat /\ HistoryLimit \in Nat
      /\ h \in Nat /\ m \in Nat /\ h <= m /\ h <= HistoryLimit /\ (h < HistoryLimit => h = m)
      /\ n >= 1 /\ n <= HistoryLimit
  BY DiffAssumption DEF HistoryInv, IsNewestOf
<1>2. \A i \in 1 .. h : history[i] = settled[m - h + i]
  BY DEF HistoryInv, IsNewestOf
<1> HIDE DEF h, m
<1>3. k \in Nat /\ k <= h /\ k <= m
  BY <1>1
<1>4. Selected(n) = SubSeq(history, h - k + 1, h)
  <2>1. (IF n > h THEN 1 ELSE h - n + 1) = h - k + 1
    BY <1>1
  <2>2. Selected(n) = SubSeq(history, IF n > h THEN 1 ELSE h - n + 1, h)
    BY Zenon DEF Selected, h
  <2> HIDE DEF k
  <2> QED
    BY <2>1, <2>2, Zenon
<1>5. n > h => h = m
  BY <1>1
<1>6. n > m <=> n > h
  BY <1>1
<1>7. Newest(n) = SubSeq(settled, m - k + 1, m)
  <2>1. (IF n > m THEN 1 ELSE m - n + 1) = m - k + 1
    BY <1>1, <1>5, <1>6
  <2>2. Newest(n) = SubSeq(settled, IF n > m THEN 1 ELSE m - n + 1, m)
    BY Zenon DEF Newest, m
  <2> HIDE DEF k
  <2> QED
    BY <2>1, <2>2, Zenon
<1> HIDE DEF k
<1>8. SubSeq(history, h - k + 1, h) = [i \in 1 .. k |-> history[h - k + i]]
  BY <1>1, <1>3 DEF h
<1>9. SubSeq(settled, m - k + 1, m) = [i \in 1 .. k |-> settled[m - k + i]]
  BY <1>1, <1>3 DEF m
<1>10. ASSUME NEW i \in 1 .. k PROVE history[h - k + i] = settled[m - k + i]
  <2>1. h - k + i \in 1 .. h /\ m - h + (h - k + i) = m - k + i
    BY <1>1, <1>3
  <2> QED
    BY <1>2, <2>1
<1>11. SubSeq(settled, m - k + 1, m) \in Seq(Records)
  BY <1>1, <1>3 DEF m
<1> QED
  BY <1>4, <1>7, <1>8, <1>9, <1>10, <1>11

(* Trimmed to a limit from its oldest on, the end of a sequence still is    *)
(* the end of it.                                                          *)
LEMMA TrimKeepsNewest ==
  ASSUME NEW S, NEW all \in Seq(S), NEW long \in Seq(S), NEW limit \in Nat, limit >= 1,
         IsNewestOf(long, all, limit + 1)
  PROVE  LET kept == IF Len(long) > limit THEN SubSeq(long, Len(long) - limit + 1, Len(long)) ELSE long
         IN kept \in Seq(S) /\ IsNewestOf(kept, all, limit)
<1>1. CASE Len(long) <= limit
  BY <1>1 DEF IsNewestOf
<1>2. CASE ~(Len(long) <= limit)
  <2>1. Len(long) = limit + 1 /\ Len(long) > limit /\ Len(all) \in Nat /\ limit + 1 <= Len(all)
    BY <1>2 DEF IsNewestOf
  <2> DEFINE tail == SubSeq(long, 2, limit + 1)
  <2>2. tail \in Seq(S) /\ Len(tail) = limit /\ \A i \in 1 .. limit : tail[i] = long[i + 1]
    BY <2>1
  <2>3. SubSeq(long, Len(long) - limit + 1, Len(long)) = tail
    <3>1. Len(long) - limit + 1 = 2
      BY <2>1
    <3> QED
      BY <2>1, <3>1, Zenon
  <2> HIDE DEF tail
  <2>4. ASSUME NEW i \in 1 .. limit PROVE tail[i] = all[Len(all) - limit + i]
    <3>1. i + 1 \in 1 .. limit + 1 /\ Len(all) - (limit + 1) + (i + 1) = Len(all) - limit + i
      BY <2>1
    <3> QED
      BY <2>1, <2>2, <3>1 DEF IsNewestOf
  <2>5. IsNewestOf(tail, all, limit)
    <3> SUFFICES ASSUME NEW i \in 1 .. Len(tail) PROVE tail[i] = all[Len(all) - Len(tail) + i]
      BY <2>1, <2>2 DEF IsNewestOf
    <3>1. i \in 1 .. limit /\ Len(tail) = limit
      BY <2>2
    <3> QED
      BY <2>4, <3>1
  <2> QED
    BY <2>1, <2>2, <2>3, <2>5, Zenon
<1> QED
  BY <1>1, <1>2

(* A settled diff of a new turn is the last of both; what leaves the        *)
(* history is its oldest.                                                  *)
LEMMA RecordedIsNewest ==
  ASSUME HistoryInv, TurnInv, running
  PROVE  \A kept, all :
           /\ kept = Recorded(turn, latest)
           /\ all = Append(settled, [turn |-> turn, diff |-> latest])
           => /\ all \in Seq(Records) /\ kept \in Seq(Records)
              /\ IsNewestOf(kept, all, HistoryLimit)
              /\ \A i \in DOMAIN all : all[i].turn <= turn
<1> TAKE kept, all
<1> DEFINE h == Len(history)
           m == Len(settled)
           record == [turn |-> turn, diff |-> latest]
           longer == Append(history, record)
<1>0. SUFFICES ASSUME kept = Recorded(turn, latest), all = Append(settled, record)
      PROVE  /\ all \in Seq(Records) /\ kept \in Seq(Records)
             /\ IsNewestOf(kept, all, HistoryLimit)
             /\ \A i \in DOMAIN all : all[i].turn <= turn
  OBVIOUS
<1>1. /\ history \in Seq(Records) /\ settled \in Seq(Records) /\ HistoryLimit \in Nat /\ HistoryLimit >= 1
      /\ h \in Nat /\ m \in Nat /\ h <= m /\ h <= HistoryLimit /\ (h < HistoryLimit => h = m)
      /\ record \in Records /\ record.turn = turn /\ turn \in Nat
  BY DiffAssumption DEF HistoryInv, IsNewestOf, TurnInv, Records
<1>2. \A i \in 1 .. h : history[i] = settled[m - h + i]
  BY DEF HistoryInv, IsNewestOf
<1>3. \A i \in 1 .. m : settled[i].turn # turn /\ settled[i].turn <= turn
  BY <1>1 DEF HistoryInv
<1> HIDE DEF record
<1>4. /\ longer \in Seq(Records) /\ Len(longer) = h + 1 /\ longer[h + 1] = record
      /\ \A i \in 1 .. h : longer[i] = history[i]
  BY <1>1
<1>5. /\ all \in Seq(Records) /\ Len(all) = m + 1 /\ all[m + 1] = record
      /\ \A i \in 1 .. m : all[i] = settled[i]
  BY <1>0, <1>1
<1>6. \A i \in DOMAIN history : history[i].turn # turn
  <2>1. DOMAIN history = 1 .. h
    BY <1>1
  <2> HIDE DEF h, m
  <2> SUFFICES ASSUME NEW i \in 1 .. h PROVE history[i].turn # turn
    BY <2>1
  <2>2. m - h + i \in 1 .. m
    BY <1>1
  <2>3. history[i] = settled[m - h + i]
    BY <1>2
  <2> QED
    BY <1>3, <2>2, <2>3
<1>7. kept = IF Len(longer) > HistoryLimit
             THEN SubSeq(longer, Len(longer) - HistoryLimit + 1, Len(longer)) ELSE longer
  BY <1>0, <1>6 DEF Recorded, record
<1> HIDE DEF longer, h, m
<1>8. \A i \in 1 .. h + 1 : longer[i] = all[m - h + i]
  <2> SUFFICES ASSUME NEW i \in 1 .. h + 1 PROVE longer[i] = all[m - h + i]
    OBVIOUS
  <2>1. CASE i = h + 1
    <3>1. m - h + i = m + 1
      BY <1>1, <2>1
    <3> QED
      BY <2>1, <3>1, <1>4, <1>5
  <2>2. CASE i # h + 1
    <3>1. i \in 1 .. h /\ m - h + i \in 1 .. m
      BY <1>1, <2>2
    <3> QED
      BY <3>1, <1>2, <1>4, <1>5
  <2> QED
    BY <2>1, <2>2
<1>9. \A i \in DOMAIN all : all[i].turn <= turn
  <2> SUFFICES ASSUME NEW i \in 1 .. m + 1 PROVE all[i].turn <= turn
    BY <1>5
  <2>1. i \in 1 .. m \/ i = m + 1
    BY <1>1
  <2> QED
    BY <2>1, <1>1, <1>3, <1>5
<1>10. IsNewestOf(longer, all, HistoryLimit + 1)
  <2>1. /\ Len(longer) = h + 1 /\ Len(all) = m + 1
        /\ Len(longer) <= Len(all) /\ Len(longer) <= HistoryLimit + 1
        /\ Len(longer) < HistoryLimit + 1 => Len(longer) = Len(all)
    BY <1>1, <1>4, <1>5
  <2> SUFFICES ASSUME NEW i \in 1 .. Len(longer) PROVE longer[i] = all[Len(all) - Len(longer) + i]
    BY <2>1 DEF IsNewestOf
  <2>2. i \in 1 .. h + 1 /\ m - h + i = Len(all) - Len(longer) + i
    BY <1>1, <2>1
  <2> QED
    BY <1>8, <2>2
<1>11. longer \in Seq(Records) /\ all \in Seq(Records) /\ HistoryLimit \in Nat /\ HistoryLimit >= 1
  BY <1>1, <1>4, <1>5
<1>12. kept \in Seq(Records) /\ IsNewestOf(kept, all, HistoryLimit)
  BY <1>7, <1>10, <1>11, TrimKeepsNewest
<1> QED
  BY <1>5, <1>9, <1>12, Zenon

LEMMA HistoryInitially == Init => HistoryInv /\ DiffShowsNewest
<1> SUFFICES ASSUME Init PROVE HistoryInv /\ DiffShowsNewest
  OBVIOUS
<1>1. /\ latest = NoDiff /\ settled = << >> /\ history = << >> /\ report = NoReport /\ ~running
  BY DEF Init, DiffInit
<1>2. NoDiff \in Diffs
  BY DEF NoDiff, Diffs
<1>3. HistoryInv
  BY <1>1, <1>2, DiffAssumption DEF HistoryInv, IsNewestOf
<1>4. DiffShowsNewest
  BY <1>1 DEF DiffShowsNewest
<1> QED
  BY <1>3, <1>4

\* What the steps that settle and report nothing leave alone.
settledDiffs == <<latest, settled, history, turn>>

LEMMA HistoryInductive == TurnInv /\ HistoryInv /\ [Next]_vars => HistoryInv'
<1> SUFFICES ASSUME TurnInv, HistoryInv, [Next]_vars PROVE HistoryInv'
  OBVIOUS
<1> USE DEF settledDiffs
<1>1. ASSUME UNCHANGED settledDiffs, running' => running PROVE HistoryInv'
  BY <1>1 DEF HistoryInv
<1>2. ASSUME NEW m, SetMode(m) PROVE HistoryInv'
  BY <1>1, <1>2 DEF SetMode, turnVars, diffVars
<1>3. ASSUME NEW m, BeginTurn(m) PROVE HistoryInv'
  <2>1. turn' = turn + 1 /\ latest' = NoDiff /\ UNCHANGED <<settled, history>>
    BY <1>3 DEF BeginTurn, DiffForgotten
  <2>2. NoDiff \in Diffs /\ turn \in Nat
    BY DEF NoDiff, Diffs, TurnInv
  <2>3. \A i \in DOMAIN settled : settled[i].turn \in Nat
    <3>1. \A i \in DOMAIN settled : settled[i] \in Records
      BY DEF HistoryInv
    <3> QED
      BY <3>1 DEF Records
  <2>4. \A i \in DOMAIN settled : settled[i].turn # turn + 1 /\ settled[i].turn <= turn + 1
    BY <2>2, <2>3 DEF HistoryInv
  <2> QED
    BY <2>1, <2>2, <2>4 DEF HistoryInv
<1>4. ASSUME NEW t \in 1 .. turn, NEW reason \in Reasons, TurnCompleted(t, reason) PROVE HistoryInv'
  <2>1. NoDiff \in Diffs
    BY DEF NoDiff, Diffs
  <2>2. CASE t # turn \/ lastCompleted = t
    BY <1>1, <1>4, <2>2 DEF TurnCompleted, turnVars, diffVars
  <2>3. CASE ~(t # turn \/ lastCompleted = t)
    <3>1. /\ running' = FALSE /\ latest' = NoDiff /\ turn' = turn
          /\ history' = (IF latest = NoDiff THEN history ELSE Recorded(t, latest))
          /\ settled' = (IF latest = NoDiff THEN settled ELSE Append(settled, [turn |-> t, diff |-> latest]))
      BY <1>4, <2>3 DEF TurnCompleted, FinalizeDiff
    <3>2. CASE latest = NoDiff
      BY <2>1, <3>1, <3>2 DEF HistoryInv
    <3>3. CASE latest # NoDiff
      <4>1. running /\ t \in Nat /\ t = turn
        BY <2>3, <3>3 DEF TurnInv
      <4>2. history' = Recorded(turn, latest) /\ settled' = Append(settled, [turn |-> turn, diff |-> latest])
        BY <3>1, <3>3, <4>1
      <4>3. /\ settled' \in Seq(Records) /\ history' \in Seq(Records)
            /\ IsNewestOf(history', settled', HistoryLimit)
            /\ \A i \in DOMAIN settled' : settled'[i].turn <= turn
        BY <4>1, <4>2, RecordedIsNewest, Zenon
      <4> QED
        BY <2>1, <3>1, <4>3 DEF HistoryInv
    <3> QED
      BY <3>2, <3>3
  <2> QED
    BY <2>2, <2>3
<1>5. CASE FinishTurn
  BY <1>1, <1>5 DEF FinishTurn, diffVars
<1>6. ASSUME NEW yes, OfferImplementation(yes) PROVE HistoryInv'
  BY <1>1, <1>6 DEF OfferImplementation, diffVars
<1>7. CASE ThreadSwitched
  <2>1. /\ latest' = NoDiff /\ settled' = << >> /\ history' = << >>
    BY <1>7 DEF ThreadSwitched, HistoryForgotten
  <2>2. NoDiff \in Diffs
    BY DEF NoDiff, Diffs
  <2> QED
    BY <2>1, <2>2, DiffAssumption DEF HistoryInv, IsNewestOf
<1>8. ASSUME NEW c, NEW k, NEW file, ItemStarted(c, k, file) PROVE HistoryInv'
  BY <1>1, <1>8 DEF ItemStarted, turnVars
<1>9. ASSUME NEW c, NEW status, ItemCompleted(c, status) PROVE HistoryInv'
  BY <1>1, <1>9 DEF ItemCompleted, turnVars
<1>10. ASSUME NEW c, NEW k, NEW status, ReplayItem(c, k, status) PROVE HistoryInv'
  BY <1>1, <1>10 DEF ReplayItem, turnVars, diffVars
<1>11. ASSUME NEW c, NEW chunk, CommandOutput(c, chunk) PROVE HistoryInv'
  BY <1>1, <1>11 DEF CommandOutput, turnVars, diffVars
<1>12. ASSUME NEW c, TerminalInteraction(c) PROVE HistoryInv'
  BY <1>1, <1>12 DEF TerminalInteraction, turnVars, diffVars
<1>13. ASSUME Asked PROVE HistoryInv'
  BY <1>1, <1>13 DEF Asked, turnVars, diffVars
<1>14. CASE AgentText \/ \E plan \in ServerPlans : TurnPlanUpdated(plan)
  BY <1>1, <1>14 DEF AgentText, TurnPlanUpdated, turnVars, diffVars
<1>15. ASSUME NEW text, PlanItemCompleted(text) PROVE HistoryInv'
  BY <1>1, <1>15 DEF PlanItemCompleted, turnVars, diffVars
<1>16. ASSUME NEW diff \in TurnDiffs, TurnDiffUpdated(diff) PROVE HistoryInv'
  <2>1. latest' \in Diffs /\ UNCHANGED <<running, turn, settled, history>>
    BY <1>16, MessagesAssumption DEF TurnDiffUpdated, DiffUpdated, turnVars
  <2> QED
    BY <2>1 DEF HistoryInv
<1>17. ASSUME NEW n, ShowDiff(n) PROVE HistoryInv'
  BY <1>1, <1>17 DEF ShowDiff, DiffCommand, turnVars, diffVars
<1>18. CASE UNCHANGED vars
  BY <1>1, <1>18 DEF vars, turnVars, diffVars
<1>19. CASE SessionStep
  BY <1>19, <1>2, <1>3, <1>4, <1>5, <1>6, <1>7 DEF SessionStep
<1>20. CASE MessageStep
  BY <1>20, <1>14, <1>15, <1>16, <1>17 DEF MessageStep
<1>21. ASSUME NEW c \in Calls, ItemStep(c) PROVE HistoryInv'
  BY <1>21, <1>8, <1>9, <1>10, <1>11, <1>12, <1>13
     DEF ItemStep, CommandApproval, FileChangeApproval, PermissionsApproval, UserInput, Unsupported
<1> QED
  BY <1>18, <1>19, <1>20, <1>21 DEF Next

LEMMA ReportInductive == HistoryInv /\ DiffShowsNewest /\ [Next]_vars => DiffShowsNewest'
<1> SUFFICES ASSUME HistoryInv, DiffShowsNewest, [Next]_vars PROVE DiffShowsNewest'
  OBVIOUS
<1>1. ASSUME report' = NoReport PROVE DiffShowsNewest'
  BY <1>1 DEF DiffShowsNewest
<1>2. ASSUME NEW n \in 1 .. HistoryLimit, ShowDiff(n) PROVE DiffShowsNewest'
  <2>1. PICK files \in ReportsOf(Selected(n)) : report' = [last |-> n, files |-> files]
    BY <1>2 DEF ShowDiff, DiffCommand
  <2>2. settled' = settled
    BY <1>2 DEF ShowDiff
  <2>3. report'.last = n /\ report'.files = files
    BY <2>1
  <2>4. Newest(n)' = Newest(n)
    BY <2>2 DEF Newest
  <2>5. files \in ReportsOf(Newest(n)) /\ Newest(n) \in Seq(Records)
    BY SelectedAreNewest
  <2> DEFINE Touching(f) == {i \in DOMAIN Newest(n) : f \in Newest(n)[i].diff.changed}
  <2>6. \A f \in Files : /\ f \in files => Touching(f) # {}
                         /\ (\E i \in Touching(f) : Touching(f) = {i}) => f \in files
    BY <2>5, ReportsAreComplete
  <2> QED
    BY ZenonT(60), <2>2, <2>3, <2>6 DEF DiffShowsNewest, Newest
<1>3. CASE UNCHANGED vars
  <2>1. report' = report /\ settled' = settled
    BY <1>3 DEF vars
  <2>2. \A n : Newest(n)' = Newest(n)
    BY <2>1 DEF Newest
  <2> QED
    BY <2>1, <2>2, Zenon DEF DiffShowsNewest
<1>4. CASE SessionStep
  BY <1>1, <1>4 DEF SessionStep, SetMode, BeginTurn, TurnCompleted, FinishTurn, OfferImplementation,
                    ThreadSwitched, Quiet
<1>5. CASE MessageStep
  BY <1>1, <1>2, <1>5 DEF MessageStep, AgentText, TurnPlanUpdated, PlanItemCompleted, TurnDiffUpdated, Quiet
<1>6. ASSUME NEW c \in Calls, ItemStep(c) PROVE DiffShowsNewest'
  <2>1. report' = NoReport
    BY <1>6 DEF ItemStep, ItemStarted, ItemCompleted, ReplayItem, CommandOutput, TerminalInteraction, Quiet,
                CommandApproval, FileChangeApproval, PermissionsApproval, UserInput, Unsupported, Asked
  <2> QED
    BY <1>1, <2>1
<1> QED
  BY <1>2, <1>3, <1>4, <1>5, <1>6 DEF Next

(* /diff of the last n turns shows files those turns changed and all that   *)
(* only one of them did, although the records of the history were trimmed  *)
(* as later turns settled theirs (session/diff.rs, turn/diff.rs).          *)
THEOREM ReportsCoverLastTurns == Spec => []DiffShowsNewest
BY TurnInitially, TurnInductive, HistoryInitially, HistoryInductive, ReportInductive, PTL DEF Spec

-----------------------------------------------------------------------------
(* The cards and the turns.                                                *)

(* The calls that have begun and not ended, and the terminals, are of the  *)
(* last turn; only commands have terminals.                                *)
CardInv ==
  /\ CardsTypeOK
  /\ produced \in [Calls -> Nat] /\ output = [c \in Calls |-> output[c]]
  /\ \A c \in started : owner[c] = turn /\ life[c] # "new"
  /\ \A c \in terminals : kind[c] \in CommandKinds

\* What is shown of an output are chunks of it.
LEMMA PreviewsAreChunks ==
  ASSUME NEW n \in Nat
  PROVE  AllChunks(n) \in Seq(Nat) /\ Preview(n) \in Seq(Nat)
<1>1. \A m \in Nat : AllChunks(m) \in Seq(Nat)
  BY DEF AllChunks
<1>2. ASSUME n > HeadLines + TailLines
      PROVE  [k \in 1 .. TailLines |-> n - TailLines + k] \in Seq(Nat)
  BY <1>2, CardsAssumption
<1>3. ASSUME n > HeadLines + TailLines PROVE Preview(n) \in Seq(Nat)
  <2>1. AllChunks(HeadLines) \in Seq(Nat)
    BY <1>1, CardsAssumption
  <2> DEFINE tail == [k \in 1 .. TailLines |-> n - TailLines + k]
  <2>2. tail \in Seq(Nat)
    BY <1>2, <1>3
  <2>3. Preview(n) = AllChunks(HeadLines) \o tail
    BY <1>3, CardsAssumption DEF Preview
  <2> HIDE DEF tail
  <2> QED
    BY <2>1, <2>2, <2>3
<1> QED
  BY <1>1, <1>3, CardsAssumption DEF Preview

LEMMA CardsInitially == Init => CardInv
<1> SUFFICES ASSUME Init PROVE CardInv
  OBVIOUS
<1>1. << >> \in Seq(Nat)
  OBVIOUS
<1> QED
  BY <1>1 DEF Init, CardsInit, CardInv, CardsTypeOK

\* Steps that leave the items that have begun, the turn and the cards alone.
LEMMA CardsUntouched ==
  ASSUME TurnInv, CardInv, UNCHANGED <<cardVars, turn, owner, kind, life, produced>>
  PROVE  CardInv'
  BY DEF CardInv, CardsTypeOK, cardVars

\* The turn's calls are forgotten with it.
LEMMA CardsOfTurnForgotten ==
  ASSUME CardInv, CardsForgotten, UNCHANGED produced
  PROVE  CardInv'
  BY DEF CardInv, CardsTypeOK, CardsForgotten

(* A step that changes the card of one call, the output of it and which    *)
(* calls have begun.                                                       *)
LEMMA CardsKeepTypes ==
  ASSUME CardInv, NEW c \in Calls, NEW s \in Statuses \cup {"none", "pending"},
         card' = card \/ card' = [card EXCEPT ![c] = s],
         NEW o \in Seq(Nat), output' = output \/ output' = [output EXCEPT ![c] = o]
  PROVE  /\ card' \in [Calls -> Statuses \cup {"none", "pending"}]
         /\ \A x \in Calls : output'[x] \in Seq(Nat)
         /\ output' = [x \in Calls |-> output'[x]]
         /\ \A x \in Calls \ {c} : card'[x] = card[x] /\ output'[x] = output[x]
<1>1. card \in [Calls -> Statuses \cup {"none", "pending"}] /\ output = [x \in Calls |-> output[x]]
      /\ \A x \in Calls : output[x] \in Seq(Nat)
  BY DEF CardInv, CardsTypeOK
<1>2. /\ card' \in [Calls -> Statuses \cup {"none", "pending"}]
      /\ \A x \in Calls \ {c} : card'[x] = card[x]
  BY <1>1
<1>3. output' = [x \in Calls |-> output'[x]] /\ \A x \in Calls \ {c} : output'[x] = output[x]
  BY <1>1
<1>4. output'[c] \in {output[c], o}
  BY <1>1
<1> QED
  BY <1>1, <1>2, <1>3, <1>4

(* One item at a time: what each step of it does to the cards.             *)
LEMMA StartedKeepsCards ==
  ASSUME TurnInv, CardInv, NEW c \in Calls, NEW k \in Kinds, NEW file, ItemStarted(c, k, file)
  PROVE  CardInv' /\ \A x \in Calls \ {c} : card'[x] = card[x] /\ output'[x] = output[x]
<1>1. /\ life[c] = "new" /\ life' = [life EXCEPT ![c] = "open"] /\ owner' = [owner EXCEPT ![c] = turn]
      /\ kind' = [kind EXCEPT ![c] = k] /\ turn' = turn /\ CardStarts(c, k, file)
      /\ \E n \in {0} \cup Batches(k) : produced' = [produced EXCEPT ![c] = n]
  BY DEF ItemStarted, turnVars
<1>2. PICK s \in Statuses : card' = [card EXCEPT ![c] = s]
  BY <1>1, CardOfStarted
<1>3. /\ started' \in {started, started \cup {c}} /\ terminals' \in {terminals, terminals \cup {c}}
      /\ k \notin CommandKinds => terminals' = terminals
      /\ k \in CommandKinds => started' = started \cup {c}
      /\ outputSeen' = outputSeen /\ output' = output
  BY <1>1, CardOfStarted, KindsOfCommands
<1>4. /\ card' \in [Calls -> Statuses \cup {"none", "pending"}]
      /\ \A x \in Calls : output'[x] \in Seq(Nat)
      /\ output' = [x \in Calls |-> output'[x]]
      /\ \A x \in Calls \ {c} : card'[x] = card[x] /\ output'[x] = output[x]
  <2>1. << >> \in Seq(Nat)
    OBVIOUS
  <2> QED
    BY <1>2, <1>3, <2>1, CardsKeepTypes
<1>5. produced' \in [Calls -> Nat]
  BY <1>1, ItemsAssumption DEF CardInv, Batches
<1>6. c \notin started /\ started' \subseteq Calls /\ terminals' \subseteq started' /\ outputSeen' \subseteq terminals'
      /\ covered' \subseteq Calls
  <2>1. covered' \subseteq covered
    BY <1>1, CardOfStarted
  <2> QED
    BY <1>1, <1>3, <2>1 DEF CardInv, CardsTypeOK
<1>7. \A x \in Calls \ {c} : owner'[x] = owner[x] /\ life'[x] = life[x] /\ kind'[x] = kind[x]
  BY <1>1 DEF TurnInv
<1>8. owner'[c] = turn /\ life'[c] = "open" /\ kind'[c] = k
  BY <1>1 DEF TurnInv
<1>9. (\A x \in started' : owner'[x] = turn' /\ life'[x] # "new")
      /\ \A x \in terminals' : kind'[x] \in CommandKinds
  BY <1>1, <1>3, <1>6, <1>7, <1>8 DEF CardInv, CardsTypeOK
<1> QED
  BY <1>4, <1>5, <1>6, <1>9 DEF CardInv, CardsTypeOK

(* The end of an item draws on cards of its turn only.                      *)
LEMMA CompletedKeepsCards ==
  ASSUME TurnInv, CardInv, NEW c \in Calls, NEW status, ItemCompleted(c, status)
  PROVE  CardInv' /\ \A x \in Calls : owner[x] # turn => card'[x] = card[x] /\ output'[x] = output[x]
<1>1. /\ life[c] = "open" /\ life' = [life EXCEPT ![c] = "closed"] /\ kind[c] \in Kinds
      /\ UNCHANGED <<turn, owner, kind, produced>>
  BY DEF ItemCompleted, turnVars, TurnInv
<1>2. \A x \in Calls : life'[x] # "new" <=> life[x] # "new"
  BY <1>1 DEF TurnInv
<1>3. CASE ~Expected(c)
  <2>1. UNCHANGED cardVars
    BY <1>3 DEF ItemCompleted
  <2> QED
    BY <1>1, <1>2, <2>1 DEF CardInv, CardsTypeOK, cardVars
<1>4. CASE Expected(c)
  <2>1. CardEnds(c, status) /\ owner[c] = turn
    BY <1>4 DEF ItemCompleted, Expected
  <2>2. PICK s \in Statuses : card' = card \/ card' = [card EXCEPT ![c] = s]
    BY <1>1, <2>1, CardOfEnded DEF Statuses
  <2>3. CompletedOutput(c, produced[c]) \in Seq(Nat)
    <3>1. produced[c] \in Nat /\ output[c] \in Seq(Nat)
      BY DEF CardInv, CardsTypeOK
    <3>2. AllChunks(produced[c]) \in Seq(Nat) /\ Preview(produced[c]) \in Seq(Nat)
      BY <3>1, PreviewsAreChunks
    <3> QED
      BY <3>1, <3>2 DEF CompletedOutput
  <2>4. /\ started' \in {started, started \ {c}} /\ terminals' \in {terminals, terminals \ {c}}
        /\ kind[c] \in CommandKinds => terminals' = terminals \ {c} /\ outputSeen' = outputSeen \ {c}
        /\ kind[c] \notin CommandKinds => terminals' = terminals /\ outputSeen' = outputSeen
        /\ output' = output \/ output' = [output EXCEPT ![c] = CompletedOutput(c, produced[c])]
    BY <1>1, <2>1, CardOfEnded
  <2>5. /\ card' \in [Calls -> Statuses \cup {"none", "pending"}]
        /\ \A x \in Calls : output'[x] \in Seq(Nat)
        /\ output' = [x \in Calls |-> output'[x]]
        /\ \A x \in Calls \ {c} : card'[x] = card[x] /\ output'[x] = output[x]
    BY <2>2, <2>3, <2>4, CardsKeepTypes
  <2>6. started' \subseteq Calls /\ terminals' \subseteq started' /\ outputSeen' \subseteq terminals'
        /\ covered' \subseteq Calls
    <3>1. covered' \subseteq covered
      BY <1>1, <2>1, CardOfEnded
    <3> QED
      BY <2>4, <3>1 DEF CardInv, CardsTypeOK
  <2>7. (\A x \in started' : owner'[x] = turn' /\ life'[x] # "new")
        /\ \A x \in terminals' : kind'[x] \in CommandKinds
    BY <1>1, <1>2, <2>4 DEF CardInv, CardsTypeOK
  <2>8. CardInv'
    BY <1>1, <2>5, <2>6, <2>7 DEF CardInv, CardsTypeOK
  <2> QED
    BY <2>1, <2>5, <2>8
<1> QED
  BY <1>3, <1>4

(* A replayed item draws on its own card only.                              *)
LEMMA ReplayedKeepsCards ==
  ASSUME TurnInv, CardInv, NEW c \in Calls, NEW k \in Kinds, NEW status, ReplayItem(c, k, status)
  PROVE  CardInv' /\ \A x \in Calls \ {c} : card'[x] = card[x] /\ output'[x] = output[x]
<1>1. /\ life[c] = "new" /\ life' = [life EXCEPT ![c] = "closed"] /\ kind' = [kind EXCEPT ![c] = k]
      /\ produced' = [produced EXCEPT ![c] = MaxChunks] /\ CardReplays(c, k, status)
      /\ turn' = turn /\ owner' = owner
  BY DEF ReplayItem, turnVars
<1>2. PICK s \in Statuses : card' = [card EXCEPT ![c] = s]
  BY <1>1, CardOfReplayed
<1>3. UNCHANGED <<started, terminals, outputSeen>> /\ covered' \subseteq covered
  BY <1>1, CardOfReplayed
<1>4. PICK o \in Seq(Nat) : output' = output \/ output' = [output EXCEPT ![c] = o]
  <2>1. AllChunks(MaxChunks) \in Seq(Nat) /\ Preview(MaxChunks) \in Seq(Nat)
    BY ItemsAssumption, PreviewsAreChunks
  <2> QED
    BY <1>1, <2>1, CardOfReplayed
<1>5. /\ card' \in [Calls -> Statuses \cup {"none", "pending"}]
      /\ \A x \in Calls : output'[x] \in Seq(Nat)
      /\ output' = [x \in Calls |-> output'[x]]
      /\ \A x \in Calls \ {c} : card'[x] = card[x] /\ output'[x] = output[x]
  BY <1>2, <1>4, CardsKeepTypes
<1>6. produced' \in [Calls -> Nat]
  BY <1>1, ItemsAssumption DEF CardInv
<1>7. c \notin started
  BY <1>1 DEF CardInv
<1>8. \A x \in Calls \ {c} : life'[x] = life[x] /\ kind'[x] = kind[x]
  BY <1>1 DEF TurnInv
<1>9. (\A x \in started' : owner'[x] = turn' /\ life'[x] # "new")
      /\ \A x \in terminals' : kind'[x] \in CommandKinds
  BY <1>1, <1>3, <1>7, <1>8 DEF CardInv, CardsTypeOK
<1> QED
  BY <1>3, <1>5, <1>6, <1>9 DEF CardInv, CardsTypeOK

(* Output is drawn on cards of its turn only.                               *)
LEMMA OutputKeepsCards ==
  ASSUME TurnInv, CardInv, NEW c \in Calls, NEW chunk \in 0 .. MaxChunks, CommandOutput(c, chunk)
  PROVE  CardInv' /\ \A x \in Calls : owner[x] # turn => card'[x] = card[x] /\ output'[x] = output[x]
<1>1. /\ OutputDelta(c, chunk) /\ UNCHANGED <<turn, life, owner, kind>>
      /\ produced' = (IF chunk = 0 THEN produced ELSE [produced EXCEPT ![c] = chunk])
      /\ kind[c] \in CommandKinds
  BY DEF CommandOutput, turnVars
<1>2. chunk \in Nat
  BY ItemsAssumption
<1>3. produced' \in [Calls -> Nat]
  BY <1>1, <1>2 DEF CardInv
<1>4. CASE c \notin started
  <2>1. UNCHANGED cardVars
    BY <1>1, <1>4 DEF OutputDelta
  <2> QED
    BY <1>1, <1>3, <2>1 DEF CardInv, CardsTypeOK, cardVars
<1>5. CASE c \in started
  <2>1. PICK o \in Seq(Nat) : output' = [output EXCEPT ![c] = o]
    <3>1. output[c] \in Seq(Nat) /\ << >> \in Seq(Nat)
      BY DEF CardInv, CardsTypeOK
    <3>2. \A old \in Seq(Nat) : (IF chunk = 0 THEN old ELSE Append(old, chunk)) \in Seq(Nat)
      BY <1>2
    <3> QED
      BY <1>1, <1>5, <3>1, <3>2 DEF OutputDelta
  <2>2. /\ outputSeen' \in {outputSeen, outputSeen \cup {c}} /\ (c \notin terminals => outputSeen' = outputSeen)
        /\ UNCHANGED <<started, terminals, card>> /\ covered' \subseteq covered
    BY <1>1, <1>5 DEF OutputDelta
  <2>3. /\ card' \in [Calls -> Statuses \cup {"none", "pending"}]
        /\ \A x \in Calls : output'[x] \in Seq(Nat)
        /\ output' = [x \in Calls |-> output'[x]]
        /\ \A x \in Calls \ {c} : card'[x] = card[x] /\ output'[x] = output[x]
    BY <2>1, <2>2, CardsKeepTypes DEF Statuses
  <2>4. owner[c] = turn
    BY <1>5 DEF CardInv
  <2>5. outputSeen' \subseteq terminals'
    BY <2>2 DEF CardInv, CardsTypeOK
  <2>6. CardInv'
    BY <1>1, <1>3, <2>2, <2>3, <2>5 DEF CardInv, CardsTypeOK
  <2> QED
    BY <2>3, <2>4, <2>6
<1> QED
  BY <1>4, <1>5

(* What is typed is drawn on cards of its turn only.                        *)
LEMMA TypedKeepsCards ==
  ASSUME TurnInv, CardInv, NEW c \in Calls, TerminalInteraction(c)
  PROVE  CardInv' /\ \A x \in Calls : owner[x] # turn => card'[x] = card[x] /\ output'[x] = output[x]
<1>1. /\ c \in terminals /\ output' = [output EXCEPT ![c] = Append(output[c], 0)]
      /\ UNCHANGED <<started, terminals, outputSeen, card, covered, turn, life, owner, kind, produced>>
  BY DEF TerminalInteraction, turnVars, itemVars
<1>2. Append(output[c], 0) \in Seq(Nat) /\ owner[c] = turn
  BY <1>1 DEF CardInv, CardsTypeOK
<1>3. /\ card' \in [Calls -> Statuses \cup {"none", "pending"}]
      /\ \A x \in Calls : output'[x] \in Seq(Nat)
      /\ output' = [x \in Calls |-> output'[x]]
      /\ \A x \in Calls \ {c} : card'[x] = card[x] /\ output'[x] = output[x]
  BY <1>1, <1>2, CardsKeepTypes DEF Statuses
<1> QED
  BY <1>1, <1>2, <1>3 DEF CardInv, CardsTypeOK

(* A dialog is drawn on cards of its turn, or of no item, only.             *)
LEMMA DialogKeepsCards ==
  ASSUME TurnInv, CardInv, NEW c \in Calls, CardAsked(c), Asked
  PROVE  /\ CardInv'
         /\ \A x \in Calls : owner[x] \notin {0, turn} => card'[x] = card[x] /\ output'[x] = output[x]
<1>1. UNCHANGED <<turn, life, owner, kind, produced>>
  BY DEF Asked, turnVars, itemVars
<1>2. owner[c] \in {0, turn}
  BY CardOfDialog DEF TurnInv
<1>3. PICK s \in Statuses \cup {"none", "pending"} : card' = card \/ card' = [card EXCEPT ![c] = s]
  BY CardOfDialog DEF Statuses
<1>4. /\ UNCHANGED <<started, terminals, outputSeen, output>>
      /\ covered' \in {covered, covered \ {c}, covered \cup {c}}
  BY CardOfDialog
<1>5. << >> \in Seq(Nat)
  OBVIOUS
<1>6. /\ card' \in [Calls -> Statuses \cup {"none", "pending"}]
      /\ \A x \in Calls : output'[x] \in Seq(Nat)
      /\ output' = [x \in Calls |-> output'[x]]
      /\ \A x \in Calls \ {c} : card'[x] = card[x] /\ output'[x] = output[x]
  BY <1>3, <1>4, <1>5, CardsKeepTypes
<1>7. covered' \subseteq Calls
  BY <1>4 DEF CardInv, CardsTypeOK
<1> QED
  BY <1>1, <1>2, <1>4, <1>6, <1>7 DEF CardInv, CardsTypeOK

(* What a step may do to the cards.                                        *)
LEMMA CardsInductive ==
  TurnInv /\ CardInv /\ [Next]_vars
    => /\ CardInv'
       /\ \A c \in Calls : owner[c] \notin {0, turn} => card'[c] = card[c] /\ output'[c] = output[c]
<1> DEFINE Kept == \A c \in Calls : owner[c] \notin {0, turn} => card'[c] = card[c] /\ output'[c] = output[c]
<1> SUFFICES ASSUME TurnInv, CardInv, [Next]_vars PROVE CardInv' /\ Kept
  OBVIOUS
<1>1. ASSUME UNCHANGED <<cardVars, itemVars, turn>> PROVE CardInv' /\ Kept
  BY <1>1, CardsUntouched DEF cardVars, itemVars
<1>2. ASSUME NEW m, SetMode(m) PROVE CardInv' /\ Kept
  BY <1>1, <1>2 DEF SetMode, turnVars
<1>3. ASSUME NEW m, BeginTurn(m) PROVE CardInv' /\ Kept
  BY <1>3, CardsOfTurnForgotten DEF BeginTurn, itemVars, CardsForgotten
<1>4. ASSUME NEW t, NEW reason, TurnCompleted(t, reason) PROVE CardInv' /\ Kept
  BY <1>1, <1>4 DEF TurnCompleted, turnVars
<1>5. CASE FinishTurn
  BY <1>1, <1>5 DEF FinishTurn
<1>6. ASSUME NEW yes, OfferImplementation(yes) PROVE CardInv' /\ Kept
  BY <1>1, <1>6 DEF OfferImplementation
<1>7. CASE ThreadSwitched
  BY <1>7, CardsOfTurnForgotten DEF ThreadSwitched, itemVars, CardsForgotten
<1>8. ASSUME NEW c \in Calls, NEW k \in Kinds, NEW file, ItemStarted(c, k, file) PROVE CardInv' /\ Kept
  <2>1. owner[c] = 0
    BY <1>8 DEF ItemStarted, TurnInv
  <2> QED
    BY <1>8, <2>1, StartedKeepsCards
<1>9. ASSUME NEW c \in Calls, NEW status, ItemCompleted(c, status) PROVE CardInv' /\ Kept
  BY <1>9, CompletedKeepsCards
<1>10. ASSUME NEW c \in Calls, NEW k \in Kinds, NEW status, ReplayItem(c, k, status) PROVE CardInv' /\ Kept
  <2>1. owner[c] = 0
    BY <1>10 DEF ReplayItem, TurnInv
  <2> QED
    BY <1>10, <2>1, ReplayedKeepsCards
<1>11. ASSUME NEW c \in Calls, NEW chunk \in 0 .. MaxChunks, CommandOutput(c, chunk) PROVE CardInv' /\ Kept
  BY <1>11, OutputKeepsCards
<1>12. ASSUME NEW c \in Calls, TerminalInteraction(c) PROVE CardInv' /\ Kept
  BY <1>12, TypedKeepsCards
<1>13. ASSUME NEW c \in Calls, CardAsked(c), Asked PROVE CardInv' /\ Kept
  BY <1>13, DialogKeepsCards
<1>14. CASE AgentText \/ \E plan \in ServerPlans : TurnPlanUpdated(plan)
  BY <1>1, <1>14 DEF AgentText, TurnPlanUpdated, turnVars
<1>15. ASSUME NEW text, PlanItemCompleted(text) PROVE CardInv' /\ Kept
  BY <1>1, <1>15 DEF PlanItemCompleted, turnVars
<1>16. ASSUME NEW diff, TurnDiffUpdated(diff) PROVE CardInv' /\ Kept
  BY <1>1, <1>16 DEF TurnDiffUpdated, turnVars
<1>17. ASSUME NEW n, ShowDiff(n) PROVE CardInv' /\ Kept
  BY <1>1, <1>17 DEF ShowDiff, turnVars
<1>18. CASE UNCHANGED vars
  BY <1>1, <1>18 DEF vars, turnVars
<1>19. CASE SessionStep
  BY <1>19, <1>2, <1>3, <1>4, <1>5, <1>6, <1>7 DEF SessionStep
<1>20. CASE MessageStep
  BY <1>20, <1>14, <1>15, <1>16, <1>17 DEF MessageStep
<1>21. ASSUME NEW c \in Calls, ItemStep(c) PROVE CardInv' /\ Kept
  BY <1>21, <1>8, <1>9, <1>10, <1>11, <1>12, <1>13, RequestsAreDialogs DEF ItemStep
<1> QED
  BY <1>18, <1>19, <1>20, <1>21 DEF Next

(* The end of a call, its output and what is typed into it leave the card  *)
(* alone once another turn runs: the handlers of output look at the call   *)
(* alone (terminal_updates.rs), and it is what the turn resets that they   *)
(* rely on.                                                                *)
THEOREM LateItemsLeaveCards == Spec => LateItemsIgnored
<1>1. TurnInv /\ CardInv /\ [Next]_vars
        => [active => \A c \in Calls : owner[c] \notin {0, turn}
                        => card'[c] = card[c] /\ output'[c] = output[c]]_vars
  BY CardsInductive
<1> QED
  BY <1>1, TurnInitially, TurnInductive, CardsInitially, CardsInductive, PTL DEF Spec, LateItemsIgnored

-----------------------------------------------------------------------------
(* The plan.                                                               *)

Begun == {"Planning", "Implementing", "Verifying", "Summarizing"}

(* The phases of the fallback plan in their order.                          *)
LEMMA PhasesAndRanks ==
  /\ Range(Phases) = Begun \cup {"Done"}
  /\ Rank("Planning") = 1 /\ Rank("Implementing") = 2 /\ Rank("Verifying") = 3
  /\ Rank("Summarizing") = 4 /\ Rank("Done") = 5
<1>1. /\ Phases[1] = "Planning" /\ Phases[2] = "Implementing" /\ Phases[3] = "Verifying"
      /\ Phases[4] = "Summarizing" /\ Phases[5] = "Done" /\ DOMAIN Phases = 1 .. 5
  BY DEF Phases
<1>2. 1 .. 5 = {1, 2, 3, 4, 5}
  OBVIOUS
<1>3. Range(Phases) = {Phases[1], Phases[2], Phases[3], Phases[4], Phases[5]}
  BY <1>1, <1>2 DEF Range
<1>4. ASSUME NEW i \in 1 .. 5 PROVE Rank(Phases[i]) = i
  <2>1. \A n \in 1 .. 5 : Phases[n] = Phases[i] => n = i
    BY <1>1, <1>2
  <2> QED
    BY <2>1 DEF Rank
<1> QED
  BY <1>1, <1>2, <1>3, <1>4 DEF Begun

\* A step of a plan is begun or over the later the phase.
LEMMA Thirds ==
  ASSUME NEW m \in Nat
  PROVE  m \div 3 \in Nat /\ m \div 3 <= (2 * m) \div 3 /\ (2 * m) \div 3 <= m
  OBVIOUS

(* The step in progress of a later phase is not an earlier one.             *)
LEMMA LaterPhaseIsFurther ==
  ASSUME NEW p \in Begun, NEW q \in Begun, Rank(q) >= Rank(p), NEW steps \in Nat, steps >= 1
  PROVE  /\ InProgressStep(p, steps) \in Nat /\ InProgressStep(q, steps) \in Nat
         /\ InProgressStep(p, steps) <= InProgressStep(q, steps)
<1>1. CASE steps = 1
  BY <1>1 DEF InProgressStep
<1>2. CASE steps # 1
  <2> DEFINE m == steps - 1
             a == m \div 3
             b == (2 * m) \div 3
  <2>1. m \in Nat /\ m >= 1
    BY <1>2
  <2>2. a \in Nat /\ b \in Int /\ a <= b /\ b <= m
    BY <2>1, Thirds
  <2>3. /\ InProgressStep("Planning", steps) = 1
        /\ InProgressStep("Implementing", steps) = 1 + AtLeast(1, a)
        /\ InProgressStep("Verifying", steps) = 1 + AtLeast(1, b)
        /\ InProgressStep("Summarizing", steps) = m + 1
    BY <1>2 DEF InProgressStep
  <2> HIDE DEF a, b, m
  <2>4. /\ AtLeast(1, a) \in Nat /\ AtLeast(1, b) \in Nat
        /\ 1 <= AtLeast(1, a) /\ AtLeast(1, a) <= AtLeast(1, b) /\ AtLeast(1, b) <= m
    BY <2>1, <2>2 DEF AtLeast
  <2> QED
    BY <2>1, <2>3, <2>4, PhasesAndRanks DEF Begun
<1> QED
  BY <1>1, <1>2

\* What a plan may look like.
LEMMA StatusesAreAPlan ==
  ASSUME NEW phase, NEW steps \in Nat
  PROVE  StatusesOf(phase, steps) \in Seq(PlanStatuses) /\ Len(StatusesOf(phase, steps)) = steps
  BY DEF StatusesOf, PlanStatuses

(* What is shown of a plan is a plan, and fits.                             *)
LEMMA ShownIsAPlan ==
  ASSUME NEW plan \in Seq(PlanStatuses)
  PROVE  Shown(plan) \in Seq(PlanStatuses) /\ Len(Shown(plan)) <= MaxVisible
  BY PlanAssumption DEF Shown

\* What is shown of two plans of a length is as long, and shows their first steps.
LEMMA ShownSteps ==
  ASSUME NEW p \in Seq(PlanStatuses), NEW q \in Seq(PlanStatuses), Len(p) = Len(q),
         \A n \in DOMAIN p : StatusRank(p[n]) <= StatusRank(q[n])
  PROVE  \A n \in DOMAIN Shown(p) :
           n \in DOMAIN Shown(q) /\ StatusRank(Shown(p)[n]) <= StatusRank(Shown(q)[n])
<1>1. CASE Len(p) > MaxVisible
  <2>1. /\ Shown(p) = SubSeq(p, 1, MaxVisible) /\ Shown(q) = SubSeq(q, 1, MaxVisible)
    BY <1>1 DEF Shown
  <2>2. /\ DOMAIN SubSeq(p, 1, MaxVisible) = 1 .. MaxVisible
        /\ DOMAIN SubSeq(q, 1, MaxVisible) = 1 .. MaxVisible
        /\ \A n \in 1 .. MaxVisible : /\ SubSeq(p, 1, MaxVisible)[n] = p[n]
                                      /\ SubSeq(q, 1, MaxVisible)[n] = q[n] /\ n \in DOMAIN p
    BY <1>1, PlanAssumption
  <2> QED
    BY <2>1, <2>2
<1>2. CASE ~(Len(p) > MaxVisible)
  BY <1>2 DEF Shown
<1> QED
  BY <1>1, <1>2

(* The statuses of a step in their order.                                   *)
LEMMA RanksOfStatuses ==
  /\ StatusRank("pending") = 0 /\ StatusRank("inProgress") = 1 /\ StatusRank("completed") = 2
  /\ \A s \in PlanStatuses : StatusRank(s) \in 0 .. 2
  BY DEF StatusRank, PlanStatuses

(* In a later phase no step of the fallback plan has an earlier status.     *)
LEMMA LaterStatuses ==
  ASSUME NEW p \in Begun, NEW q \in Begun \cup {"Done"}, Rank(q) >= Rank(p),
         NEW steps \in Nat, steps >= 1, NEW n \in 1 .. steps
  PROVE  StatusRank(StatusesOf(p, steps)[n]) <= StatusRank(StatusesOf(q, steps)[n])
<1>1. CASE q = "Done"
  <2>1. StatusesOf(q, steps)[n] = "completed" /\ StatusesOf(p, steps)[n] \in PlanStatuses
    BY <1>1 DEF StatusesOf, PlanStatuses
  <2> QED
    BY <2>1, RanksOfStatuses
<1>2. CASE q # "Done"
  <2> DEFINE a == InProgressStep(p, steps)
             b == InProgressStep(q, steps)
  <2>1. a \in Nat /\ b \in Nat /\ a <= b
    BY <1>2, LaterPhaseIsFurther
  <2>2. /\ StatusesOf(p, steps)[n] = IF n < a THEN "completed" ELSE IF n = a THEN "inProgress" ELSE "pending"
        /\ StatusesOf(q, steps)[n] = IF n < b THEN "completed" ELSE IF n = b THEN "inProgress" ELSE "pending"
    BY <1>2 DEF StatusesOf, Begun
  <2> HIDE DEF a, b
  <2> QED
    BY <2>1, <2>2, RanksOfStatuses
<1> QED
  BY <1>1, <1>2

(* A fallback plan is of the turn that runs, has been begun and is what     *)
(* the client shows, in its phase; a plan of the server's own rules out     *)
(* one, and a plan item of its turn.                                       *)
PlanShape ==
  /\ fallback \in [turn : Nat, phase : Begun \cup {"Done"}, sawTool : BOOLEAN, steps : Nat]
  /\ planSeen \subseteq Nat /\ planSteps \in Nat /\ carryover \in Nat /\ sawPlan \in BOOLEAN
  /\ visible \in Seq(PlanStatuses) /\ Len(visible) <= MaxVisible
  /\ told \in Seq(PlanStatuses)

PlanInv ==
  /\ PlanShape
  /\ fallback # NoPlan => /\ running /\ fallback.turn = turn
                          /\ fallback.phase \in Begun /\ fallback.steps >= 1
                          /\ visible = Shown(StatusesOf(fallback.phase, fallback.steps))
  /\ told # << >> => /\ fallback = NoPlan /\ (running => turn \in planSeen)
                     /\ running \/ lastCompleted = turn
  /\ ServerPlanShown

LEMMA PlanInitially == Init => PlanInv
<1> SUFFICES ASSUME Init PROVE PlanInv
  OBVIOUS
<1>1. << >> \in Seq(PlanStatuses) /\ Len(<< >>) = 0
  OBVIOUS
<1>2. NoPlan \in [turn : Nat, phase : Begun \cup {"Done"}, sawTool : BOOLEAN, steps : Nat]
  BY DEF NoPlan
<1>3. MaxVisible \in Nat /\ 0 <= MaxVisible
  BY PlanAssumption
<1>4. /\ fallback = NoPlan /\ planSeen = {} /\ planSteps = 0 /\ carryover = 0 /\ sawPlan = FALSE
      /\ visible = << >> /\ told = << >>
  BY DEF Init, PlanInit
<1>5. PlanShape
  BY <1>1, <1>2, <1>3, <1>4 DEF PlanShape
<1> QED
  BY <1>4, <1>5 DEF PlanInv, ServerPlanShown

(* In its turn, what is shown of a fallback plan stays or goes on.          *)
Forward ==
  \A n \in DOMAIN visible :
    n \in DOMAIN visible' /\ StatusRank(visible[n]) <= StatusRank(visible'[n])

(* A plan that stays does not fall back.                                    *)
LEMMA SameIsForward ==
  ASSUME PlanShape, UNCHANGED visible PROVE Forward
<1>1. \A n \in DOMAIN visible : visible[n] \in PlanStatuses
  BY DEF PlanShape
<1>2. \A n \in DOMAIN visible : StatusRank(visible[n]) \in 0 .. 2
  BY <1>1, RanksOfStatuses
<1> QED
  BY <1>2 DEF Forward

(* A fallback plan drawn in a later phase does not fall back.               *)
LEMMA LaterPhaseIsForward ==
  ASSUME PlanInv, fallback # NoPlan, NEW phase \in Begun \cup {"Done"}, Rank(phase) >= Rank(fallback.phase),
         visible' = Shown(StatusesOf(phase, fallback.steps))
  PROVE  Forward
<1> DEFINE p == StatusesOf(fallback.phase, fallback.steps)
           q == StatusesOf(phase, fallback.steps)
<1>1. fallback.steps \in Nat /\ fallback.steps >= 1 /\ fallback.phase \in Begun /\ visible = Shown(p)
  BY DEF PlanInv, PlanShape
<1>2. /\ p \in Seq(PlanStatuses) /\ q \in Seq(PlanStatuses)
      /\ Len(p) = fallback.steps /\ Len(q) = fallback.steps
  BY <1>1, StatusesAreAPlan
<1>3. \A n \in 1 .. fallback.steps : StatusRank(p[n]) <= StatusRank(q[n])
  BY <1>1, LaterStatuses
<1>4. DOMAIN p = 1 .. fallback.steps
  BY <1>2
<1> HIDE DEF p, q
<1>5. \A n \in DOMAIN Shown(p) :
        n \in DOMAIN Shown(q) /\ StatusRank(Shown(p)[n]) <= StatusRank(Shown(q)[n])
  BY <1>2, <1>3, <1>4, ShownSteps
<1>6. visible' = Shown(q)
  BY DEF q
<1> QED
  BY <1>1, <1>5, <1>6 DEF Forward

(* The plan moves on: with a tool, with the text after the tools.           *)
LEMMA AdvanceKeepsPlan ==
  ASSUME PlanInv, running, NEW phase \in {"Implementing", "Verifying", "Summarizing"},
         PlanAdvances(turn, phase), UNCHANGED <<turn, running, told>>
  PROVE  PlanInv' /\ (fallback # NoPlan => Forward)
<1>1. phase \in Begun /\ UNCHANGED <<planSeen, carryover, sawPlan>>
  BY DEF Begun, PlanAdvances
<1>2. CASE ~Owns(turn)
  <2>1. UNCHANGED <<fallback, planSteps, visible>> /\ fallback = NoPlan
    BY <1>2 DEF PlanAdvances, AdvancePlan, PlanInv, Owns
  <2> QED
    BY <1>1, <2>1 DEF PlanInv, PlanShape, ServerPlanShown
<1>3. CASE Owns(turn)
  <2>1. /\ fallback # NoPlan /\ fallback.phase \in Begun /\ fallback.turn = turn
        /\ fallback \in [turn : Nat, phase : Begun \cup {"Done"}, sawTool : BOOLEAN, steps : Nat]
        /\ told = << >>
    BY <1>3 DEF Owns, PlanInv, PlanShape
  <2>2. /\ fallback' = [fallback EXCEPT !.sawTool = @ \/ phase # "Done",
                                        !.phase = IF Advances(phase) THEN phase ELSE @]
        /\ IF Advances(phase) THEN Show(StatusesOf(phase, fallback.steps)) ELSE UNCHANGED <<planSteps, visible>>
    BY <1>3 DEF PlanAdvances, AdvancePlan
  <2>3. /\ fallback' \in [turn : Nat, phase : Begun \cup {"Done"}, sawTool : BOOLEAN, steps : Nat]
        /\ fallback'.turn = turn /\ fallback'.steps = fallback.steps
        /\ fallback'.phase = IF Advances(phase) THEN phase ELSE fallback.phase
    <3>1. (fallback.sawTool \/ phase # "Done") \in BOOLEAN
      OBVIOUS
    <3> QED
      BY <1>1, <2>1, <2>2, <3>1
  <2>4. CASE Advances(phase)
    <3>1. visible' = Shown(StatusesOf(phase, fallback.steps)) /\ planSteps' = fallback.steps
      BY <2>1, <2>2, <2>4, StatusesAreAPlan DEF Show
    <3>2. Rank(phase) >= Rank(fallback.phase)
      BY <1>1, <2>1, <2>4, PhasesAndRanks DEF Advances, Begun
    <3>3. Forward
      BY <1>1, <2>1, <3>1, <3>2, LaterPhaseIsForward
    <3>4. visible' \in Seq(PlanStatuses) /\ Len(visible') <= MaxVisible
      BY <2>1, <3>1, StatusesAreAPlan, ShownIsAPlan
    <3>5. PlanShape'
      BY <1>1, <2>1, <2>3, <3>1, <3>4 DEF PlanInv, PlanShape
    <3>6. visible' = Shown(StatusesOf(fallback'.phase, fallback'.steps)) /\ fallback'.phase \in Begun
      BY <1>1, <2>3, <2>4, <3>1
    <3> QED
      BY <2>1, <2>3, <3>3, <3>5, <3>6 DEF PlanInv, ServerPlanShown
  <2>5. CASE ~Advances(phase)
    <3>1. UNCHANGED <<planSteps, visible>> /\ fallback'.phase = fallback.phase
      BY <2>2, <2>3, <2>5
    <3>2. PlanShape' /\ Forward
      BY <1>1, <2>3, <3>1, SameIsForward DEF PlanInv, PlanShape
    <3> QED
      BY <2>1, <2>3, <3>1, <3>2 DEF PlanInv, ServerPlanShown
  <2> QED
    BY <2>4, <2>5
<1> QED
  BY <1>2, <1>3

(* A plan of the server's own is gone on with while none of it is begun,    *)
(* and else takes the place of what was shown.                             *)
LEMMA ServerPlanKeepsPlan ==
  ASSUME TurnInv, PlanInv, NEW plan \in ServerPlans, TurnPlanUpdated(plan)
  PROVE  PlanInv' /\ (fallback # NoPlan /\ fallback'.steps = fallback.steps => Forward)
<1>1. /\ running /\ UNCHANGED <<turn, running>> /\ turn \in Nat
      /\ ServerPlan(turn, plan, turnMode, started # {})
      /\ told' = (IF turnMode = "plan" THEN told ELSE IF AllPending(plan) THEN << >> ELSE plan)
  BY DEF TurnPlanUpdated, TurnInv, turnVars
<1>2. plan \in Seq(PlanStatuses)
  BY MessagesAssumption
<1>3. CASE turnMode = "plan"
  <2>1. UNCHANGED planVars /\ told' = told
    BY <1>1, <1>3 DEF ServerPlan
  <2> QED
    BY <1>1, <2>1, SameIsForward DEF PlanInv, PlanShape, ServerPlanShown, planVars
<1>4. CASE turnMode # "plan"
  <2> DEFINE phase == IF Owns(turn) THEN fallback.phase ELSE IF started # {} THEN "Implementing" ELSE "Planning"
             seen == (Owns(turn) /\ fallback.sawTool) \/ started # {}
  <2>1. /\ planSeen' = planSeen \cup {turn} /\ sawPlan' = (sawPlan \/ plan # << >>) /\ carryover' = carryover
    BY <1>1, <1>4 DEF ServerPlan
  <2>2. /\ planSeen' \subseteq Nat /\ sawPlan' \in BOOLEAN /\ carryover' \in Nat
        /\ told' \in Seq(PlanStatuses) /\ turn \in planSeen'
    BY <1>1, <1>2, <2>1 DEF PlanInv, PlanShape
  <2>3. phase \in Begun /\ seen \in BOOLEAN
    BY DEF PlanInv, Owns, Begun
  <2>4. CASE AllPending(plan)
    <3>1. /\ fallback' = [turn |-> turn, phase |-> phase, steps |-> Len(plan), sawTool |-> seen]
          /\ Show(StatusesOf(phase, Len(plan))) /\ told' = << >>
      BY <1>1, <1>4, <2>4 DEF ServerPlan
    <3>2. Len(plan) \in Nat /\ Len(plan) >= 1
      BY <1>2, <2>4 DEF AllPending
    <3> HIDE DEF phase, seen
    <3>3. /\ fallback' \in [turn : Nat, phase : Begun \cup {"Done"}, sawTool : BOOLEAN, steps : Nat]
          /\ fallback'.turn = turn /\ fallback'.phase = phase /\ fallback'.steps = Len(plan)
      BY <1>1, <2>3, <3>1, <3>2
    <3>4. visible' = Shown(StatusesOf(phase, Len(plan))) /\ planSteps' = Len(plan)
      BY <3>1, <3>2, StatusesAreAPlan DEF Show
    <3>5. visible' \in Seq(PlanStatuses) /\ Len(visible') <= MaxVisible
      BY <3>2, <3>4, StatusesAreAPlan, ShownIsAPlan
    <3>6. PlanShape'
      BY <2>2, <3>2, <3>3, <3>4, <3>5 DEF PlanShape
    <3>7. PlanInv'
      BY <1>1, <2>3, <3>1, <3>2, <3>3, <3>4, <3>6 DEF PlanInv, ServerPlanShown
    <3>8. ASSUME fallback # NoPlan, fallback'.steps = fallback.steps PROVE Forward
      <4>1. phase = fallback.phase /\ fallback.steps = Len(plan)
        BY <3>3, <3>8 DEF phase, PlanInv, Owns
      <4>2. visible' = visible
        BY <3>4, <3>8, <4>1 DEF PlanInv
      <4> QED
        BY <4>2, SameIsForward DEF PlanInv
    <3> QED
      BY <3>7, <3>8
  <2>5. CASE ~AllPending(plan)
    <3>1. /\ Drop(turn) /\ visible' = Shown(plan) /\ planSteps' = Len(plan) /\ told' = plan
      BY <1>1, <1>4, <2>5 DEF ServerPlan, Show
    <3>2. fallback' = NoPlan
      BY <3>1 DEF Drop, Owns, PlanInv
    <3>3. NoPlan \in [turn : Nat, phase : Begun \cup {"Done"}, sawTool : BOOLEAN, steps : Nat]
      BY DEF NoPlan
    <3>4. visible' \in Seq(PlanStatuses) /\ Len(visible') <= MaxVisible
      BY <1>2, <3>1, ShownIsAPlan
    <3>5. PlanShape'
      BY <1>2, <2>2, <3>1, <3>2, <3>3, <3>4 DEF PlanShape
    <3>6. PlanInv'
      BY <1>1, <2>2, <3>1, <3>2, <3>5 DEF PlanInv, ServerPlanShown
    <3>7. fallback # NoPlan => fallback.steps >= 1 /\ fallback.steps \in Nat /\ fallback'.steps = 0
      BY <3>2 DEF PlanInv, PlanShape, NoPlan
    <3> QED
      BY <3>6, <3>7
  <2> QED
    BY <2>4, <2>5
<1> QED
  BY <1>3, <1>4

(* A plan item ends the fallback plan, or changes nothing that is shown.    *)
LEMMA PlanItemKeepsPlan ==
  ASSUME TurnInv, PlanInv, NEW text \in PlanTexts, PlanItemCompleted(text)
  PROVE  PlanInv' /\ (fallback # NoPlan /\ fallback'.steps = fallback.steps => Forward)
<1> DEFINE modeKind == IF draining THEN "none" ELSE turnMode
           entries == PlanOf(text, modeKind = "plan")
           plan == [n \in DOMAIN entries |-> entries[n].status]
<1>1. /\ running \/ modeKind # "plan"
      /\ UNCHANGED <<turn, running, lastCompleted, told>> /\ turn \in Nat /\ PlanItem(turn, text, modeKind)
  BY DEF PlanItemCompleted, TurnInv, turnVars
<1> HIDE DEF modeKind
<1>2. plan \in Seq(PlanStatuses)
  <2>1. entries \in Seq([k : EntryKinds, status : PlanStatuses])
    BY MessagesAssumption
  <2> HIDE DEF entries
  <2>2. \A R : \A e \in Seq(R) :
          DOMAIN e = 1 .. Len(e) /\ Len(e) \in Nat /\ \A n \in DOMAIN e : e[n] \in R
    OBVIOUS
  <2>3. /\ DOMAIN entries = 1 .. Len(entries) /\ Len(entries) \in Nat
        /\ \A n \in DOMAIN entries : entries[n] \in [k : EntryKinds, status : PlanStatuses]
    BY <2>1, <2>2, Zenon
  <2>4. \A n \in DOMAIN entries : entries[n].status \in PlanStatuses
    BY <2>3
  <2> QED
    BY <2>3, <2>4
<1>3. CASE turn \in planSeen \/ plan = << >>
  <2>1. sawPlan' \in BOOLEAN /\ UNCHANGED <<fallback, planSeen, planSteps, carryover, visible>>
    <3>1. (sawPlan \/ (modeKind = "plan" /\ text # << >>)) \in BOOLEAN
      OBVIOUS
    <3> QED
      BY <1>1, <1>3, <3>1 DEF PlanItem
  <2> QED
    BY <1>1, <2>1, SameIsForward DEF PlanInv, PlanShape, ServerPlanShown
<1>4. CASE turn \notin planSeen /\ plan # << >>
  <2>1. /\ sawPlan' = TRUE /\ carryover' = carryover
        /\ IF modeKind = "plan"
           THEN fallback' = NoPlan /\ Show(plan) /\ UNCHANGED planSeen
           ELSE Drop(turn) /\ Show(PromoteFirst(plan)) /\ planSeen' = planSeen \cup {turn}
    BY <1>1, <1>4 DEF PlanItem
  <2> HIDE DEF plan, entries
  <2>2. /\ fallback' = NoPlan /\ planSeen' \subseteq Nat
        /\ told = << >> \/ (~running /\ turn \in planSeen' /\ lastCompleted = turn)
    BY <1>1, <1>4, <2>1 DEF Drop, Owns, PlanInv, PlanShape
  <2>3. PromoteFirst(plan) \in Seq(PlanStatuses)
    <3>1. CASE AllPending(plan)
      <4>1. "inProgress" \in PlanStatuses /\ PromoteFirst(plan) = [plan EXCEPT ![1] = "inProgress"]
        BY <3>1 DEF PlanStatuses, PromoteFirst
      <4>2. \A n \in 1 .. Len(plan) : plan[n] \in PlanStatuses
        BY <1>2
      <4> DEFINE begun == [n \in 1 .. Len(plan) |-> IF n = 1 THEN "inProgress" ELSE plan[n]]
      <4>3. begun \in Seq(PlanStatuses)
        BY <1>2, <4>1, <4>2
      <4>4. PromoteFirst(plan) = begun
        <5>1. DOMAIN plan = 1 .. Len(plan)
          BY <1>2
        <5>2. [plan EXCEPT ![1] = "inProgress"] = [n \in DOMAIN plan |-> IF n = 1 THEN "inProgress" ELSE plan[n]]
          BY Zenon
        <5> QED
          BY <4>1, <5>1, <5>2, Zenon
      <4> QED
        BY <4>3, <4>4
    <3>2. CASE ~AllPending(plan)
      BY <1>2, <3>2 DEF PromoteFirst
    <3> QED
      BY <3>1, <3>2
  <2>4. PICK p \in Seq(PlanStatuses) : visible' = Shown(p) /\ planSteps' = Len(p)
    BY <1>2, <2>1, <2>3 DEF Show
  <2>5. visible' \in Seq(PlanStatuses) /\ Len(visible') <= MaxVisible /\ planSteps' \in Nat
    BY <2>4, ShownIsAPlan
  <2>6. NoPlan \in [turn : Nat, phase : Begun \cup {"Done"}, sawTool : BOOLEAN, steps : Nat]
    BY DEF NoPlan
  <2>7. PlanShape'
    BY <1>1, <2>1, <2>2, <2>5, <2>6 DEF PlanInv, PlanShape
  <2>8. PlanInv'
    BY <1>1, <2>2, <2>7 DEF PlanInv, ServerPlanShown
  <2>9. fallback # NoPlan => fallback.steps >= 1 /\ fallback.steps \in Nat /\ fallback'.steps = 0
    BY <2>2 DEF PlanInv, PlanShape, NoPlan
  <2> QED
    BY <2>8, <2>9
<1> QED
  BY <1>3, <1>4

(* A turn begins with what the user agreed to, or without a plan.           *)
LEMMA BegunTurnKeepsPlan ==
  ASSUME TurnInv, PlanInv, NEW m, BeginTurn(m)
  PROVE  PlanInv' /\ turn' # turn
<1>1. /\ turn' = turn + 1 /\ running' = TRUE /\ told' = << >> /\ turn \in Nat
      /\ planSeen' = {} /\ sawPlan' = FALSE
      /\ IF m # "plan" /\ carryover > 0
         THEN /\ fallback' = [turn |-> turn + 1, phase |-> "Planning", sawTool |-> FALSE, steps |-> carryover]
              /\ Show(StatusesOf("Planning", carryover))
         ELSE fallback' = NoPlan /\ Show(<< >>)
      /\ carryover' = (IF m = "plan" THEN carryover ELSE 0)
  BY DEF BeginTurn, TurnTakesPlan, TurnInv
<1>2. carryover \in Nat /\ carryover' \in Nat
  BY <1>1 DEF PlanInv, PlanShape
<1>3. << >> \in Seq(PlanStatuses) /\ Len(<< >>) = 0
  OBVIOUS
<1>4. CASE m # "plan" /\ carryover > 0
  <2>1. /\ fallback' \in [turn : Nat, phase : Begun \cup {"Done"}, sawTool : BOOLEAN, steps : Nat]
        /\ fallback'.turn = turn' /\ fallback'.phase = "Planning" /\ fallback'.steps = carryover
        /\ "Planning" \in Begun
    <3>1. fallback' = [turn |-> turn + 1, phase |-> "Planning", sawTool |-> FALSE, steps |-> carryover]
      BY <1>1, <1>4
    <3>2. turn + 1 \in Nat /\ "Planning" \in Begun /\ FALSE \in BOOLEAN
      BY <1>1 DEF Begun
    <3> QED
      BY <1>1, <1>2, <3>1, <3>2
  <2>2. visible' = Shown(StatusesOf("Planning", carryover)) /\ planSteps' = carryover
    BY <1>1, <1>2, <1>4, StatusesAreAPlan DEF Show
  <2>3. visible' \in Seq(PlanStatuses) /\ Len(visible') <= MaxVisible
    BY <1>2, <2>2, StatusesAreAPlan, ShownIsAPlan
  <2>4. PlanShape'
    BY <1>1, <1>2, <1>3, <2>1, <2>2, <2>3 DEF PlanShape
  <2>5. fallback'.steps >= 1
    BY <1>2, <1>4, <2>1
  <2> QED
    BY <1>1, <2>1, <2>2, <2>4, <2>5 DEF PlanInv, ServerPlanShown
<1>5. CASE ~(m # "plan" /\ carryover > 0)
  <2>1. fallback' = NoPlan /\ visible' = Shown(<< >>) /\ planSteps' = 0
    BY <1>1, <1>3, <1>5 DEF Show
  <2>2. NoPlan \in [turn : Nat, phase : Begun \cup {"Done"}, sawTool : BOOLEAN, steps : Nat]
    BY DEF NoPlan
  <2>3. visible' \in Seq(PlanStatuses) /\ Len(visible') <= MaxVisible
    BY <1>3, <2>1, ShownIsAPlan
  <2>4. PlanShape'
    BY <1>1, <1>2, <1>3, <2>1, <2>2, <2>3 DEF PlanShape
  <2> QED
    BY <1>1, <2>1, <2>4 DEF PlanInv, ServerPlanShown
<1> QED
  BY <1>1, <1>4, <1>5

(* The end of a turn shows its fallback plan as done, and drops it.         *)
LEMMA EndedTurnKeepsPlan ==
  ASSUME TurnInv, PlanInv, NEW t \in 1 .. turn, NEW reason, TurnCompleted(t, reason)
  PROVE  PlanInv' /\ (fallback # NoPlan => Forward)
<1>1. CASE t # turn \/ lastCompleted = t
  <2>1. UNCHANGED <<planVars, turn, running, lastCompleted, told>>
    BY <1>1 DEF TurnCompleted, turnVars
  <2> QED
    BY <2>1, SameIsForward DEF PlanInv, PlanShape, ServerPlanShown, planVars
<1>2. CASE ~(t # turn \/ lastCompleted = t)
  <2>1. /\ t = turn /\ running' = FALSE /\ turn' = turn /\ told' = told
        /\ lastCompleted # turn /\ lastCompleted' = turn
        /\ IF Owns(turn) THEN Show(StatusesOf("Done", fallback.steps)) ELSE UNCHANGED <<planSteps, visible>>
        /\ Drop(turn) /\ planSeen' = planSeen \ {turn} /\ UNCHANGED <<carryover, sawPlan>>
    BY <1>2 DEF TurnCompleted, PlanEnds
  <2>2. fallback' = NoPlan
    BY <2>1 DEF Drop, Owns, PlanInv
  <2>3. NoPlan \in [turn : Nat, phase : Begun \cup {"Done"}, sawTool : BOOLEAN, steps : Nat]
    BY DEF NoPlan
  <2>4. CASE Owns(turn)
    <3>1. fallback.steps \in Nat /\ fallback # NoPlan /\ told = << >> /\ fallback.phase \in Begun
      BY <2>4 DEF PlanInv, PlanShape, Owns
    <3>2. visible' = Shown(StatusesOf("Done", fallback.steps)) /\ planSteps' = fallback.steps
      BY <2>1, <2>4, <3>1, StatusesAreAPlan DEF Show
    <3>3. visible' \in Seq(PlanStatuses) /\ Len(visible') <= MaxVisible
      BY <3>1, <3>2, StatusesAreAPlan, ShownIsAPlan
    <3>4. PlanShape'
      BY <2>1, <2>2, <2>3, <3>1, <3>2, <3>3 DEF PlanInv, PlanShape
    <3>5. Rank("Done") >= Rank(fallback.phase)
      BY <3>1, PhasesAndRanks DEF Begun
    <3>6. Forward
      BY <3>1, <3>2, <3>5, LaterPhaseIsForward
    <3> QED
      BY <2>1, <2>2, <3>1, <3>4, <3>6 DEF PlanInv, ServerPlanShown
  <2>5. CASE ~Owns(turn)
    <3>1. UNCHANGED <<planSteps, visible>>
      BY <2>1, <2>5
    <3>2. PlanShape' /\ Forward
      BY <2>1, <2>2, <2>3, <3>1, SameIsForward DEF PlanInv, PlanShape
    <3> QED
      BY <2>1, <2>2, <3>1, <3>2 DEF PlanInv, ServerPlanShown
  <2> QED
    BY <2>4, <2>5
<1> QED
  BY <1>1, <1>2

(* A change of mode clears the plan, that of the server with it.            *)
LEMMA ModeKeepsPlan ==
  ASSUME TurnInv, PlanInv, NEW m, SetMode(m)
  PROVE  PlanInv' /\ (fallback # NoPlan /\ fallback'.steps = fallback.steps => Forward)
<1>1. /\ ModeChangesPlan(mode, m) /\ UNCHANGED <<turn, running, lastCompleted>>
      /\ told' = IF ClearsOnModeChange(mode, m) THEN << >> ELSE told
  BY DEF SetMode, turnVars
<1>2. << >> \in Seq(PlanStatuses) /\ Len(<< >>) = 0
  OBVIOUS
<1>3. CASE ClearsOnModeChange(mode, m)
  <2>1. /\ fallback' = NoPlan /\ carryover' = 0 /\ visible' = Shown(<< >>) /\ planSteps' = 0
        /\ UNCHANGED <<planSeen, sawPlan>> /\ told' = << >>
    BY <1>1, <1>2, <1>3 DEF ModeChangesPlan, Show
  <2>2. NoPlan \in [turn : Nat, phase : Begun \cup {"Done"}, sawTool : BOOLEAN, steps : Nat]
    BY DEF NoPlan
  <2>3. visible' \in Seq(PlanStatuses) /\ Len(visible') <= MaxVisible
    BY <1>2, <2>1, ShownIsAPlan
  <2>4. PlanShape'
    BY <1>2, <2>1, <2>2, <2>3 DEF PlanInv, PlanShape
  <2>5. fallback # NoPlan => fallback.steps >= 1 /\ fallback.steps \in Nat /\ fallback'.steps = 0
    BY <2>1 DEF PlanInv, PlanShape, NoPlan
  <2> QED
    BY <1>1, <2>1, <2>4, <2>5 DEF PlanInv, ServerPlanShown
<1>4. CASE ~ClearsOnModeChange(mode, m)
  <2>1. UNCHANGED planVars /\ told' = told
    BY <1>1, <1>4 DEF ModeChangesPlan
  <2> QED
    BY <1>1, <2>1, SameIsForward DEF PlanInv, PlanShape, ServerPlanShown, planVars
<1> QED
  BY <1>3, <1>4

LEMMA PlanInductive ==
  TurnInv /\ PlanInv /\ [Next]_vars
    => /\ PlanInv'
       /\ turn' = turn /\ fallback # NoPlan /\ (fallback'.steps = fallback.steps \/ stop' # stop) => Forward
<1> DEFINE Kept == turn' = turn /\ fallback # NoPlan /\ (fallback'.steps = fallback.steps \/ stop' # stop)
                     => Forward
<1> SUFFICES ASSUME TurnInv, PlanInv, [Next]_vars PROVE PlanInv' /\ Kept
  OBVIOUS
<1>1. ASSUME UNCHANGED <<planVars, told, turn, running, lastCompleted>> PROVE PlanInv' /\ Kept
  BY <1>1, SameIsForward DEF PlanInv, PlanShape, ServerPlanShown, planVars
<1>2. ASSUME NEW m, SetMode(m) PROVE PlanInv' /\ Kept
  <2>1. stop' = stop
    BY <1>2 DEF SetMode, turnVars
  <2> QED
    BY <1>2, <2>1, ModeKeepsPlan
<1>3. ASSUME NEW m, BeginTurn(m) PROVE PlanInv' /\ Kept
  BY <1>3, BegunTurnKeepsPlan
<1>4. ASSUME NEW t \in 1 .. turn, NEW reason, TurnCompleted(t, reason) PROVE PlanInv' /\ Kept
  BY <1>4, EndedTurnKeepsPlan
<1>5. CASE FinishTurn
  BY <1>1, <1>5 DEF FinishTurn
<1>6. ASSUME NEW yes, OfferImplementation(yes) PROVE PlanInv' /\ Kept
  <2>1. UNCHANGED <<fallback, planSeen, planSteps, sawPlan, visible, told, turn, running, lastCompleted>>
    BY <1>6 DEF OfferImplementation, AgreeToPlan, planVars
  <2>2. carryover' \in Nat
    BY <1>6 DEF OfferImplementation, AgreeToPlan, planVars, PlanInv, PlanShape
  <2>3. Forward
    BY <2>1, SameIsForward DEF PlanInv
  <2> QED
    BY <2>1, <2>2, <2>3 DEF PlanInv, PlanShape, ServerPlanShown
<1>7. CASE ThreadSwitched
  <2>1. /\ fallback' = NoPlan /\ planSeen' = {} /\ planSteps' = 0 /\ carryover' = 0 /\ sawPlan' = FALSE
        /\ visible' = visible /\ told' = << >> /\ UNCHANGED <<turn, running>>
    BY <1>7 DEF ThreadSwitched
  <2>2. NoPlan \in [turn : Nat, phase : Begun \cup {"Done"}, sawTool : BOOLEAN, steps : Nat]
    BY DEF NoPlan
  <2>3. << >> \in Seq(PlanStatuses)
    OBVIOUS
  <2>4. Forward /\ PlanShape'
    BY <2>1, <2>2, <2>3, SameIsForward DEF PlanInv, PlanShape
  <2> QED
    BY <2>1, <2>4 DEF PlanInv, ServerPlanShown
<1>8. ASSUME NEW c \in Calls, NEW k \in Kinds, NEW file, ItemStarted(c, k, file) PROVE PlanInv' /\ Kept
  <2>1. /\ running /\ UNCHANGED <<turn, running, told>>
        /\ PlanAdvances(turn, IF k \in CommandKinds /\ Commands[k].verifies THEN "Verifying" ELSE "Implementing")
    BY <1>8 DEF ItemStarted, ItemAdvancesPlan, turnVars
  <2> QED
    BY <2>1, AdvanceKeepsPlan
<1>9. ASSUME NEW c, NEW status, ItemCompleted(c, status) PROVE PlanInv' /\ Kept
  BY <1>1, <1>9 DEF ItemCompleted, turnVars
<1>10. ASSUME NEW c, NEW k, NEW status, ReplayItem(c, k, status) PROVE PlanInv' /\ Kept
  BY <1>1, <1>10 DEF ReplayItem, turnVars
<1>11. ASSUME NEW c, NEW chunk, CommandOutput(c, chunk) PROVE PlanInv' /\ Kept
  BY <1>1, <1>11 DEF CommandOutput, turnVars
<1>12. ASSUME NEW c, TerminalInteraction(c) PROVE PlanInv' /\ Kept
  BY <1>1, <1>12 DEF TerminalInteraction, turnVars
<1>13. ASSUME Asked PROVE PlanInv' /\ Kept
  BY <1>1, <1>13 DEF Asked, turnVars
<1>14. CASE AgentText
  <2>1. running /\ UNCHANGED <<turn, running, told, lastCompleted>> /\ TextAdvances(turn, started # {})
    BY <1>14 DEF AgentText, turnVars
  <2>2. CASE PlanAdvances(turn, "Summarizing")
    BY <2>1, <2>2, AdvanceKeepsPlan
  <2> QED
    BY <1>1, <2>1, <2>2 DEF TextAdvances
<1>15. ASSUME NEW text \in PlanTexts, PlanItemCompleted(text) PROVE PlanInv' /\ Kept
  <2>1. stop' = stop
    BY <1>15 DEF PlanItemCompleted, turnVars
  <2> QED
    BY <1>15, <2>1, PlanItemKeepsPlan
<1>16. ASSUME NEW plan \in ServerPlans, TurnPlanUpdated(plan) PROVE PlanInv' /\ Kept
  <2>1. stop' = stop
    BY <1>16 DEF TurnPlanUpdated, turnVars
  <2> QED
    BY <1>16, <2>1, ServerPlanKeepsPlan
<1>17. ASSUME NEW diff, TurnDiffUpdated(diff) PROVE PlanInv' /\ Kept
  BY <1>1, <1>17 DEF TurnDiffUpdated, turnVars
<1>18. ASSUME NEW n, ShowDiff(n) PROVE PlanInv' /\ Kept
  BY <1>1, <1>18 DEF ShowDiff, turnVars
<1>19. CASE UNCHANGED vars
  BY <1>1, <1>19 DEF vars, turnVars
<1>20. CASE SessionStep
  BY <1>20, <1>2, <1>3, <1>4, <1>5, <1>6, <1>7 DEF SessionStep
<1>21. CASE MessageStep
  BY <1>21, <1>14, <1>15, <1>16, <1>17, <1>18 DEF MessageStep
<1>22. ASSUME NEW c \in Calls, ItemStep(c) PROVE PlanInv' /\ Kept
  BY <1>22, <1>8, <1>9, <1>10, <1>11, <1>12, <1>13
     DEF ItemStep, CommandApproval, FileChangeApproval, PermissionsApproval, UserInput, Unsupported
<1> QED
  BY <1>19, <1>20, <1>21, <1>22 DEF Next

(* Once the server has begun a plan of its own, the client goes on showing  *)
(* it: the fallback plan is dropped with the first such plan, and a plan    *)
(* item finds the turn among those the server sent plans for (plan/         *)
(* fallback.rs, events.rs).                                                *)
THEOREM ServerPlanStaysShown == Spec => []ServerPlanShown
<1>1. PlanInv => ServerPlanShown
  BY DEF PlanInv
<1> QED
  BY <1>1, TurnInitially, TurnInductive, PlanInitially, PlanInductive, PTL DEF Spec

(* The fallback plan only goes on, for every number of steps and whatever   *)
(* of them is shown: its phase only rises, a later phase is no further back *)
(* in the steps, and the end of the turn completes them (fallback.rs).     *)
THEOREM PlanMovesForward == Spec => PlanNeverFallsBack
<1>1. TurnInv /\ PlanInv /\ [Next]_vars
        => [turn' = turn /\ fallback # NoPlan /\ (fallback'.steps = fallback.steps \/ stop' # stop)
              => \A n \in DOMAIN visible :
                   n \in DOMAIN visible' /\ StatusRank(visible[n]) <= StatusRank(visible'[n])]_vars
  BY PlanInductive DEF Forward
<1> QED
  BY <1>1, TurnInitially, TurnInductive, PlanInitially, PlanInductive, PTL DEF Spec, PlanNeverFallsBack

-----------------------------------------------------------------------------
(* Types.                                                                  *)

(* What no other invariant says of the types: an edit that is open is of a  *)
(* file, and so is what is shown of a diff.                                *)
RestInv ==
  /\ scene \in Scenes /\ turn <= scene.turns /\ lastCompleted \in {0, turn}
  /\ edited \subseteq Paths
  /\ diffCard \in [turn : Nat, shown : SUBSET Files, gone : SUBSET Files]
  /\ report \in [last : Nat, files : SUBSET Files]
  /\ \A c \in Calls : life[c] = "open" /\ kind[c] = "edit" => target[c] \in Files

LEMMA RestInitially == Init => RestInv
<1> SUFFICES ASSUME Init PROVE RestInv
  OBVIOUS
<1>1. scene \in Scenes /\ turn = 0 /\ scene.turns \in Nat /\ lastCompleted = 0
  BY ItemsAssumption DEF Init
<1>2. edited = {} /\ diffCard = [turn |-> 0, shown |-> {}, gone |-> {}] /\ report = [last |-> 0, files |-> {}]
  BY DEF Init, DiffInit, NoReport
<1>3. \A c \in Calls : life[c] = "new"
  BY DEF Init
<1> QED
  BY <1>1, <1>2, <1>3 DEF RestInv

(* What an edit adds to the edited files is a path.                         *)
LEMMA EditedFilesArePaths ==
  ASSUME RestInv, NEW file \in Files, RememberEdit(file) PROVE edited' \subseteq Paths
  BY DEF RestInv, RememberEdit, Paths

\* The open edits stay those they were, but for one that begins.
OpenEditsKept ==
  \A c \in Calls : life'[c] = "open" /\ kind'[c] = "edit" => target'[c] \in Files

LEMMA RestInductive == TurnInv /\ HistoryInv /\ RestInv /\ [Next]_vars => RestInv'
<1> SUFFICES ASSUME TurnInv, HistoryInv, RestInv, [Next]_vars PROVE RestInv'
  OBVIOUS
<1>0. NoReport \in [last : Nat, files : SUBSET Files] /\ scene.turns \in Nat /\ turn \in Nat
  BY ItemsAssumption DEF NoReport, RestInv, TurnInv
<1>1. ASSUME UNCHANGED <<scene, turn, lastCompleted, edited, diffCard>>, report' \in {NoReport, report},
             OpenEditsKept
      PROVE  RestInv'
  BY <1>0, <1>1 DEF RestInv, OpenEditsKept
<1>2. ASSUME UNCHANGED <<life, kind, target>> PROVE OpenEditsKept
  BY <1>2 DEF RestInv, OpenEditsKept
<1>3. ASSUME NEW m, SetMode(m) PROVE RestInv'
  BY <1>1, <1>2, <1>3 DEF SetMode, Quiet, Silent, turnVars, itemVars, diffVars
<1>4. ASSUME NEW m, BeginTurn(m) PROVE RestInv'
  <2>1. /\ turn' = turn + 1 /\ turn < scene.turns /\ lastCompleted' = 0 /\ edited' = {}
        /\ UNCHANGED <<scene, diffCard, life, kind, target>> /\ report' = NoReport
    BY <1>4 DEF BeginTurn, DiffForgotten, Quiet, Silent, itemVars
  <2>2. turn + 1 <= scene.turns
    BY <1>0, <2>1
  <2> QED
    BY <1>0, <2>1, <2>2 DEF RestInv
<1>5. ASSUME NEW t \in 1 .. turn, NEW reason, TurnCompleted(t, reason) PROVE RestInv'
  <2>1. report' = NoReport /\ UNCHANGED <<scene, life, kind, target>>
    BY <1>5 DEF TurnCompleted, Quiet, Silent, itemVars
  <2>2. CASE t # turn \/ lastCompleted = t
    BY <1>1, <1>2, <1>5, <2>1, <2>2 DEF TurnCompleted, turnVars, diffVars
  <2>3. CASE ~(t # turn \/ lastCompleted = t)
    <3>1. lastCompleted' = turn /\ turn' = turn /\ edited' = edited /\ FinalizeDiff(turn)
      BY <1>5, <2>3 DEF TurnCompleted, FinalizeDiff
    <3>2. PICK shown \in SUBSET Files :
            diffCard' = IF shown = {} THEN diffCard
                        ELSE [turn |-> turn, shown |-> shown, gone |-> shown \cap latest.gone]
      <4>1. latest.changed \subseteq Files
        BY DEF HistoryInv, Diffs
      <4>2. \A there : CardOf(latest, there) \in SUBSET Files
        BY <4>1 DEF CardOf
      <4> QED
        BY <3>1, <4>2 DEF FinalizeDiff
    <3>3. diffCard' \in [turn : Nat, shown : SUBSET Files, gone : SUBSET Files]
      BY <1>0, <3>2 DEF RestInv
    <3> QED
      BY <1>0, <2>1, <3>1, <3>3 DEF RestInv
  <2> QED
    BY <2>2, <2>3
<1>6. CASE FinishTurn
  BY <1>1, <1>2, <1>6 DEF FinishTurn, Quiet, Silent, itemVars, diffVars
<1>7. ASSUME NEW yes, OfferImplementation(yes) PROVE RestInv'
  BY <1>1, <1>2, <1>7 DEF OfferImplementation, Quiet, Silent, itemVars, diffVars
<1>8. CASE ThreadSwitched
  <2>1. /\ turn' = turn /\ lastCompleted' = 0 /\ edited' = {}
        /\ UNCHANGED <<scene, diffCard, life, kind, target>> /\ report' = NoReport
    BY <1>8 DEF ThreadSwitched, HistoryForgotten, Quiet, Silent, itemVars
  <2> QED
    BY <1>0, <2>1 DEF RestInv
<1>9. ASSUME NEW c \in Calls, NEW k \in Kinds, NEW file \in Files, ItemStarted(c, k, file) PROVE RestInv'
  <2>1. /\ life' = [life EXCEPT ![c] = "open"] /\ kind' = [kind EXCEPT ![c] = k]
        /\ target' = [target EXCEPT ![c] = IF k = "edit" THEN file ELSE NoFile]
        /\ UNCHANGED <<scene, turn, lastCompleted, diffCard>> /\ report' = NoReport
        /\ IF k = "edit" THEN RememberEdit(file) ELSE UNCHANGED edited
    BY <1>9 DEF ItemStarted, turnVars, Quiet, Silent
  <2>2. edited' \subseteq Paths
    BY <2>1, EditedFilesArePaths DEF RestInv
  <2>3. OpenEditsKept
    BY <2>1 DEF OpenEditsKept, RestInv, TurnInv
  <2> QED
    BY <1>0, <2>1, <2>2, <2>3 DEF RestInv, OpenEditsKept
<1>10. ASSUME NEW c \in Calls, NEW status, ItemCompleted(c, status) PROVE RestInv'
  <2>1. /\ life[c] = "open" /\ life' = [life EXCEPT ![c] = "closed"]
        /\ UNCHANGED <<scene, turn, lastCompleted, diffCard, kind, target>> /\ report' = NoReport
        /\ edited' = edited \/ (kind[c] = "edit" /\ RememberEdit(target[c]))
    BY <1>10 DEF ItemCompleted, turnVars, Quiet, Silent
  <2>2. edited' \subseteq Paths
    BY <2>1, EditedFilesArePaths DEF RestInv
  <2>3. OpenEditsKept
    BY <2>1 DEF OpenEditsKept, RestInv, TurnInv
  <2> QED
    BY <1>0, <2>1, <2>2, <2>3 DEF RestInv, OpenEditsKept
<1>11. ASSUME NEW c \in Calls, NEW k \in Kinds, NEW status, ReplayItem(c, k, status) PROVE RestInv'
  <2>1. /\ life' = [life EXCEPT ![c] = "closed"] /\ kind' = [kind EXCEPT ![c] = k] /\ target' = target
        /\ UNCHANGED <<scene, turn, lastCompleted, edited, diffCard>> /\ report' = NoReport
    BY <1>11 DEF ReplayItem, turnVars, diffVars, Quiet, Silent
  <2>2. OpenEditsKept
    BY <2>1 DEF OpenEditsKept, RestInv, TurnInv
  <2> QED
    BY <1>1, <2>1, <2>2
<1>12. ASSUME NEW c, NEW chunk, CommandOutput(c, chunk) PROVE RestInv'
  BY <1>1, <1>2, <1>12 DEF CommandOutput, turnVars, diffVars, Quiet, Silent
<1>13. ASSUME NEW c, TerminalInteraction(c) PROVE RestInv'
  BY <1>1, <1>2, <1>13 DEF TerminalInteraction, turnVars, itemVars, diffVars, Quiet, Silent
<1>14. ASSUME Asked PROVE RestInv'
  BY <1>1, <1>2, <1>14 DEF Asked, turnVars, itemVars, diffVars
<1>15. CASE AgentText \/ \E plan \in ServerPlans : TurnPlanUpdated(plan)
  BY <1>1, <1>2, <1>15 DEF AgentText, TurnPlanUpdated, turnVars, itemVars, diffVars, Quiet, Silent
<1>16. ASSUME NEW text, PlanItemCompleted(text) PROVE RestInv'
  BY <1>1, <1>2, <1>16 DEF PlanItemCompleted, turnVars, itemVars, diffVars, Quiet, Silent
<1>17. ASSUME NEW diff, TurnDiffUpdated(diff) PROVE RestInv'
  BY <1>1, <1>2, <1>17 DEF TurnDiffUpdated, DiffUpdated, turnVars, itemVars, Quiet, Silent
<1>18. ASSUME NEW n \in 1 .. HistoryLimit, ShowDiff(n) PROVE RestInv'
  <2>1. PICK files \in ReportsOf(Selected(n)) : report' = [last |-> n, files |-> files]
    BY <1>18 DEF ShowDiff, DiffCommand
  <2>2. UNCHANGED <<scene, turn, lastCompleted, edited, diffCard, life, kind, target>>
    BY <1>18 DEF ShowDiff, DiffCommand, Silent, turnVars, itemVars, diffVars
  <2>3. Selected(n) \in Seq(Records)
    BY SelectedAreNewest
  <2>4. files \subseteq Files
    <3> DEFINE records == Selected(n)
    <3>1. \A i \in DOMAIN records : records[i].diff.changed \subseteq Files
      <4> HIDE DEF records
      <4>1. \A i \in DOMAIN records : records[i] \in Records
        BY <2>3 DEF records
      <4> QED
        BY <4>1 DEF Records, Diffs
    <3>2. files \subseteq UNION {records[i].diff.changed : i \in DOMAIN records}
      BY <2>1 DEF ReportsOf
    <3> QED
      BY <3>1, <3>2
  <2>5. report' \in [last : Nat, files : SUBSET Files]
    BY <2>1, <2>4, DiffAssumption
  <2> QED
    BY <2>2, <2>5 DEF RestInv
<1>19. CASE UNCHANGED vars
  BY <1>1, <1>2, <1>19 DEF vars, turnVars, itemVars, diffVars
<1>20. CASE SessionStep
  BY <1>20, <1>3, <1>4, <1>5, <1>6, <1>7, <1>8 DEF SessionStep
<1>21. CASE MessageStep
  BY <1>21, <1>15, <1>16, <1>17, <1>18 DEF MessageStep
<1>22. ASSUME NEW c \in Calls, ItemStep(c) PROVE RestInv'
  BY <1>22, <1>9, <1>10, <1>11, <1>12, <1>13, <1>14
     DEF ItemStep, CommandApproval, FileChangeApproval, PermissionsApproval, UserInput, Unsupported
<1> QED
  BY <1>19, <1>20, <1>21, <1>22 DEF Next

(* The plan, the cards and the diffs keep to their types, whatever messages *)
(* of their types the server sends.                                        *)
THEOREM ShownTypes == Spec => []TypeOK
<1>1. TurnInv /\ CardInv /\ PlanInv /\ HistoryInv /\ RestInv => TypeOK
  <2> SUFFICES ASSUME TurnInv, CardInv, PlanInv, HistoryInv, RestInv PROVE TypeOK
    OBVIOUS
  <2>1. PlanTypeOK
    BY PhasesAndRanks DEF PlanInv, PlanShape, PlanTypeOK, PlanStatuses
  <2>2. CardsTypeOK
    BY DEF CardInv
  <2>3. DiffTypeOK
    BY DEF HistoryInv, RestInv, DiffTypeOK, Records
  <2>4. turn \in 0 .. scene.turns
    BY ItemsAssumption DEF TurnInv, RestInv
  <2> QED
    BY <2>1, <2>2, <2>3, <2>4 DEF TypeOK, TurnInv, RestInv
<1> QED
  BY <1>1, TurnInitially, TurnInductive, CardsInitially, CardsInductive, PlanInitially, PlanInductive,
     HistoryInitially, HistoryInductive, RestInitially, RestInductive, PTL DEF Spec

-----------------------------------------------------------------------------
(* The output of commands.                                                 *)

Chunks(out) == Range(out) \ {0}

(* A terminal shows what was streamed, all of it and in order, which is     *)
(* nothing before the first chunk: an output that came at once is then     *)
(* still to come.                                                          *)
Streamed(c) ==
  c \in terminals =>
    /\ InOrder(output[c])
    /\ Chunks(output[c]) = IF c \in outputSeen THEN 1 .. produced[c] ELSE {}
    /\ c \notin outputSeen => produced[c] \in {0, MaxChunks}

(* A command that is open in its turn has a card, and a terminal if it uses *)
(* one.                                                                    *)
OpenCommand(c) ==
  /\ life[c] = "new" => kind[c] = "none" /\ output[c] = << >>
  /\ life[c] = "open" /\ kind[c] \in CommandKinds
       => /\ card[c] \notin {"completed", "failed"}
          /\ owner[c] = turn /\ ~Idle => c \in started /\ (c \in terminals <=> UsesTerminal(kind[c]))

ShownOnce(c) ==
  card[c] \in {"completed", "failed"} /\ kind[c] \in CommandKinds
    => /\ InOrder(output[c])
       /\ Chunks(output[c])
            = Range(IF UsesTerminal(kind[c]) THEN AllChunks(produced[c]) ELSE Preview(produced[c]))
       /\ c \in covered => UsesTerminal(kind[c])

CallInv(c) == Streamed(c) /\ OpenCommand(c) /\ ShownOnce(c)
OutputInv == \A c \in Calls : CallInv(c)

\* Chunks in order, followed by later ones.
LEMMA FollowedInOrder ==
  ASSUME NEW p \in Seq(Nat), NEW q \in Seq(Nat), InOrder(p), InOrder(q),
         \A x \in Chunks(p), y \in Chunks(q) : x < y
  PROVE  /\ InOrder(p \o q) /\ Chunks(p \o q) = Chunks(p) \cup Chunks(q)
         /\ Range(p \o q) = Range(p) \cup Range(q)
<1> DEFINE a == Len(p)
           b == Len(q)
           r == p \o q
<1>1. /\ a \in Nat /\ b \in Nat /\ r \in Seq(Nat) /\ Len(r) = a + b
      /\ DOMAIN p = 1 .. a /\ DOMAIN q = 1 .. b /\ DOMAIN r = 1 .. a + b
      /\ \A n \in 1 .. a : r[n] = p[n] /\ p[n] \in Nat
      /\ \A n \in 1 .. b : r[a + n] = q[n] /\ q[n] \in Nat
  OBVIOUS
<1> HIDE DEF a, b, r
<1>2. ASSUME NEW n \in 1 .. a + b
      PROVE  n \in 1 .. a \/ \E m \in 1 .. b : n = a + m
  <2>1. n \in 1 .. a \/ (n - a \in 1 .. b /\ n = a + (n - a))
    BY <1>1
  <2> QED
    BY <2>1
<1>3. Range(r) = Range(p) \cup Range(q)
  <2>1. ASSUME NEW n \in 1 .. a + b PROVE r[n] \in Range(p) \cup Range(q)
    BY <1>1, <1>2 DEF Range
  <2>2. ASSUME NEW n \in 1 .. a PROVE p[n] \in Range(r)
    <3>1. n \in 1 .. a + b
      BY <1>1
    <3> QED
      BY <1>1, <3>1 DEF Range
  <2>3. ASSUME NEW n \in 1 .. b PROVE q[n] \in Range(r)
    <3>1. a + n \in 1 .. a + b
      BY <1>1
    <3> QED
      BY <1>1, <3>1 DEF Range
  <2> QED
    BY ZenonT(60), <1>1, <2>1, <2>2, <2>3 DEF Range
<1>4. ASSUME NEW m \in 1 .. a + b, NEW n \in 1 .. a + b, m < n, r[m] # 0, r[n] # 0
      PROVE  r[m] < r[n]
  <2>1. CASE n \in 1 .. a
    <3>1. m \in 1 .. a
      BY <1>1, <1>4, <2>1
    <3> QED
      BY <1>1, <1>4, <2>1, <3>1 DEF InOrder
  <2>2. CASE \E i \in 1 .. b : n = a + i
    <3>1. PICK i \in 1 .. b : n = a + i
      BY <2>2
    <3>2. CASE m \in 1 .. a
      <4>1. p[m] \in Chunks(p) /\ q[i] \in Chunks(q)
        BY <1>1, <1>4, <3>1, <3>2 DEF Chunks, Range
      <4> QED
        BY <1>1, <3>1, <3>2, <4>1
    <3>3. CASE \E j \in 1 .. b : m = a + j
      <4>1. PICK j \in 1 .. b : m = a + j
        BY <3>3
      <4>2. j < i
        BY <1>1, <1>4, <3>1, <4>1
      <4> QED
        BY <1>1, <1>4, <3>1, <4>1, <4>2 DEF InOrder
    <3> QED
      BY <1>2, <3>2, <3>3
  <2> QED
    BY <1>2, <2>1, <2>2
<1>5. InOrder(r)
  BY <1>1, <1>4 DEF InOrder
<1> QED
  BY <1>3, <1>5 DEF Chunks, r

(* Appending is following with a sequence of one.                           *)
LEMMA AppendFollows ==
  ASSUME NEW s \in Seq(Nat), NEW n \in Nat
  PROVE  Append(s, n) = s \o <<n>> /\ <<n>> \in Seq(Nat)
<1> DEFINE p == Append(s, n)
           q == s \o <<n>>
<1>1. p \in Seq(Nat) /\ Len(p) = Len(s) + 1 /\ q \in Seq(Nat) /\ Len(q) = Len(s) + 1
  OBVIOUS
<1>2. \A i \in 1 .. Len(s) + 1 : p[i] = q[i]
  OBVIOUS
<1> HIDE DEF p, q
<1>3. p = q
  BY <1>1, <1>2
<1> QED
  BY <1>3 DEF p, q

(* All chunks of an output are in order.                                    *)
LEMMA AllInOrder ==
  ASSUME NEW n \in Nat
  PROVE  /\ AllChunks(n) \in Seq(Nat) /\ InOrder(AllChunks(n))
         /\ Range(AllChunks(n)) = 1 .. n /\ Chunks(AllChunks(n)) = 1 .. n
<1>1. AllChunks(n) \in Seq(Nat) /\ DOMAIN AllChunks(n) = 1 .. n /\ \A k \in 1 .. n : AllChunks(n)[k] = k
  BY DEF AllChunks
<1>2. Range(AllChunks(n)) = 1 .. n
  BY <1>1 DEF Range
<1> QED
  BY <1>1, <1>2 DEF InOrder, Chunks

(* So are those of its preview.                                             *)
LEMMA PreviewInOrder ==
  ASSUME NEW n \in Nat
  PROVE  /\ Preview(n) \in Seq(Nat) /\ InOrder(Preview(n))
         /\ Chunks(Preview(n)) = Range(Preview(n))
<1>1. HeadLines \in Nat /\ TailLines \in Nat
  BY CardsAssumption
<1>2. CASE n <= HeadLines + TailLines
  BY <1>2, AllInOrder DEF Preview
<1>3. CASE ~(n <= HeadLines + TailLines)
  <2> DEFINE tail == [k \in 1 .. TailLines |-> n - TailLines + k]
             head == AllChunks(HeadLines)
  <2>1. \A k \in 1 .. TailLines : n - TailLines + k \in Nat /\ n - TailLines + k > HeadLines
    BY <1>1, <1>3
  <2>2. /\ tail \in Seq(Nat) /\ DOMAIN tail = 1 .. TailLines
        /\ \A k \in 1 .. TailLines : tail[k] = n - TailLines + k
    BY <1>1, <2>1
  <2>3. head \in Seq(Nat) /\ InOrder(head) /\ Chunks(head) = 1 .. HeadLines
    BY <1>1, AllInOrder
  <2> HIDE DEF tail, head
  <2>4. InOrder(tail)
    BY <1>1, <2>2 DEF InOrder
  <2>5. \A x \in Chunks(head), y \in Chunks(tail) : x < y
    <3>1. \A y \in Range(tail) : y \in Nat /\ y > HeadLines
      BY <2>1, <2>2 DEF Range
    <3>2. \A x \in Chunks(head) : x \in Nat /\ x <= HeadLines
      BY <1>1, <2>3
    <3> QED
      BY <1>1, <3>1, <3>2 DEF Chunks
  <2>6. Preview(n) = head \o tail
    BY <1>3 DEF Preview, head, tail
  <2>7. InOrder(head \o tail) /\ Range(head \o tail) = Range(head) \cup Range(tail)
    <3>1. head \in Seq(Nat) /\ tail \in Seq(Nat) /\ InOrder(head) /\ InOrder(tail)
      BY <2>2, <2>3, <2>4
    <3> QED
      BY ONLY <2>5, <3>1, FollowedInOrder
  <2>8. head \o tail \in Seq(Nat)
    BY <2>2, <2>3
  <2>9. 0 \notin Range(head) /\ 0 \notin Range(tail)
    <3>1. Range(head) = 1 .. HeadLines
      BY <1>1, AllInOrder DEF head
    <3>2. 0 \notin Range(head)
      BY <1>1, <3>1
    <3>3. ASSUME NEW k \in 1 .. TailLines PROVE tail[k] # 0
      <4>1. tail[k] = n - TailLines + k /\ n - TailLines + k > HeadLines
        BY ONLY <2>1, <2>2
      <4> QED
        BY ONLY <1>1, <4>1, TailLines \in Nat, n \in Nat, k \in 1 .. TailLines
    <3>4. 0 \notin Range(tail)
      BY ONLY <2>2, <3>3 DEF Range
    <3> QED
      BY <3>2, <3>4
  <2> QED
    BY <2>6, <2>7, <2>8, <2>9 DEF Chunks
<1> QED
  BY <1>2, <1>3

LEMMA OutputInitially == Init => OutputInv
  BY DEF Init, CardsInit, OutputInv, CallInv, Streamed, OpenCommand, ShownOnce, CommandKinds, Commands

(* A step that changes what is kept of one call.                           *)
OthersKept(c) ==
  /\ turn' = turn /\ (Idle => Idle')
  /\ \A x \in Calls \ {c} :
       /\ life'[x] = life[x] /\ owner'[x] = owner[x] /\ kind'[x] = kind[x]
       /\ produced'[x] = produced[x] /\ card'[x] = card[x] /\ output'[x] = output[x]
       /\ (x \in started' <=> x \in started) /\ (x \in terminals' <=> x \in terminals)
       /\ (x \in outputSeen' <=> x \in outputSeen) /\ (x \in covered' <=> x \in covered)

(* A step that changes the output of one call has only that call to keep.   *)
LEMMA OneCallChanges ==
  ASSUME OutputInv, NEW c \in Calls, OthersKept(c), CallInv(c)'
  PROVE  OutputInv'
<1> SUFFICES ASSUME NEW x \in Calls \ {c} PROVE CallInv(x)'
  BY DEF OutputInv
<1>1. CallInv(x)
  BY DEF OutputInv
<1>2. Streamed(x)' /\ ShownOnce(x)'
  BY <1>1 DEF CallInv, Streamed, ShownOnce, OthersKept
<1>3. OpenCommand(x)'
  BY <1>1 DEF CallInv, OpenCommand, OthersKept
<1> QED
  BY <1>2, <1>3 DEF CallInv

(* A step that changes no card keeps what they show.                        *)
LEMMA OutputUntouched ==
  ASSUME OutputInv, UNCHANGED <<cardVars, itemVars, turn>>, Idle => Idle'
  PROVE  OutputInv'
<1> SUFFICES ASSUME NEW x \in Calls PROVE CallInv(x)'
  BY DEF OutputInv
<1>1. CallInv(x)
  BY DEF OutputInv
<1> QED
  BY <1>1 DEF CallInv, Streamed, ShownOnce, OpenCommand, cardVars, itemVars

\* A turn that begins, or a thread that is left, forgets what was open.
LEMMA OutputForgotten ==
  ASSUME OutputInv, CardsForgotten, UNCHANGED itemVars, Idle' \/ \A c \in Calls : owner[c] # turn'
  PROVE  OutputInv'
<1> SUFFICES ASSUME NEW x \in Calls PROVE CallInv(x)'
  BY DEF OutputInv
<1>1. CallInv(x)
  BY DEF OutputInv
<1> QED
  BY <1>1 DEF CallInv, Streamed, ShownOnce, OpenCommand, CardsForgotten, itemVars

(* An item that starts has no output yet.                                   *)
LEMMA StartedOutput ==
  ASSUME TurnInv, CardInv, OutputInv, NEW c \in Calls, NEW k \in Kinds, NEW file, ItemStarted(c, k, file)
  PROVE  OutputInv'
<1>1. /\ life[c] = "new" /\ life' = [life EXCEPT ![c] = "open"] /\ owner' = [owner EXCEPT ![c] = turn]
      /\ kind' = [kind EXCEPT ![c] = k] /\ turn' = turn /\ CardStarts(c, k, file)
      /\ UNCHANGED <<active, draining>>
  BY DEF ItemStarted, turnVars
<1>2. PICK n \in {0} \cup Batches(k) : produced' = [produced EXCEPT ![c] = n]
  BY DEF ItemStarted
<1>3. PICK s \in Statuses : card' = [card EXCEPT ![c] = s]
  BY <1>1, CardOfStarted
<1>4. /\ started' \in {started, started \cup {c}} /\ terminals' \in {terminals, terminals \cup {c}}
      /\ outputSeen' = outputSeen /\ output' = output /\ (k \notin CommandKinds => terminals' = terminals)
      /\ covered' \in {covered, covered \ {c}}
  BY <1>1, CardOfStarted
<1>5. c \notin started /\ c \notin terminals /\ c \notin outputSeen
  BY <1>1 DEF CardInv, CardsTypeOK
<1>6. OthersKept(c)
  BY <1>1, <1>2, <1>3, <1>4 DEF OthersKept, Idle, TurnInv, CardInv, CardsTypeOK
<1>7. life'[c] = "open" /\ kind'[c] = k /\ output'[c] = << >> /\ produced'[c] \in {0, MaxChunks}
  <2>1. output[c] = << >>
    BY <1>1 DEF OutputInv, CallInv, OpenCommand
  <2> QED
    BY <1>1, <1>2, <1>4, <2>1 DEF TurnInv, CardInv, Batches
<1>8. Streamed(c)'
  <2>1. InOrder(<< >>) /\ Chunks(<< >>) = {}
    BY DEF InOrder, Chunks, Range
  <2> QED
    BY <1>4, <1>5, <1>7, <2>1 DEF Streamed
<1>9. CASE k \in CommandKinds
  <2>1. CommandStarted(c, k)
    BY <1>1, <1>9, KindsOfCommands DEF CardStarts
  <2>2. card'[c] = "inProgress" /\ c \in started' /\ (c \in terminals' <=> UsesTerminal(k))
    BY <1>5, <2>1 DEF CommandStarted, Begin, Card, CardInv, CardsTypeOK
  <2>3. OpenCommand(c)' /\ ShownOnce(c)'
    BY <1>7, <2>2 DEF OpenCommand, ShownOnce
  <2> QED
    BY <1>6, <1>8, <2>3, OneCallChanges DEF CallInv
<1>10. CASE k \notin CommandKinds
  <2>1. OpenCommand(c)' /\ ShownOnce(c)'
    BY <1>7, <1>10 DEF OpenCommand, ShownOnce
  <2> QED
    BY <1>6, <1>8, <2>1, OneCallChanges DEF CallInv
<1> QED
  BY <1>9, <1>10

(* The card of an item that ends shows all of its output.                   *)
LEMMA CompletedOutputShown ==
  ASSUME TurnInv, CardInv, OutputInv, NEW c \in Calls, NEW status, ItemCompleted(c, status)
  PROVE  OutputInv'
<1>1. /\ life[c] = "open" /\ life' = [life EXCEPT ![c] = "closed"] /\ kind[c] \in Kinds
      /\ UNCHANGED <<turn, active, draining, owner, kind, produced>>
  BY DEF ItemCompleted, turnVars, TurnInv
<1>2. /\ life'[c] = "closed" /\ \A x \in Calls \ {c} : life'[x] = life[x]
  BY <1>1 DEF TurnInv
<1>3. CallInv(c)
  BY DEF OutputInv
<1>4. CASE ~Expected(c)
  <2>1. UNCHANGED cardVars
    BY <1>4 DEF ItemCompleted
  <2>2. OthersKept(c)
    BY <1>1, <1>2, <2>1 DEF OthersKept, Idle, cardVars
  <2>3. CallInv(c)'
    BY <1>1, <1>2, <1>3, <2>1 DEF CallInv, Streamed, OpenCommand, ShownOnce, cardVars
  <2> QED
    BY <2>2, <2>3, OneCallChanges
<1>5. CASE Expected(c) /\ kind[c] \notin CommandKinds
  <2>1. CardEnds(c, status)
    BY <1>5 DEF ItemCompleted
  <2>2. PICK s \in Statuses : card' = card \/ card' = [card EXCEPT ![c] = s]
    BY <1>1, <2>1, CardOfEnded DEF Statuses
  <2>3. /\ started' \in {started, started \ {c}}
        /\ terminals' = terminals /\ outputSeen' = outputSeen /\ output' = output /\ covered' = covered
    BY <1>1, <1>5, <2>1, CardOfEnded
  <2>4. OthersKept(c)
    BY <1>1, <1>2, <2>2, <2>3 DEF OthersKept, Idle, CardInv, CardsTypeOK
  <2>5. CallInv(c)'
    BY <1>1, <1>2, <1>3, <1>5, <2>3 DEF CallInv, Streamed, OpenCommand, ShownOnce
  <2> QED
    BY <2>4, <2>5, OneCallChanges
<1>6. CASE Expected(c) /\ kind[c] \in CommandKinds
  <2> DEFINE n == produced[c]
             out == CompletedOutput(c, n)
  <2>1. CardEnds(c, status)
    BY <1>6 DEF ItemCompleted
  <2>2. /\ started' = started \ {c} /\ terminals' = terminals \ {c} /\ outputSeen' = outputSeen \ {c}
        /\ card' = [card EXCEPT ![c] = Settled(status)] /\ output' = [output EXCEPT ![c] = out]
        /\ covered' = covered \ ({c} \ terminals)
    BY <1>6, <2>1, KindsOfCommands DEF CardEnds, CommandCompleted, End, Card
  <2>3. OthersKept(c)
    BY <1>1, <1>2, <2>2 DEF OthersKept, Idle, CardInv, CardsTypeOK
  <2>4. n \in Nat /\ output[c] \in Seq(Nat) /\ output'[c] = out
    BY <2>2 DEF CardInv, CardsTypeOK
  <2>5. c \in terminals <=> UsesTerminal(kind[c])
    BY <1>1, <1>3, <1>6 DEF CallInv, OpenCommand, Expected
  <2>6. InOrder(out) /\ Chunks(out) = Range(IF UsesTerminal(kind[c]) THEN AllChunks(n) ELSE Preview(n))
    <3>1. CASE c \notin terminals
      BY <2>4, <2>5, <3>1, PreviewInOrder DEF CompletedOutput
    <3>2. CASE c \in terminals /\ c \in outputSeen
      <4>1. InOrder(output[c]) /\ Chunks(output[c]) = 1 .. n
        BY <1>3, <3>2 DEF CallInv, Streamed
      <4> QED
        BY <2>4, <2>5, <3>2, <4>1, AllInOrder DEF CompletedOutput
    <3>3. CASE c \in terminals /\ c \notin outputSeen
      <4>1. InOrder(output[c]) /\ Chunks(output[c]) = {}
        BY <1>3, <3>3 DEF CallInv, Streamed
      <4>2. /\ AllChunks(n) \in Seq(Nat) /\ InOrder(AllChunks(n))
            /\ Range(AllChunks(n)) = 1 .. n /\ Chunks(AllChunks(n)) = 1 .. n
        BY <2>4, AllInOrder
      <4>3. \A x \in Chunks(output[c]), y \in Chunks(AllChunks(n)) : x < y
        BY <4>1
      <4>4. /\ InOrder(output[c] \o AllChunks(n))
            /\ Chunks(output[c] \o AllChunks(n)) = Chunks(output[c]) \cup Chunks(AllChunks(n))
        BY <2>4, <4>1, <4>2, <4>3, FollowedInOrder
      <4> QED
        BY <2>5, <3>3, <4>1, <4>2, <4>4 DEF CompletedOutput
    <3> QED
      BY <3>1, <3>2, <3>3
  <2> HIDE DEF out
  <2>7. Streamed(c)' /\ OpenCommand(c)'
    BY <1>2, <2>2 DEF Streamed, OpenCommand
  <2>8. ShownOnce(c)'
    BY <1>1, <2>2, <2>4, <2>5, <2>6 DEF ShownOnce
  <2> QED
    BY <2>3, <2>7, <2>8, OneCallChanges DEF CallInv
<1> QED
  BY <1>4, <1>5, <1>6

(* So does the card of one that is replayed.                                *)
LEMMA ReplayedOutput ==
  ASSUME TurnInv, CardInv, OutputInv, NEW c \in Calls, NEW k \in Kinds, NEW status, ReplayItem(c, k, status)
  PROVE  OutputInv'
<1>1. /\ life[c] = "new" /\ life' = [life EXCEPT ![c] = "closed"] /\ kind' = [kind EXCEPT ![c] = k]
      /\ produced' = [produced EXCEPT ![c] = MaxChunks] /\ CardReplays(c, k, status)
      /\ UNCHANGED <<turn, active, draining, owner>>
  BY DEF ReplayItem, turnVars
<1>2. PICK s \in Statuses : card' = [card EXCEPT ![c] = s]
  BY <1>1, CardOfReplayed
<1>3. /\ UNCHANGED <<started, terminals, outputSeen>>
      /\ output' = (IF k \in CommandKinds
                    THEN [output EXCEPT ![c] = IF UsesTerminal(k) THEN AllChunks(MaxChunks)
                                               ELSE Preview(MaxChunks)]
                    ELSE output)
      /\ covered' = (IF k \in CommandKinds THEN covered \ {c} ELSE covered)
  BY <1>1, CardOfReplayed
<1>4. OthersKept(c)
  BY <1>1, <1>2, <1>3 DEF OthersKept, Idle, TurnInv, CardInv, CardsTypeOK
<1>5. c \notin terminals' /\ life'[c] = "closed" /\ kind'[c] = k /\ produced'[c] = MaxChunks
  BY <1>1, <1>3 DEF TurnInv, CardInv, CardsTypeOK
<1>6. Streamed(c)' /\ OpenCommand(c)'
  BY <1>5 DEF Streamed, OpenCommand
<1>7. k \in CommandKinds => output'[c] = IF UsesTerminal(k) THEN AllChunks(MaxChunks) ELSE Preview(MaxChunks)
  BY <1>3 DEF CardInv
<1>8. ShownOnce(c)'
  BY <1>3, <1>5, <1>7, AllInOrder, PreviewInOrder, ItemsAssumption DEF ShownOnce
<1> QED
  BY <1>4, <1>6, <1>8, OneCallChanges DEF CallInv

(* Output is shown in the order in which it comes.                          *)
LEMMA StreamedOutput ==
  ASSUME TurnInv, CardInv, OutputInv, NEW c \in Calls, NEW chunk \in 0 .. MaxChunks, CommandOutput(c, chunk)
  PROVE  OutputInv'
<1>1. /\ OutputDelta(c, chunk) /\ life[c] = "open" /\ kind[c] \in CommandKinds
      /\ chunk \in {0, produced[c] + 1} /\ chunk <= MaxChunks /\ chunk \in Nat
      /\ produced' = (IF chunk = 0 THEN produced ELSE [produced EXCEPT ![c] = chunk])
      /\ UNCHANGED <<turn, active, draining, life, owner, kind>>
  BY ItemsAssumption DEF CommandOutput, turnVars
<1>2. produced[c] \in Nat /\ produced'[c] = (IF chunk = 0 THEN produced[c] ELSE chunk)
  BY <1>1 DEF CardInv
<1>3. CallInv(c)
  BY DEF OutputInv
<1>4. CASE c \notin started
  <2>1. UNCHANGED cardVars /\ c \notin terminals
    BY <1>1, <1>4 DEF OutputDelta, CardInv, CardsTypeOK
  <2>2. OthersKept(c)
    BY <1>1, <2>1 DEF OthersKept, Idle, cardVars, CardInv
  <2>3. OpenCommand(c)' /\ ShownOnce(c)'
    BY <1>1, <1>3, <2>1 DEF CallInv, OpenCommand, ShownOnce, Idle, cardVars
  <2>4. Streamed(c)'
    BY <2>1 DEF Streamed, cardVars
  <2> QED
    BY <2>2, <2>3, <2>4, OneCallChanges DEF CallInv
<1>5. CASE c \in started
  <2> DEFINE old == IF c \in terminals THEN output[c] ELSE << >>
             new == IF chunk = 0 THEN old ELSE Append(old, chunk)
  <2>1. /\ output' = [output EXCEPT ![c] = new]
        /\ outputSeen' = (IF c \in terminals /\ chunk # 0 THEN outputSeen \cup {c} ELSE outputSeen)
        /\ UNCHANGED <<started, terminals, card>> /\ covered' \in {covered, covered \ {c}}
    BY <1>1, <1>5 DEF OutputDelta
  <2>2. output'[c] = new
    BY <2>1 DEF CardInv
  <2>3. OthersKept(c)
    BY <1>1, <2>1 DEF OthersKept, Idle, CardInv
  <2>4. OpenCommand(c)' /\ ShownOnce(c)'
    BY <1>1, <1>3, <2>1 DEF CallInv, OpenCommand, ShownOnce, Idle
  <2>5. Streamed(c)'
    <3> SUFFICES ASSUME c \in terminals PROVE Streamed(c)'
      BY <2>1 DEF Streamed
    <3>1. /\ InOrder(output[c]) /\ Chunks(output[c]) = (IF c \in outputSeen THEN 1 .. produced[c] ELSE {})
          /\ c \notin outputSeen => produced[c] \in {0, MaxChunks}
      BY <1>3 DEF CallInv, Streamed
    <3>2. CASE chunk = 0
      BY <1>2, <2>1, <2>2, <3>1, <3>2 DEF Streamed
    <3>3. CASE chunk # 0
      <4>1. chunk = produced[c] + 1 /\ (c \notin outputSeen => produced[c] = 0)
        BY <1>1, <1>2, <3>1, <3>3, ItemsAssumption
      <4>2. Chunks(output[c]) = 1 .. produced[c]
        BY <1>2, <3>1, <4>1
      <4>3. output[c] \in Seq(Nat) /\ <<chunk>> \in Seq(Nat) /\ Append(output[c], chunk) = output[c] \o <<chunk>>
        BY <1>1, AppendFollows DEF CardInv, CardsTypeOK
      <4>4. InOrder(<<chunk>>) /\ Chunks(<<chunk>>) = {chunk}
        BY <3>3 DEF InOrder, Chunks, Range
      <4>5. \A x \in Chunks(output[c]), y \in Chunks(<<chunk>>) : x < y
        BY <1>2, <4>1, <4>2, <4>4
      <4>6. /\ InOrder(output[c] \o <<chunk>>)
            /\ Chunks(output[c] \o <<chunk>>) = Chunks(output[c]) \cup Chunks(<<chunk>>)
        BY <3>1, <4>3, <4>4, <4>5, FollowedInOrder
      <4>7. (1 .. produced[c]) \cup {chunk} = 1 .. chunk
        BY <1>2, <4>1
      <4>8. InOrder(output'[c]) /\ Chunks(output'[c]) = 1 .. produced'[c] /\ c \in outputSeen'
        BY <1>2, <2>1, <2>2, <3>3, <4>2, <4>3, <4>4, <4>6, <4>7
      <4> QED
        BY <4>8 DEF Streamed
    <3> QED
      BY <3>2, <3>3
  <2> QED
    BY <2>3, <2>4, <2>5, OneCallChanges DEF CallInv
<1> QED
  BY <1>4, <1>5

(* What is typed comes between chunks and replaces none.                    *)
LEMMA TypedOutput ==
  ASSUME TurnInv, CardInv, OutputInv, NEW c \in Calls, TerminalInteraction(c)
  PROVE  OutputInv'
<1>1. /\ c \in terminals /\ output' = [output EXCEPT ![c] = Append(output[c], 0)]
      /\ life[c] = "open" /\ kind[c] \in CommandKinds
      /\ UNCHANGED <<started, terminals, outputSeen, card, covered, turn, active, draining>>
      /\ UNCHANGED <<life, owner, kind, produced>>
  BY DEF TerminalInteraction, turnVars, itemVars
<1>2. CallInv(c) /\ output[c] \in Seq(Nat) /\ output'[c] = Append(output[c], 0)
  BY <1>1 DEF OutputInv, CardInv, CardsTypeOK
<1>3. OthersKept(c)
  BY <1>1 DEF OthersKept, Idle, CardInv
<1>4. OpenCommand(c)' /\ ShownOnce(c)'
  BY <1>1, <1>2 DEF CallInv, OpenCommand, ShownOnce, Idle
<1>5. Streamed(c)'
  <2>1. Append(output[c], 0) = output[c] \o <<0>> /\ <<0>> \in Seq(Nat)
    BY <1>2, AppendFollows
  <2>2. InOrder(<<0>>) /\ Chunks(<<0>>) = {}
    BY DEF InOrder, Chunks, Range
  <2>3. InOrder(output[c])
    BY <1>1, <1>2 DEF CallInv, Streamed
  <2>4. \A x \in Chunks(output[c]), y \in Chunks(<<0>>) : x < y
    BY <2>2
  <2>5. InOrder(output[c] \o <<0>>) /\ Chunks(output[c] \o <<0>>) = Chunks(output[c]) \cup Chunks(<<0>>)
    BY <1>2, <2>1, <2>2, <2>3, <2>4, FollowedInOrder
  <2>6. InOrder(output'[c]) /\ Chunks(output'[c]) = Chunks(output[c])
    BY <1>2, <2>1, <2>2, <2>5
  <2> QED
    BY <1>1, <1>2, <2>6 DEF CallInv, Streamed
<1> QED
  BY <1>3, <1>4, <1>5, OneCallChanges DEF CallInv

(* A dialog leaves the output as it is.                                     *)
LEMMA DialogOutput ==
  ASSUME TurnInv, CardInv, OutputInv, NEW c \in Calls, CardAsked(c), Asked
  PROVE  OutputInv'
<1>1. UNCHANGED <<turn, active, draining, life, owner, kind, produced>>
  BY DEF Asked, turnVars, itemVars
<1>2. /\ UNCHANGED <<started, terminals, outputSeen, output>>
      /\ covered' \in {covered, covered \ {c}, covered \cup {c}}
      /\ card' = card \/ \E s \in {"pending", "completed"} : card' = [card EXCEPT ![c] = s]
  BY CardOfDialog
<1>3. OthersKept(c)
  BY <1>1, <1>2 DEF OthersKept, Idle, CardInv, CardsTypeOK
<1>4. CallInv(c)
  BY DEF OutputInv
<1>5. CASE life[c] = "new"
  <2>1. kind[c] \notin CommandKinds
    BY <1>4, <1>5 DEF CallInv, OpenCommand, CommandKinds, Commands
  <2> QED
    BY <1>1, <1>2, <1>3, <1>4, <2>1, OneCallChanges DEF CallInv, Streamed, OpenCommand, ShownOnce
<1>6. CASE life[c] = "open"
  <2>1. card'[c] \in {card[c], "pending"}
    BY <1>6, CardOfDialog DEF CardInv, CardsTypeOK
  <2>2. kind[c] \in CommandKinds => card'[c] \notin {"completed", "failed"}
    BY <1>4, <1>6, <2>1 DEF CallInv, OpenCommand
  <2>3. Streamed(c)' /\ OpenCommand(c)'
    BY <1>1, <1>2, <1>4, <1>6, <2>2 DEF CallInv, Streamed, OpenCommand, Idle
  <2>4. ShownOnce(c)'
    BY <1>1, <2>2 DEF ShownOnce
  <2> QED
    BY <1>3, <2>3, <2>4, OneCallChanges DEF CallInv
<1> QED
  BY <1>5, <1>6, CardOfDialog

LEMMA OutputInductive == TurnInv /\ CardInv /\ OutputInv /\ [Next]_vars => OutputInv'
<1> SUFFICES ASSUME TurnInv, CardInv, OutputInv, [Next]_vars PROVE OutputInv'
  OBVIOUS
<1>1. ASSUME UNCHANGED <<cardVars, itemVars, turn>>, Idle => Idle' PROVE OutputInv'
  BY <1>1, OutputUntouched
<1>2. ASSUME NEW m, SetMode(m) PROVE OutputInv'
  BY <1>1, <1>2 DEF SetMode, turnVars, Idle
<1>3. ASSUME NEW m, BeginTurn(m) PROVE OutputInv'
  <2>1. \A c \in Calls : owner[c] # turn'
    BY <1>3 DEF BeginTurn, TurnInv
  <2> QED
    BY <1>3, <2>1, OutputForgotten DEF BeginTurn
<1>4. ASSUME NEW t, NEW reason, TurnCompleted(t, reason) PROVE OutputInv'
  BY <1>1, <1>4 DEF TurnCompleted, turnVars, Idle
<1>5. CASE FinishTurn
  <2>1. Idle => Idle'
    BY <1>5 DEF FinishTurn, Idle
  <2> QED
    BY <1>1, <1>5, <2>1 DEF FinishTurn
<1>6. ASSUME NEW yes, OfferImplementation(yes) PROVE OutputInv'
  BY <1>1, <1>6 DEF OfferImplementation, Idle
<1>7. CASE ThreadSwitched
  <2>1. Idle'
    BY <1>7 DEF ThreadSwitched, Idle
  <2> QED
    BY <1>7, <2>1, OutputForgotten DEF ThreadSwitched
<1>8. ASSUME NEW c \in Calls, NEW k \in Kinds, NEW file, ItemStarted(c, k, file) PROVE OutputInv'
  BY <1>8, StartedOutput
<1>9. ASSUME NEW c \in Calls, NEW status, ItemCompleted(c, status) PROVE OutputInv'
  BY <1>9, CompletedOutputShown
<1>10. ASSUME NEW c \in Calls, NEW k \in Kinds, NEW status, ReplayItem(c, k, status) PROVE OutputInv'
  BY <1>10, ReplayedOutput
<1>11. ASSUME NEW c \in Calls, NEW chunk \in 0 .. MaxChunks, CommandOutput(c, chunk) PROVE OutputInv'
  BY <1>11, StreamedOutput
<1>12. ASSUME NEW c \in Calls, TerminalInteraction(c) PROVE OutputInv'
  BY <1>12, TypedOutput
<1>13. ASSUME NEW c \in Calls, CardAsked(c), Asked PROVE OutputInv'
  BY <1>13, DialogOutput
<1>14. CASE AgentText \/ \E plan \in ServerPlans : TurnPlanUpdated(plan)
  BY <1>1, <1>14 DEF AgentText, TurnPlanUpdated, turnVars, Idle
<1>15. ASSUME NEW text, PlanItemCompleted(text) PROVE OutputInv'
  BY <1>1, <1>15 DEF PlanItemCompleted, turnVars, Idle
<1>16. ASSUME NEW diff, TurnDiffUpdated(diff) PROVE OutputInv'
  BY <1>1, <1>16 DEF TurnDiffUpdated, turnVars, Idle
<1>17. ASSUME NEW n, ShowDiff(n) PROVE OutputInv'
  BY <1>1, <1>17 DEF ShowDiff, turnVars, Idle
<1>18. CASE UNCHANGED vars
  BY <1>1, <1>18 DEF vars, turnVars, Idle
<1>19. CASE SessionStep
  BY <1>19, <1>2, <1>3, <1>4, <1>5, <1>6, <1>7 DEF SessionStep
<1>20. CASE MessageStep
  BY <1>20, <1>14, <1>15, <1>16, <1>17 DEF MessageStep
<1>21. ASSUME NEW c \in Calls, ItemStep(c) PROVE OutputInv'
  BY <1>21, <1>8, <1>9, <1>10, <1>11, <1>12, <1>13, RequestsAreDialogs DEF ItemStep
<1> QED
  BY <1>18, <1>19, <1>20, <1>21 DEF Next

(* However long the output of a command is, and however it comes, the card  *)
(* of the command that is over shows it once and in order                   *)
(* (terminal_updates.rs, tool_events).                                     *)
THEOREM OutputIsShownOnce == Spec => []OutputShownOnce
<1>1. OutputInv => OutputShownOnce
  BY DEF OutputInv, CallInv, ShownOnce, Chunks, OutputShownOnce
<1> QED
  BY <1>1, TurnInitially, TurnInductive, CardsInitially, CardsInductive, OutputInitially, OutputInductive,
     PTL DEF Spec

=============================================================================
