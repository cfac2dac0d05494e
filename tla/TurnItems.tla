------------------------------ MODULE TurnItems ------------------------------
(***************************************************************************)
(* What a session shows of its turns: the router of notifications          *)
(* (thread/features/notification), the item handlers it calls              *)
(* (thread/core/item_handlers.rs, terminal_updates.rs) and the steps of    *)
(* the turn and of the session that reset what they keep.  One action      *)
(* handles one message of the server, in the order it sent them.           *)
(*                                                                         *)
(* The server begins items only in a turn that runs.  After turn/completed *)
(* it may repeat it, and may still send what is left of the items that     *)
(* were open, also once the next turn runs.                                *)
(***************************************************************************)
EXTENDS PlanFallback, ToolCards, TurnDiff, Approvals

CONSTANTS
  MaxChunks,    \* chunks of output of a command
  Scenes,       \* what the messages of one behaviour are about
  ServerPlans,  \* plans of turn/plan/updated
  PlanTexts,    \* texts of plan items
  Offers,       \* available decisions of a command approval
  TurnDiffs,    \* diffs of turn/diff/updated
  Questions     \* questions of a request for input

PlanStatuses == {"pending", "inProgress", "completed"}

ASSUME ItemsAssumption == MaxChunks \in Nat /\ \A s \in Scenes : s.turns \in Nat

\* What the server sends: plans, diffs and available decisions, and texts whose
\* entries have a status.
ASSUME MessagesAssumption ==
  /\ ServerPlans \subseteq Seq(PlanStatuses) /\ TurnDiffs \subseteq Diffs
  /\ \A offer \in Offers : offer.available \in Seq(Range(offer.available))
  /\ \A text \in PlanTexts, itemText \in BOOLEAN :
       PlanOf(text, itemText) \in Seq([k : EntryKinds, status : PlanStatuses])

VARIABLES
  scene,
  turn,          \* the turn begun last, 0 for none
  active,        \* active_turn_id is that turn
  mode,          \* collaboration_mode_kind of the session
  turnMode,      \* that of the turn, active_turn_mode_kind while it is active
  lastCompleted, \* last_completed_turn_id, 0 for none
  stop,          \* the stop reason of the turn, or "none"
  draining,      \* the notifications left after the turn are drained
  agreed,        \* the user agreed to have the plan implemented
  replaying,     \* the history of a thread is being shown
  running,       \* the server runs the turn
  life, owner, kind, target, produced,   \* the items of the server
  told,          \* history: the plan of its own the server sent last
  settled        \* history: the diffs of the turns that have ended

turnVars == <<turn, active, draining, turnMode, lastCompleted, stop, agreed, replaying, running>>
itemVars == <<life, owner, kind, target, produced>>
vars == <<scene, turnVars, mode, itemVars, told, settled, planVars, cardVars, diffVars, report, asked>>

\* What the messages of a behaviour are about, the kinds of its tool calls, and
\* how many turns it has.
About(s) == scene.about = s

Init ==
  /\ scene \in Scenes
  /\ turn = 0 /\ active = FALSE /\ draining = FALSE /\ mode = "default" /\ turnMode = "default"
  /\ lastCompleted = 0 /\ stop = "none" /\ agreed = FALSE /\ running = FALSE
  /\ replaying \in BOOLEAN
  /\ life = [c \in Calls |-> "new"] /\ owner = [c \in Calls |-> 0]
  /\ kind = [c \in Calls |-> "none"] /\ target = [c \in Calls |-> NoFile]
  /\ produced = [c \in Calls |-> 0]
  /\ told = << >> /\ settled = << >>
  /\ PlanInit /\ CardsInit /\ DiffInit /\ AskedInit

Silent == asked' = NothingAsked /\ UNCHANGED scene
Quiet == Silent /\ report' = NoReport

-----------------------------------------------------------------------------
(* The session and its turns.                                              *)

\* set_mode and set_permission_mode, from the client or from /plan
SetMode(to) ==
  /\ About("plan")
  /\ mode' = to
  /\ ModeChangesPlan(mode, to)
  /\ told' = IF ClearsOnModeChange(mode, to) THEN << >> ELSE told
  /\ Quiet /\ UNCHANGED <<turnVars, itemVars, settled, cardVars, diffVars>>

Idle == ~active /\ ~draining

\* run_single_turn_ext, run_review_turn_ext and prepare_started_turn; a /plan
\* prompt is a turn in plan mode whatever the mode of the session.
BeginTurn(m) ==
  /\ turn < scene.turns /\ Idle
  /\ agreed => m = "default"
  /\ turn' = turn + 1 /\ active' = TRUE /\ turnMode' = m
  /\ lastCompleted' = 0 /\ stop' = "none" /\ agreed' = FALSE
  /\ replaying' = FALSE /\ running' = TRUE /\ UNCHANGED draining
  /\ TurnTakesPlan(turn + 1, m) /\ CardsForgotten /\ DiffForgotten
  /\ told' = << >>
  /\ Quiet /\ UNCHANGED <<mode, itemVars, settled>>

(* emit_turn_completed, and its copy in handle_active_turn_message:         *)
(* register_turn_completion lets the first one of the turn through.        *)
TurnCompleted(t, reason) ==
  /\ t = turn \/ ~running
  /\ IF t # turn \/ lastCompleted = t
     THEN UNCHANGED <<turnVars, settled, planVars, diffVars>>
     ELSE /\ lastCompleted' = t /\ stop' = reason /\ running' = FALSE
          /\ PlanEnds(t)
          /\ FinalizeDiff(t)
          /\ settled' = IF latest = NoDiff THEN settled
                        ELSE Append(settled, [turn |-> t, diff |-> latest])
          /\ UNCHANGED <<turn, active, draining, turnMode, agreed, replaying>>
  /\ Quiet /\ UNCHANGED <<mode, itemVars, told, cardVars>>

\* finish_active_turn: finalize_active_turn, and then the drain of what is left
FinishTurn ==
  /\ \/ active /\ stop # "none" /\ active' = FALSE /\ draining' = TRUE
     \/ draining /\ draining' = FALSE /\ UNCHANGED active
  /\ Quiet
  /\ UNCHANGED <<turn, turnMode, lastCompleted, stop, agreed, replaying, running, mode, itemVars,
                 told, settled, planVars, cardVars, diffVars>>

(* maybe_prepare_plan_implementation: the turn that planned is over, and    *)
(* the user is asked whether the next one should do it.                    *)
OfferImplementation(yes) ==
  /\ Idle /\ stop = "EndTurn" /\ turnMode = "plan" /\ ~agreed /\ ~replaying
  /\ OffersImplementation
  /\ stop' = "none" /\ agreed' = yes
  /\ IF yes THEN AgreeToPlan /\ mode' = "default" ELSE UNCHANGED <<planVars, mode>>
  /\ Quiet /\ UNCHANGED <<turn, active, draining, turnMode, lastCompleted, replaying, running, itemVars,
                          told, settled, cardVars, diffVars>>

(* apply_thread_switch: reset_turn_transient_state, and what belongs to the *)
(* thread that is left.  The plan the client shows is not taken away.      *)
ThreadSwitched ==
  /\ Idle /\ ~agreed /\ turn > 0 /\ ~replaying
  /\ replaying' = TRUE /\ lastCompleted' = 0 /\ stop' = "none"
  /\ fallback' = NoPlan /\ planSeen' = {} /\ planSteps' = 0 /\ carryover' = 0 /\ sawPlan' = FALSE
  /\ UNCHANGED visible
  /\ CardsForgotten /\ HistoryForgotten
  /\ told' = << >> /\ settled' = << >>
  /\ Quiet /\ UNCHANGED <<turn, active, draining, turnMode, agreed, running, mode, itemVars>>

-----------------------------------------------------------------------------
(* Items.                                                                  *)
Current(c) == life[c] = "open" /\ owner[c] = turn

\* maybe_advance_fallback_for_started_item
ItemAdvancesPlan(k) == PlanAdvances(turn, IF k \in CommandKinds /\ Commands[k].verifies
                                           THEN "Verifying" ELSE "Implementing")

CardStarts(c, k, file) ==
  CASE k \in CommandKinds -> CommandStarted(c, k)
    [] k = "mcp" -> McpToolCallStarted(c)
    [] k = "web" -> WebSearchStarted(c)
    [] k = "collab" -> CollabStarted(c)
    [] k = "imageView" -> ImageViewStarted(c)
    [] k = "imageGeneration" -> ImageGenerationStarted(c, "generating")
    [] k = "edit" -> EditStarted(c, file)

\* A command whose output is not streamed has all of it at once.
ShowsOutput == About("cards") \/ About("approvals")
Batches(k) == IF ShowsOutput /\ k \in CommandKinds THEN {MaxChunks} ELSE {}

\* handle_item_started, of the turn that runs
ItemStarted(c, k, file) ==
  /\ running /\ life[c] = "new" /\ k \in scene.kinds
  /\ life' = [life EXCEPT ![c] = "open"] /\ owner' = [owner EXCEPT ![c] = turn]
  /\ kind' = [kind EXCEPT ![c] = k]
  /\ target' = [target EXCEPT ![c] = IF k = "edit" THEN file ELSE NoFile]
  /\ ItemAdvancesPlan(k)
  /\ CardStarts(c, k, file)
  /\ IF k = "edit" THEN RememberEdit(file) ELSE UNCHANGED edited
  /\ produced' \in {[produced EXCEPT ![c] = n] : n \in {0} \cup Batches(k)}
  /\ Quiet /\ UNCHANGED <<turnVars, mode, told, settled, latest, history, diffCard>>

CardEnds(c, status) ==
  CASE kind[c] \in CommandKinds -> CommandCompleted(c, status, produced[c])
    [] kind[c] = "mcp" -> McpToolCallCompleted(c, status)
    [] kind[c] = "web" -> WebSearchCompleted(c)
    [] kind[c] = "collab" -> CollabCompleted(c, status)
    [] kind[c] = "imageView" -> UNCHANGED cardVars
    [] kind[c] = "imageGeneration" -> ImageGenerationCompleted(c, status)
    [] kind[c] = "edit" -> EditCompleted(c, status)

\* Only an image is "incomplete" when it ends.
EndsAs(k, status) == status = "incomplete" => k = "imageGeneration"

\* expected_turn_id: of the turn, until its drain is over
Expected(c) == owner[c] = turn /\ ~Idle

(* handle_item_completed: the end of an item is dropped, unless it is of    *)
(* the turn that is expected.                                              *)
ItemCompleted(c, status) ==
  /\ life[c] = "open" /\ EndsAs(kind[c], status)
  /\ life' = [life EXCEPT ![c] = "closed"]
  /\ IF ~Expected(c) THEN UNCHANGED <<cardVars, edited>>
     ELSE /\ CardEnds(c, status)
          /\ IF kind[c] = "edit" THEN RememberEdit(target[c]) ELSE UNCHANGED edited
  /\ Quiet /\ UNCHANGED <<turnVars, mode, owner, kind, target, produced, told, settled, planVars,
                          latest, history, diffCard>>

(* handle_command_output_delta looks at the call alone, not at its turn;    *)
(* a delta may be empty.                                                   *)
CommandOutput(c, chunk) ==
  /\ life[c] = "open" /\ kind[c] \in CommandKinds /\ ShowsOutput
  /\ chunk \in {0, produced[c] + 1} /\ chunk <= MaxChunks
  /\ produced' = IF chunk = 0 THEN produced ELSE [produced EXCEPT ![c] = chunk]
  /\ OutputDelta(c, chunk)
  /\ Quiet /\ UNCHANGED <<turnVars, mode, life, owner, kind, target, told, settled, planVars, diffVars>>

(* handle_terminal_interaction: what was typed is shown, as 0, and is not   *)
(* output of the command.                                                  *)
TerminalInteraction(c) ==
  /\ life[c] = "open" /\ kind[c] \in CommandKinds /\ About("cards")
  /\ c \in terminals /\ \A n \in DOMAIN output[c] : output[c][n] # 0
  /\ output' = [output EXCEPT ![c] = Append(@, 0)]
  /\ Quiet /\ UNCHANGED <<turnVars, mode, itemVars, told, settled, planVars, started, terminals,
                          outputSeen, card, covered, plannedEdit, diffVars>>

\* emit_agent_message_delta
AgentText ==
  /\ running /\ TextAdvances(turn, started # {})
  /\ Quiet /\ UNCHANGED <<turnVars, mode, itemVars, told, settled, cardVars, diffVars>>

\* handle_turn_plan_updated
TurnPlanUpdated(plan) ==
  /\ running /\ About("plan")
  /\ ServerPlan(turn, plan, turnMode, started # {})
  /\ told' = IF turnMode = "plan" THEN told ELSE IF AllPending(plan) THEN << >> ELSE plan
  /\ Quiet /\ UNCHANGED <<turnVars, mode, itemVars, settled, cardVars, diffVars>>

(* handle_item_completed, of a plan item: in the turn, or in its drain, when *)
(* active_turn_mode_kind is gone.                                          *)
PlanItemCompleted(text) ==
  /\ running \/ draining
  /\ About("plan")
  /\ PlanItem(turn, text, IF draining THEN "none" ELSE turnMode)
  /\ Quiet /\ UNCHANGED <<turnVars, mode, itemVars, told, settled, cardVars, diffVars>>

\* handle_turn_diff_updated
TurnDiffUpdated(diff) ==
  /\ running /\ About("diff")
  /\ DiffUpdated(diff)
  /\ Quiet /\ UNCHANGED <<turnVars, mode, itemVars, told, settled, planVars, cardVars>>

\* handle_diff_command, of the last n turns
ShowDiff(n) ==
  /\ Idle /\ About("diff")
  /\ DiffCommand(n)
  /\ Silent /\ UNCHANGED <<turnVars, mode, itemVars, told, settled, planVars, cardVars>>

-----------------------------------------------------------------------------
(* The items of a thread that is loaded or switched to, one after another. *)
CardReplays(c, k, status) ==
  CASE k \in CommandKinds -> CommandReplayed(c, k, status, MaxChunks)
    [] k = "mcp" -> McpReplayed(c, status)
    [] k \in {"web", "imageView"} -> WebImageReplayed(c)
    [] k = "imageGeneration" -> ImageGenerationReplayed(c, status)
    [] k = "collab" -> CollabReplayed(c, status)
    [] k = "edit" -> EditReplayed(c, status)

\* replay_thread_item
ReplayItem(c, k, status) ==
  /\ replaying /\ life[c] = "new" /\ k \in scene.kinds /\ EndsAs(k, status)
  /\ life' = [life EXCEPT ![c] = "closed"] /\ kind' = [kind EXCEPT ![c] = k]
  /\ produced' = [produced EXCEPT ![c] = MaxChunks]
  /\ CardReplays(c, k, status)
  /\ Quiet /\ UNCHANGED <<turnVars, mode, owner, target, told, settled, planVars, diffVars>>

-----------------------------------------------------------------------------
(* Requests of the server, handle_server_request.                          *)
Asks(c) == running /\ Current(c) /\ About("approvals")
\* A request about a call of its own, which is not an item.
AsksApart(c) == running /\ life[c] = "new" /\ About("approvals")
Asked == report' = NoReport /\ UNCHANGED <<scene, turnVars, mode, itemVars, told, settled, planVars, diffVars>>

CommandApproval(c, offer, detailed) ==
  /\ Asks(c) /\ kind[c] \in CommandKinds
  /\ AskCommand(c, offer.available, offer.amendment)
  /\ CommandPending(c, kind[c], detailed) /\ Asked

FileChangeApproval(c) ==
  /\ Asks(c) /\ kind[c] = "edit"
  /\ AskEdit(c, plannedEdit[c])
  /\ CardPending(c) /\ Asked

PermissionsApproval(c) ==
  /\ AsksApart(c) /\ AskPermissions(c) /\ CardPending(c) /\ Asked

UserInput(c, questions) ==
  /\ AsksApart(c) /\ AskUser(c, questions) /\ QuestionAnswered(c) /\ Asked

Unsupported(c) ==
  /\ Asks(c) /\ Reject(c) /\ Asked /\ UNCHANGED cardVars

-----------------------------------------------------------------------------
\* How a turn ends matters to what follows a plan alone.
Reasons == IF About("plan") THEN {"EndTurn", "Cancelled"} ELSE {"EndTurn"}

SessionStep ==
  \/ \E m \in {"plan", "default"} : SetMode(m) \/ BeginTurn(m)
  \/ \E t \in 1 .. turn, reason \in Reasons : TurnCompleted(t, reason)
  \/ FinishTurn
  \/ \E yes \in BOOLEAN : OfferImplementation(yes)
  \/ ThreadSwitched

ItemStep(c) ==
  \/ \E k \in Kinds, file \in Files : ItemStarted(c, k, file)
  \/ \E status \in {"completed", "failed", "incomplete"} :
       \/ ItemCompleted(c, status)
       \/ \E k \in Kinds : ReplayItem(c, k, status)
  \/ \E chunk \in 0 .. MaxChunks : CommandOutput(c, chunk)
  \/ TerminalInteraction(c)
  \/ \E offer \in Offers, detailed \in BOOLEAN : CommandApproval(c, offer, detailed)
  \/ FileChangeApproval(c)
  \/ PermissionsApproval(c)
  \/ \E questions \in Questions : UserInput(c, questions)
  \/ Unsupported(c)

MessageStep ==
  \/ AgentText
  \/ \E plan \in ServerPlans : TurnPlanUpdated(plan)
  \/ \E text \in PlanTexts : PlanItemCompleted(text)
  \/ \E diff \in TurnDiffs : TurnDiffUpdated(diff)
  \/ \E n \in 1 .. HistoryLimit : ShowDiff(n)

Next == SessionStep \/ MessageStep \/ \E c \in Calls : ItemStep(c)

Spec == Init /\ [][Next]_vars

-----------------------------------------------------------------------------
(* The plan, the cards and the diffs keep to their types.                   *)
TypeOK ==
  /\ turn \in 0 .. scene.turns /\ lastCompleted \in {0, turn}
  /\ life \in [Calls -> {"new", "open", "closed"}]
  /\ PlanTypeOK /\ CardsTypeOK /\ DiffTypeOK

(* The card of a command that is over shows every chunk of its output once *)
(* and in order, whether it was streamed, came at the end, or what was      *)
(* typed was mixed in; of an output too long for a plain card, its two ends.*)
(* The text of a request for approval is gone from it, but for one kind of  *)
(* card: a terminal behind the details of such a request.                  *)
InOrder(out) ==
  \A m, n \in DOMAIN out : m < n /\ 0 \notin {out[m], out[n]} => out[m] < out[n]

OutputShownOnce ==
  \A c \in Calls :
    card[c] \in {"completed", "failed"} /\ kind[c] \in CommandKinds
      => /\ InOrder(output[c])
         /\ Range(output[c]) \ {0}
              = Range(IF UsesTerminal(kind[c]) THEN AllChunks(produced[c]) ELSE Preview(produced[c]))
         /\ c \in covered => UsesTerminal(kind[c])

(* While a turn runs, what is still to come of the items of earlier turns   *)
(* does not touch their cards.                                             *)
LateItemsIgnored ==
  [][active => \A c \in Calls : owner[c] \notin {0, turn}
                 => card'[c] = card[c] /\ output'[c] = output[c]]_vars

(* In a turn the plan the adapter moves on by itself never takes a step     *)
(* back, in whatever order commands, checks, edits and text arrive.        *)
PlanNeverFallsBack ==
  [][turn' = turn /\ fallback # NoPlan /\ (fallback'.steps = fallback.steps \/ stop' # stop)
       => \A n \in DOMAIN visible :
            n \in DOMAIN visible' /\ StatusRank(visible[n]) <= StatusRank(visible'[n])]_vars

(* Once the server has sent a plan with a step begun, it is what the client *)
(* shows, until the turn or the mode changes: neither tools, nor text, nor  *)
(* a plan item of the running turn, nor the end of the turn replaces it.    *)
(* After the end, which forgets that there was such a plan, a plan item in  *)
(* the drain does, and is remembered in its place.                         *)
ServerPlanShown ==
  told # << >> => visible = Shown(told) \/ (~running /\ turn \in planSeen)

(* /diff of the last n turns shows files those turns have changed, and all  *)
(* of those that only one of them has; none of the turns it was asked for   *)
(* is missing, unless it has left the history.                             *)
Newest(n) == SubSeq(settled, IF n > Len(settled) THEN 1 ELSE Len(settled) - n + 1, Len(settled))

DiffShowsNewest ==
  LET turns == Newest(report.last)
      Changing(f) == {n \in DOMAIN turns : f \in turns[n].diff.changed}
  IN report # NoReport =>
       \A f \in Files : /\ f \in report.files => Changing(f) # {}
                        /\ (\E n \in Changing(f) : Changing(f) = {n}) => f \in report.files

(* The server is told what the user picked: the decision the option stood   *)
(* for, and none that allows anything if the request was cancelled; and an  *)
(* edit is approved on the changes it announced.                           *)
ReplyMatchesChoice ==
  /\ asked.kind \in {"command", "edit", "permissions"} =>
       asked.reply = IF asked.picked = 0 THEN Refusal(asked.kind) ELSE asked.offered[asked.picked]
  /\ asked.kind = "edit" => asked.shows = target[asked.call]

(* The diff of a turn does not show again a file that an edit of the turn   *)
(* has shown, save, in a workspace below the root of the repository, one    *)
(* that was deleted and one that has a namesake there.                     *)
EditsNotShownTwice ==
  \A c \in Calls :
    diffCard.turn = turn /\ owner[c] = turn /\ kind[c] = "edit" /\ target[c] \in diffCard.shown
      => BelowRoot /\ target[c] \in diffCard.gone \cup DOMAIN Namesakes
=============================================================================
