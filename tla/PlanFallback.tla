---------------------------- MODULE PlanFallback ----------------------------
(***************************************************************************)
(* The plan the client sees, and the fallback plan the adapter moves on by *)
(* itself while the server does not (thread/features/plan/fallback.rs,     *)
(* events.rs and the plan branches of thread/features/notification).  A    *)
(* plan is the sequence of the statuses of its steps: the words of a step  *)
(* are left out.  The actions here are the part each handler plays for the *)
(* plan; TurnItems puts the handlers together.                             *)
(***************************************************************************)
EXTENDS PlanText

CONSTANT MaxVisible   \* MAX_VISIBLE_PLAN_ENTRIES

ASSUME PlanAssumption == MaxVisible \in Nat \ {0}

VARIABLES
  fallback,    \* fallback_plan: NoPlan, or its turn, phase, activity and steps
  planSeen,    \* turn_plan_updates_seen
  planSteps,   \* last_plan_steps: how many there are
  carryover,   \* carryover_plan_steps, 0 for none
  sawPlan,     \* active_turn_saw_plan_item
  visible      \* the plan the client shows

planVars == <<fallback, planSeen, planSteps, carryover, sawPlan, visible>>

NoPlan == [turn |-> 0, phase |-> "Done", sawTool |-> FALSE, steps |-> 0]

Phases == <<"Planning", "Implementing", "Verifying", "Summarizing", "Done">>
Rank(phase) == CHOOSE n \in 1 .. 5 : Phases[n] = phase

StatusRank(s) == CASE s = "pending" -> 0 [] s = "inProgress" -> 1 [] s = "completed" -> 2

-----------------------------------------------------------------------------
(* fallback_plan_entries_for_steps: the phases spread over the steps.       *)
AtLeast(least, n) == IF n < least THEN least ELSE n

InProgressStep(phase, steps) ==
  IF steps = 1 THEN 1
  ELSE CASE phase = "Planning" -> 1
         [] phase = "Implementing" -> 1 + AtLeast(1, (steps - 1) \div 3)
         [] phase = "Verifying" -> 1 + AtLeast(1, (2 * (steps - 1)) \div 3)
         [] phase = "Summarizing" -> steps

StatusesOf(phase, steps) ==
  [n \in 1 .. steps |->
     IF phase = "Done" \/ n < InProgressStep(phase, steps) THEN "completed"
     ELSE IF n = InProgressStep(phase, steps) THEN "inProgress" ELSE "pending"]

AllPending(plan) == plan # << >> /\ \A n \in DOMAIN plan : plan[n] = "pending"

PromoteFirst(plan) == IF AllPending(plan) THEN [plan EXCEPT ![1] = "inProgress"] ELSE plan

Mut_NoLimit(plan) == plan
\* limit_plan_entries
Shown(plan) == IF Len(plan) > MaxVisible THEN SubSeq(plan, 1, MaxVisible) ELSE plan

Show(plan) == visible' = Shown(plan) /\ planSteps' = Len(plan)

PlanInit ==
  /\ fallback = NoPlan /\ planSeen = {} /\ planSteps = 0
  /\ carryover = 0 /\ sawPlan = FALSE /\ visible = << >>

Owns(t) == fallback.turn = t /\ fallback # NoPlan
Drop(t) == fallback' = IF Owns(t) THEN NoPlan ELSE fallback

-----------------------------------------------------------------------------
\* should_clear_visible_plan_for_mode_change and has_visible_plan_state
ClearsOnModeChange(from, to) ==
  to # "plan" /\ (from = "plan" \/ fallback # NoPlan \/ planSteps > 0 \/ carryover > 0)

\* clear_visible_plan_state
ModeChangesPlan(from, to) ==
  IF ClearsOnModeChange(from, to)
  THEN fallback' = NoPlan /\ carryover' = 0 /\ Show(<< >>) /\ UNCHANGED <<planSeen, sawPlan>>
  ELSE UNCHANGED planVars

(* prepare_for_new_turn and then initialize_fallback_plan_for_turn: the     *)
(* steps the user asked to have implemented, or no plan yet.               *)
TurnTakesPlan(t, mode) ==
  /\ planSeen' = {}
  /\ sawPlan' = FALSE
  /\ IF mode # "plan" /\ carryover > 0
     THEN /\ fallback' = [turn |-> t, phase |-> "Planning", sawTool |-> FALSE, steps |-> carryover]
          /\ Show(StatusesOf("Planning", carryover))
     ELSE fallback' = NoPlan /\ Show(<< >>)
  /\ carryover' = IF mode = "plan" THEN carryover ELSE 0

Mut_EqualAdvances(phase) == phase # fallback.phase
\* fallback_plan_should_advance
Advances(phase) == Rank(phase) > Rank(fallback.phase)

\* maybe_advance_fallback_plan
AdvancePlan(t, phase) ==
  IF ~Owns(t) THEN UNCHANGED <<fallback, planSteps, visible>>
  ELSE /\ fallback' = [fallback EXCEPT !.sawTool = @ \/ phase # "Done",
                                       !.phase = IF Advances(phase) THEN phase ELSE @]
       /\ IF Advances(phase) THEN Show(StatusesOf(phase, fallback.steps))
          ELSE UNCHANGED <<planSteps, visible>>

PlanAdvances(t, phase) == AdvancePlan(t, phase) /\ UNCHANGED <<planSeen, carryover, sawPlan>>

(* emit_agent_message_delta: text, after the tools, sums the work up;       *)
(* fallback_plan_can_enter_summarizing.                                    *)
TextAdvances(t, busy) ==
  IF ~busy /\ Owns(t) /\ fallback.sawTool /\ Rank(fallback.phase) < Rank("Summarizing")
  THEN PlanAdvances(t, "Summarizing")
  ELSE UNCHANGED planVars

(* emit_turn_plan_updated: the plan of the server's own, which the adapter  *)
(* goes on with by itself as long as the server has begun none of it.      *)
ServerPlan(t, plan, mode, busy) ==
  IF mode = "plan" THEN UNCHANGED planVars
  ELSE /\ planSeen' = planSeen \cup {t}
       /\ sawPlan' = (sawPlan \/ plan # << >>)
       /\ LET phase == IF Owns(t) THEN fallback.phase
                       ELSE IF busy THEN "Implementing" ELSE "Planning"
          IN IF AllPending(plan)
             THEN /\ fallback' = [turn |-> t, phase |-> phase, steps |-> Len(plan),
                                  sawTool |-> (Owns(t) /\ fallback.sawTool) \/ busy]
                  /\ Show(StatusesOf(phase, Len(plan)))
             ELSE Drop(t) /\ Show(plan)
       /\ UNCHANGED carryover

Mut_TextWins(t, text, mode) ==
  LET entries == PlanOf(text, mode = "plan")
      plan == [n \in DOMAIN entries |-> entries[n].status]
  IN IF plan = << >> THEN UNCHANGED planVars
     ELSE sawPlan' = TRUE /\ Drop(t) /\ Show(PromoteFirst(plan)) /\ UNCHANGED <<planSeen, carryover>>
(* emit_plan_item_completed: the plan the model wrote as text, unless the   *)
(* server has sent one.                                                    *)
PlanItem(t, text, mode) ==
  LET entries == PlanOf(text, mode = "plan")
      plan == [n \in DOMAIN entries |-> entries[n].status]
  IN IF t \in planSeen THEN sawPlan' = TRUE /\ UNCHANGED <<fallback, planSeen, planSteps, carryover, visible>>
     ELSE IF plan = << >>
     THEN /\ sawPlan' = (sawPlan \/ (mode = "plan" /\ text # << >>))
          /\ UNCHANGED <<fallback, planSeen, planSteps, carryover, visible>>
     ELSE /\ sawPlan' = TRUE
          /\ IF mode = "plan"
             THEN fallback' = NoPlan /\ Show(plan) /\ UNCHANGED planSeen
             ELSE Drop(t) /\ Show(PromoteFirst(plan)) /\ planSeen' = planSeen \cup {t}
          /\ UNCHANGED carryover

\* emit_turn_completed: the fallback plan of the turn is done, and gone.
PlanEnds(t) ==
  /\ IF Owns(t) THEN Show(StatusesOf("Done", fallback.steps)) ELSE UNCHANGED <<planSteps, visible>>
  /\ Drop(t)
  /\ planSeen' = planSeen \ {t}
  /\ UNCHANGED <<carryover, sawPlan>>

\* should_offer_plan_implementation
OffersImplementation == sawPlan \/ planSteps > 0

\* maybe_prepare_plan_implementation, when the user agrees.
AgreeToPlan ==
  /\ carryover' = IF planSteps > 0 THEN planSteps ELSE carryover
  /\ UNCHANGED <<fallback, planSeen, planSteps, sawPlan, visible>>

PlanTypeOK ==
  /\ fallback \in [turn : Nat, phase : Range(Phases), sawTool : BOOLEAN, steps : Nat]
  /\ planSeen \subseteq Nat
  /\ planSteps \in Nat /\ carryover \in Nat
  /\ sawPlan \in BOOLEAN
  /\ visible \in Seq({"pending", "inProgress", "completed"}) /\ Len(visible) <= MaxVisible
=============================================================================
