----------------------------- MODULE Approvals ------------------------------
(***************************************************************************)
(* What the adapter asks the user on behalf of the server, and what it     *)
(* makes of the answer (thread/features/approvals, thread/core/            *)
(* server_requests.rs).  An answer is the number of the option that was    *)
(* picked, or 0 if the client cancelled the request.                       *)
(***************************************************************************)
EXTENDS Naturals, Sequences

VARIABLE asked   \* the last request, its options, the pick and the reply

NothingAsked == [kind |-> "none"]
AskedInit == asked = NothingAsked

Answered(kind, call, shows, offered, picked, reply) ==
  asked' = [kind |-> kind, call |-> call, shows |-> shows, offered |-> offered,
            picked |-> picked, reply |-> reply]

Picks(offered) == 0 .. Len(offered)

-----------------------------------------------------------------------------
(* Commands.  A decision is its kind, with a host or a rule if it has one.  *)
Decision(k) == [k |-> k, of |-> "none"]
DecisionOf(k, of) == [k |-> k, of |-> of]

Refusal(kind) ==
  CASE kind = "command" -> Decision("cancel")
    [] kind = "edit" -> "decline"
    [] kind = "permissions" -> "none"

\* command_approval_decisions
OfferedDecisions(available, amendment) ==
  IF available # << >> THEN available
  ELSE << Decision("allow-once"),
          IF amendment = "none" THEN Decision("allow-for-session")
          ELSE DecisionOf("allow-matching-commands", amendment),
          Decision("reject-once") >>

Mut_SameId(offered) == [n \in DOMAIN offered |-> <<offered[n].k, 0>>]
(* command_approval_options, unique_option_id: the second option of a kind  *)
(* is told from the first by its place.                                    *)
OptionIds(offered) ==
  [n \in DOMAIN offered |->
     <<offered[n].k, IF \E m \in 1 .. n - 1 : offered[m].k = offered[n].k THEN n ELSE 0>>]

\* decisions_by_option_id: a later decision takes the place of an earlier one.
DecisionFor(id, offered) ==
  LET same == {n \in DOMAIN offered : OptionIds(offered)[n] = id}
  IN offered[CHOOSE n \in same : \A m \in same : m <= n]

\* command_approval_decision_from_outcome
DecisionFrom(offered, picked) ==
  IF picked = 0 THEN Decision("cancel") ELSE DecisionFor(OptionIds(offered)[picked], offered)

\* handle_command_approval
AskCommand(c, available, amendment) ==
  LET offered == OfferedDecisions(available, amendment) IN
  \E picked \in Picks(offered) :
    Answered("command", c, "command", offered, picked, DecisionFrom(offered, picked))

-----------------------------------------------------------------------------
(* Edits: the request names a call, and shows the changes of that call as   *)
(* they were announced.                                                    *)
EditOptions == <<"accept", "decline">>

AskEdit(c, planned) ==
  \E picked \in Picks(EditOptions) :
    Answered("edit", c, planned, EditOptions, picked, IF picked = 1 THEN "accept" ELSE "decline")

-----------------------------------------------------------------------------
(* Permissions: what was requested, for the session or the turn, or none.   *)
PermissionOptions == <<"session", "turn", "none">>

AskPermissions(c) ==
  \E picked \in Picks(PermissionOptions) :
    Answered("permissions", c, "request", PermissionOptions, picked,
             IF picked \in {1, 2} THEN PermissionOptions[picked] ELSE "none")

-----------------------------------------------------------------------------
(* Questions: labels, and whether another answer may be given.              *)
MaxOptions == 3

\* build_request_user_input_permission_options
QuestionOptions(question) ==
  LET labels == IF question.other /\ Len(question.labels) \in 1 .. MaxOptions - 1
                THEN Append(question.labels, "none of the above") ELSE question.labels
  IN IF Len(labels) > MaxOptions THEN SubSeq(labels, 1, MaxOptions) ELSE labels

(* handle_tool_request_user_input: a question without options is passed     *)
(* over, and a cancelled one ends the questions.                           *)
AnswersTo(questions, picks) ==
  LET Put(n) == QuestionOptions(questions[n]) # << >>
      Reached(n) == \A m \in 1 .. n : Put(m) => picks[m] # 0
  IN [n \in {n \in DOMAIN questions : Put(n) /\ Reached(n)} |->
        QuestionOptions(questions[n])[picks[n]]]

AskUser(c, questions) ==
  \E picks \in [DOMAIN questions -> 0 .. MaxOptions] :
    /\ \A n \in DOMAIN questions : picks[n] \in Picks(QuestionOptions(questions[n]))
    /\ Answered("input", c, "questions", questions, picks, AnswersTo(questions, picks))

\* reject_unsupported, reject_unparseable_server_request
Reject(c) == Answered("unsupported", c, "nothing", << >>, 0, "error")
=============================================================================
