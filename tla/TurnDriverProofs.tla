-------------------------- MODULE TurnDriverProofs --------------------------
(***************************************************************************)
(* Proofs about TurnDriver, for any number of prompts, turns and requests: *)
(* what ends a prompt, where the requests of the server are, and which     *)
(* turn is the active one.                                                 *)
(***************************************************************************)
EXTENDS TurnDriver, TLAPS

USE DEF innerVars, driverVars, requestVars, serverVars, turnVars

-----------------------------------------------------------------------------
(* The steps.                                                              *)

(* The steps in which a prompt ends with an error.                          *)
Failing(p) ==
  /\ Fail(p)
  /\ requested' \subseteq requested
  /\ UNCHANGED <<activeTurn, lastCompleted, sawPlan, stall, turn, mode,
                 interrupted, notified, target, inbox, requestVars,
                 up, owner, status, asked, notes>>

(* Every way in which a prompt can fail is a failure of that kind.          *)
LEMMA FailingSteps ==
  ASSUME NEW p \in Prompts
  PROVE  StartFails(p) \/ InboxCloses(p) \/ DialogFails(p) \/ OfferFails(p) \/ WriteFails(p) => Failing(p)
  BY DEF StartFails, InboxCloses, DialogFails, OfferFails, WriteFails, Failing

-----------------------------------------------------------------------------
(* Types.                                                                  *)

(* The client of a behaviour is one of those there are.                     *)
ClientKnown == client \in Clients

LEMMA TypesInitially == Init => TypeOK /\ ClientKnown
  BY TurnDriverAssumption DEF Init, TypeOK, ClientKnown, Readers, Phases

(* What the user chose, and the server is told, is a decision.              *)
LEMMA DecisionTypes ==
  ASSUME NEW kind, NEW choice \in Decisions
  PROVE  DecisionFor(kind, choice) \in {"accept", "decline", "cancel"}
  BY DEF DecisionFor, FileDecision, Decisions

(* An answer keeps the list of answers typed.                               *)
LEMMA AnswerTypes ==
  ASSUME TypeOK, NEW r, NEW decision \in {"accept", "decline", "cancel", "refuse"}, Answer(r, decision)
  PROVE  answers' \in [Requests -> Seq({"accept", "decline", "cancel", "refuse"})]
<1>1. \A q \in Requests : Append(answers[q], decision) \in Seq({"accept", "decline", "cancel", "refuse"})
  BY DEF TypeOK
<1> QED
  BY <1>1 DEF Answer, TypeOK

(* So does what a handler notes about a message.                            *)
LEMMA NoteTypes ==
  ASSUME TypeOK, NEW k \in Nat, NEW m, Note(k, m)
  PROVE  /\ sawPlan' \in {"yes", "no"} /\ stall' \in {"quiet", "reconnecting", "noticed"}
         /\ lastCompleted' \in Nat
  BY DEF TypeOK, Note

(* So does taking a message from the inbox.                                 *)
LEMMA TakenTypes ==
  ASSUME TypeOK, NEW a \in Readers, inbox # << >>, hand' = [hand EXCEPT ![a] = Head(inbox)],
         inbox' = Tail(inbox)
  PROVE  /\ hand' \in [Readers -> Messages \cup {NoMessage}] /\ inbox' \in Seq(Messages)
<1>1. Head(inbox) \in Messages /\ Tail(inbox) \in Seq(Messages)
  BY DEF TypeOK
<1> QED
  BY <1>1 DEF TypeOK

(* The steps of a prompt keep the types.                                    *)
LEMMA PromptTypes ==
  ASSUME TypeOK, ClientKnown, NEW p \in Prompts, PromptStep(p)
  PROVE  TypeOK'
<1>1. p \in Readers
  BY DEF Readers
<1>2. CASE Prompt(p)
  <2>1. client.modes \subseteq {"default", "plan"}
    BY TurnDriverAssumption DEF ClientKnown
  <2>2. mode' \in [Prompts -> {"default", "plan"}] /\ phase' \in [Prompts -> Phases]
    BY <1>2, <2>1 DEF Prompt, TypeOK, Phases
  <2> QED
    BY <1>2, <2>2 DEF Prompt, TypeOK
<1>3. CASE StartTurn(p)
  BY <1>1, <1>3 DEF StartTurn, TypeOK, Phases
<1>4. CASE TurnStarted(p)
  <2>1. PICK k \in Turns : turn' = [turn EXCEPT ![p] = k] /\ activeTurn' = k
    BY <1>4 DEF TurnStarted, Started
  <2>2. k \in Nat /\ turn' \in [Prompts -> Nat]
    BY <2>1 DEF TypeOK, Turns
  <2>3. phase' \in [Prompts -> Phases] /\ result' \in [Prompts -> {"none", "EndTurn", "Cancelled", "error"}]
    BY <1>4 DEF TurnStarted, TypeOK, Phases
  <2> QED
    BY <1>4, <2>1, <2>2, <2>3 DEF TurnStarted, TypeOK
<1>5. CASE Failing(p)
  <2>1. /\ phase' \in [Prompts -> Phases] /\ result' \in [Prompts -> {"none", "EndTurn", "Cancelled", "error"}]
        /\ pending' \in [Prompts -> Nat] /\ hand' \in [Readers -> Messages \cup {NoMessage}]
        /\ innerLock' \in Readers \cup {None}
    BY <1>1, <1>5 DEF Failing, Fail, TypeOK, Phases
  <2> QED
    BY <1>5, <2>1 DEF Failing, TypeOK
<1>6. CASE EndFlush(p) \/ Return(p) \/ AcceptPlan(p) \/ DeclinePlan(p)
  <2>1. phase' \in [Prompts -> Phases] /\ innerLock' \in Readers \cup {None}
    BY <1>1, <1>6 DEF EndFlush, Return, AcceptPlan, DeclinePlan, TypeOK, Phases
  <2>2. mode' \in [Prompts -> {"default", "plan"}]
    BY <1>6 DEF EndFlush, Return, AcceptPlan, DeclinePlan, TypeOK
  <2> QED
    BY <1>6, <2>1, <2>2 DEF EndFlush, Return, AcceptPlan, DeclinePlan, TypeOK
<1>7. CASE Receive(p)
  BY <1>1, <1>7, TakenTypes DEF Receive, TypeOK
<1>8. CASE HandleNote(p)
  <2>1. /\ sawPlan' \in {"yes", "no"} /\ stall' \in {"quiet", "reconnecting", "noticed"} /\ lastCompleted' \in Nat
    BY <1>8, NoteTypes DEF HandleNote, TypeOK
  <2>2. phase' \in [Prompts -> Phases] /\ result' \in [Prompts -> {"none", "EndTurn", "Cancelled", "error"}]
    BY <1>8 DEF HandleNote, TypeOK, Phases
  <2>3. hand' \in [Readers -> Messages \cup {NoMessage}]
    BY <1>1, <1>8 DEF HandleNote, TypeOK
  <2> QED
    BY <1>8, <2>1, <2>2, <2>3 DEF HandleNote, TypeOK
<1>9. CASE HandleCommand(p)
  <2>1. hand[p] \in Messages
    BY <1>1, <1>9 DEF HandleCommand, Handling, TypeOK
  <2>2. hand[p].id \in Nat
    BY <2>1 DEF Messages
  <2>3. pending' \in [Prompts -> Nat] /\ hand' \in [Readers -> Messages \cup {NoMessage}]
    BY <1>1, <1>9, <2>2 DEF HandleCommand, TypeOK
  <2>4. dialog' \in [Requests -> Decisions \cup {"none", "open", "failed"}]
    BY <1>9 DEF HandleCommand, TypeOK
  <2> QED
    BY <1>9, <2>3, <2>4 DEF HandleCommand, TypeOK
<1>10. CASE HandleRequest(p)
  <2>1. dialog' \in [Requests -> Decisions \cup {"none", "open", "failed"}]
    BY <1>10 DEF HandleRequest, TypeOK
  <2>2. phase' \in [Prompts -> Phases] /\ innerLock' \in Readers \cup {None}
    BY <1>1, <1>10 DEF HandleRequest, TypeOK, Phases
  <2> QED
    BY <1>10, <2>1, <2>2 DEF HandleRequest, TypeOK
<1>11. CASE AnswerAsked(p)
  <2>1. answers' \in [Requests -> Seq({"accept", "decline", "cancel", "refuse"})]
    BY <1>11, DecisionTypes, AnswerTypes DEF AnswerAsked
  <2>2. phase' \in [Prompts -> Phases] /\ hand' \in [Readers -> Messages \cup {NoMessage}]
    BY <1>1, <1>11 DEF AnswerAsked, TypeOK, Phases
  <2> QED
    BY <1>11, <2>1, <2>2 DEF AnswerAsked, TypeOK
<1>12. CASE AnswerPending(p)
  <2>1. PICK decision \in {"accept", "decline", "cancel"} : Answer(pending[p], decision)
    BY <1>12, DecisionTypes DEF AnswerPending
  <2>2. answers' \in [Requests -> Seq({"accept", "decline", "cancel", "refuse"})]
    BY <2>1, AnswerTypes
  <2>3. pending' \in [Prompts -> Nat]
    BY <1>12 DEF AnswerPending, TypeOK
  <2> QED
    BY <1>12, <2>2, <2>3 DEF AnswerPending, TypeOK
<1>13. CASE ObserveCancel(p)
  <2>1. answers' \in [Requests -> Seq({"accept", "decline", "cancel", "refuse"})]
    BY <1>13, AnswerTypes DEF ObserveCancel, TypeOK
  <2>2. pending' \in [Prompts -> Nat]
    <3>1. pending' = pending \/ pending' = [pending EXCEPT ![p] = 0]
      BY <1>13 DEF ObserveCancel
    <3> QED
      BY <3>1 DEF TypeOK
  <2>3. phase' \in [Prompts -> Phases]
    BY <1>13 DEF ObserveCancel, TypeOK, Phases
  <2>4. notified' \subseteq Prompts
    BY <1>13 DEF ObserveCancel, TypeOK
  <2> QED
    BY <1>13, <2>1, <2>2, <2>3, <2>4 DEF ObserveCancel, TypeOK
<1>14. CASE SendInterrupt(p) \/ InterruptRefused(p) \/ Finalize(p)
  <2>1. phase' \in [Prompts -> Phases]
    <3>1. \E next \in {"driving", "interrupting", "flushing"} : phase' = [phase EXCEPT ![p] = next]
      BY <1>14 DEF SendInterrupt, InterruptRefused, Finalize
    <3> QED
      BY <3>1 DEF TypeOK, Phases
  <2>2. target' \in [Prompts -> Nat]
    <3>1. target' = target \/ target' = [target EXCEPT ![p] = activeTurn]
      BY <1>14 DEF SendInterrupt, InterruptRefused, Finalize
    <3> QED
      BY <3>1 DEF TypeOK
  <2>3. activeTurn' \in Nat
    BY <1>14 DEF SendInterrupt, InterruptRefused, Finalize, TypeOK
  <2> QED
    BY <1>14, <2>1, <2>2, <2>3 DEF SendInterrupt, InterruptRefused, Finalize, TypeOK
<1>15. CASE Watchdog(p)
  BY <1>15 DEF Watchdog, TypeOK
<1> QED
  BY <1>2, <1>3, <1>4, <1>5, <1>6, <1>7, <1>8, <1>9, <1>10, <1>11, <1>12, <1>13, <1>14, <1>15, FailingSteps
     DEF PromptStep, DriverStep

(* The steps of a drain keep the types.                                     *)
LEMMA DrainTypes ==
  ASSUME TypeOK, NEW a \in Readers, DrainStep(a)
  PROVE  TypeOK'
<1>1. CASE BeginPoll(a) \/ EndPoll(a)
  BY <1>1 DEF BeginPoll, EndPoll, TypeOK
<1>2. CASE TakeMessage(a)
  BY <1>2, TakenTypes DEF TakeMessage, TypeOK
<1>3. CASE DrainMessage(a)
  <2>1. hand' \in [Readers -> Messages \cup {NoMessage}]
    BY <1>3 DEF DrainMessage, TypeOK
  <2>2. CASE hand[a].kind \in RequestKinds
    <3>1. answers' \in [Requests -> Seq({"accept", "decline", "cancel", "refuse"})]
      BY <1>3, <2>2, AnswerTypes DEF DrainMessage
    <3> QED
      BY <1>3, <2>1, <2>2, <3>1 DEF DrainMessage, TypeOK
  <2>3. CASE hand[a].kind \notin RequestKinds
    <3>1. PICK k \in Nat : Note(k, hand[a])
      BY <1>3, <2>3 DEF DrainMessage, PostTurnDrainer, TypeOK
    <3>2. UNCHANGED answers
      BY <1>3, <2>3 DEF DrainMessage
    <3> QED
      BY <1>3, <2>1, <3>1, <3>2, NoteTypes DEF DrainMessage, TypeOK
  <2> QED
    BY <2>2, <2>3
<1> QED
  BY <1>1, <1>2, <1>3 DEF DrainStep

(* The steps of the client and of the server keep the types.                *)
LEMMA EnvironmentTypes ==
  ASSUME TypeOK, ClientStep \/ ServerStep
  PROVE  TypeOK'
<1>1. CASE Cancel
  BY <1>1 DEF Cancel, TypeOK
<1>2. ASSUME NEW r \in Requests, NEW choice \in Decisions \cup {"failed"}, Decide(r, choice) PROVE TypeOK'
  <2>1. dialog' \in [Requests -> Decisions \cup {"none", "open", "failed"}]
    BY <1>2 DEF Decide, TypeOK
  <2> QED
    BY <1>2, <2>1 DEF Decide, TypeOK
<1>3. ASSUME NEW p \in Prompts, ServerStartsTurn(p) \/ ServerInterrupts(p) PROVE TypeOK'
  <2>1. CASE ServerStartsTurn(p)
    BY <2>1 DEF ServerStartsTurn, TypeOK
  <2>2. CASE ServerInterrupts(p)
    <3>1. /\ status' \in [Turns -> {"unused", "running", "stopping", "completed", "interrupted"}]
          /\ phase' \in [Prompts -> Phases] /\ interrupted' \subseteq Prompts
      BY <2>2 DEF ServerInterrupts, TypeOK, Phases
    <3> QED
      BY <2>2, <3>1 DEF ServerInterrupts, TypeOK
  <2> QED
    BY <1>3, <2>1, <2>2
<1>4. ASSUME NEW kind \in MessageKinds, NEW k \in Turns, NEW r \in Nat PROVE Message(kind, k, r) \in Messages
  BY DEF Message, Messages, Turns
<1>5. ASSUME NEW m \in Messages, Emit(m) PROVE inbox' \in Seq(Messages)
  BY <1>5 DEF Emit, TypeOK
<1>6. ASSUME NEW k \in Turns, NEW kind \in NoteKinds, ServerNotes(k, kind) PROVE TypeOK'
  <2>1. inbox' \in Seq(Messages)
    BY <1>4, <1>5, <1>6 DEF ServerNotes, MessageKinds
  <2> QED
    BY <1>6, <2>1 DEF ServerNotes, Emit, TypeOK
<1>7. ASSUME NEW k \in Turns, NEW kind \in RequestKinds, ServerAsks(k, kind) PROVE TypeOK'
  <2>1. Len(asked) + 1 \in Nat /\ kind \in MessageKinds
    BY DEF TypeOK, MessageKinds
  <2>2. inbox' \in Seq(Messages)
    BY <1>4, <1>5, <1>7, <2>1 DEF ServerAsks
  <2>3. asked' \in Seq([kind : RequestKinds, turn : Nat])
    BY <1>7 DEF ServerAsks, TypeOK, Turns
  <2> QED
    BY <1>7, <2>2, <2>3 DEF ServerAsks, Emit, TypeOK
<1>8. ASSUME NEW k \in Turns, ServerCompletes(k) \/ ServerStopsTurn(k) PROVE TypeOK'
  <2>1. PICK kind \in MessageKinds : Emit(Message(kind, k, 0))
    BY <1>8 DEF ServerCompletes, ServerStopsTurn, MessageKinds, EndKinds
  <2>2. inbox' \in Seq(Messages)
    BY <1>4, <1>5, <2>1
  <2>3. status' \in [Turns -> {"unused", "running", "stopping", "completed", "interrupted"}]
    BY <1>8 DEF ServerCompletes, ServerStopsTurn, TypeOK
  <2> QED
    BY <1>8, <2>1, <2>2, <2>3 DEF ServerCompletes, ServerStopsTurn, Emit, TypeOK
<1>9. CASE ServerDies
  BY <1>9 DEF ServerDies, TypeOK
<1> QED
  BY <1>1, <1>2, <1>3, <1>6, <1>7, <1>8, <1>9 DEF ClientStep, ServerStep

LEMMA TypesInductive == TypeOK /\ ClientKnown /\ [Next]_vars => TypeOK' /\ ClientKnown'
<1>1. ASSUME TypeOK, UNCHANGED vars PROVE TypeOK'
  BY <1>1 DEF vars, TypeOK
<1>2. [Next]_vars /\ ClientKnown => ClientKnown'
  BY DEF Next, vars, ClientKnown
<1> QED
  BY <1>1, <1>2, PromptTypes, DrainTypes, EnvironmentTypes DEF Next

(* Variables keep their types.                                              *)
THEOREM TurnTypes == Spec => []TypeOK
<1>1. TypeOK /\ ClientKnown => TypeOK
  OBVIOUS
<1> QED
  BY <1>1, TypesInitially, TypesInductive, PTL DEF Spec

-----------------------------------------------------------------------------
(* Messages: what is in flight was said by the server, and is still true.   *)

Takes(a) ==
  /\ hand[a] = NoMessage /\ inbox # << >>
  /\ hand' = [hand EXCEPT ![a] = Head(inbox)] /\ inbox' = Tail(inbox)
Drops(a) == hand' = [hand EXCEPT ![a] = NoMessage] /\ inbox' = inbox

(* A reader changes no hand but its own.                                    *)
LEMMA HandsAlone ==
  ASSUME TypeOK, NEW a \in Readers, NEW b \in Readers
  PROVE  /\ Drops(a) => hand'[a] = NoMessage
         /\ (Takes(b) \/ Drops(b)) /\ b # a => hand'[a] = hand[a]
  BY DEF Takes, Drops, TypeOK

(* A prompt takes the first message, lets go of its own, or neither.        *)
LEMMA PromptMessages ==
  ASSUME NEW p \in Prompts, PromptStep(p)
  PROVE  UNCHANGED <<inbox, hand>> \/ Takes(p) \/ Drops(p)
<1>1. CASE Prompt(p) \/ StartTurn(p) \/ TurnStarted(p) \/ EndFlush(p) \/ Return(p) \/ AcceptPlan(p) \/ DeclinePlan(p)
  BY <1>1 DEF Prompt, StartTurn, TurnStarted, EndFlush, Return, AcceptPlan, DeclinePlan
<1>2. CASE \/ HandleRequest(p) \/ AnswerPending(p) \/ ObserveCancel(p) \/ SendInterrupt(p)
           \/ InterruptRefused(p) \/ Watchdog(p) \/ Finalize(p)
  BY <1>2 DEF HandleRequest, AnswerPending, ObserveCancel, SendInterrupt, InterruptRefused, Watchdog, Finalize
<1>3. CASE Receive(p)
  BY <1>3 DEF Receive, Selecting, Takes
<1>4. CASE HandleNote(p) \/ HandleCommand(p) \/ AnswerAsked(p)
  BY <1>4 DEF HandleNote, HandleCommand, AnswerAsked, Drops
<1>5. CASE Failing(p)
  BY <1>5 DEF Failing, Fail, Drops
<1> QED
  BY <1>1, <1>2, <1>3, <1>4, <1>5, FailingSteps DEF PromptStep, DriverStep

(* And so does a drain.                                                     *)
LEMMA DrainMessages ==
  ASSUME NEW a \in Readers, DrainStep(a)
  PROVE  UNCHANGED <<inbox, hand>> \/ Takes(a) \/ Drops(a)
  BY DEF DrainStep, BeginPoll, EndPoll, TakeMessage, DrainMessage, Takes, Drops

InFlight == {inbox[n] : n \in DOMAIN inbox} \cup {hand[a] : a \in Readers}

(* Readers put nothing under way.                                           *)
LEMMA FlightShrinks ==
  ASSUME TypeOK, NEW a \in Readers, UNCHANGED <<inbox, hand>> \/ Takes(a) \/ Drops(a)
  PROVE  InFlight' \subseteq InFlight \cup {NoMessage}
<1>1. CASE UNCHANGED <<inbox, hand>>
  BY <1>1 DEF InFlight
<1>2. CASE Takes(a)
  <2>1. Head(inbox) = inbox[1] /\ 1 \in DOMAIN inbox
    BY <1>2 DEF Takes, TypeOK
  <2>2. \A n \in DOMAIN inbox' : n + 1 \in DOMAIN inbox /\ inbox'[n] = inbox[n + 1]
    BY <1>2 DEF Takes, TypeOK
  <2>3. \A b \in Readers : hand'[b] = IF b = a THEN Head(inbox) ELSE hand[b]
    BY <1>2 DEF Takes, TypeOK
  <2> QED
    BY <2>1, <2>2, <2>3 DEF InFlight
<1>3. CASE Drops(a)
  <2>1. \A b \in Readers : hand'[b] = IF b = a THEN NoMessage ELSE hand[b]
    BY <1>3 DEF Drops, TypeOK
  <2> QED
    BY <1>3, <2>1 DEF Drops, InFlight
<1> QED
  BY <1>1, <1>2, <1>3

(* The server puts one message under way.                                   *)
LEMMA FlightGrows ==
  ASSUME TypeOK, NEW m \in Messages, Emit(m)
  PROVE  InFlight' \subseteq InFlight \cup {m}
<1>1. inbox' = Append(inbox, m) /\ inbox \in Seq(Messages)
  BY DEF Emit, TypeOK
<1>2. \A n \in DOMAIN inbox' : inbox'[n] = m \/ (n \in DOMAIN inbox /\ inbox'[n] = inbox[n])
  BY <1>1
<1> QED
  BY <1>2 DEF Emit, InFlight

(* A turn belongs to the prompt it was started for, and a message tells of  *)
(* such a turn; that a turn is over is said of no other.                    *)
OwnersFit == \A k \in Turns : status[k] = "unused" <=> owner[k] = None

Truthful(m) ==
  /\ m # NoMessage => m.turn \in Turns /\ owner[m.turn] \in Prompts
  /\ m.kind \in EndKinds => status[m.turn] = m.kind

MessagesTrue == \A m \in InFlight : Truthful(m)

(* An empty hand says nothing.                                              *)
LEMMA EmptyTruthful == Truthful(NoMessage)
  BY DEF Truthful, NoMessage, EndKinds

(* The server neither goes back on the end of a turn nor gives it away.     *)
LEMMA TurnsStayTrue ==
  ASSUME TypeOK, OwnersFit, [Next]_vars
  PROVE  /\ OwnersFit'
         /\ \A k \in Turns : status[k] \in EndKinds => status'[k] = status[k]
         /\ \A k \in Turns : owner[k] \in Prompts => owner'[k] = owner[k]
<1>1. CASE UNCHANGED <<status, owner>>
  BY <1>1 DEF OwnersFit
<1>2. ASSUME NEW p \in Prompts, ServerStartsTurn(p)
      PROVE  /\ OwnersFit'
             /\ \A k \in Turns : status[k] \in EndKinds => status'[k] = status[k]
             /\ \A k \in Turns : owner[k] \in Prompts => owner'[k] = owner[k]
  <2>1. PICK k \in Turns : /\ status[k] = "unused" /\ owner' = [owner EXCEPT ![k] = p]
                           /\ status' = [status EXCEPT ![k] = "running"]
    BY <1>2 DEF ServerStartsTurn
  <2>2. \A j \in Turns : /\ status'[j] = IF j = k THEN "running" ELSE status[j]
                         /\ owner'[j] = IF j = k THEN p ELSE owner[j]
    BY <2>1 DEF TypeOK
  <2>3. p # None
    BY TurnDriverAssumption
  <2> QED
    BY <2>1, <2>2, <2>3, TurnDriverAssumption DEF OwnersFit, EndKinds
<1>3. ASSUME NEW k, NEW next \in {"stopping", "completed", "interrupted"},
             k \in Turns => status[k] \in {"running", "stopping"},
             status' = [status EXCEPT ![k] = next], owner' = owner
      PROVE  /\ OwnersFit'
             /\ \A j \in Turns : status[j] \in EndKinds => status'[j] = status[j]
             /\ \A j \in Turns : owner[j] \in Prompts => owner'[j] = owner[j]
  <2>1. \A j \in Turns : status'[j] = IF j = k THEN next ELSE status[j]
    BY <1>3 DEF TypeOK
  <2> QED
    BY <1>3, <2>1 DEF OwnersFit, EndKinds
<1>4. CASE ServerStep
  <2>1. CASE ServerDies \/ \E k \in Turns : \/ \E kind \in NoteKinds : ServerNotes(k, kind)
                                            \/ \E kind \in RequestKinds : ServerAsks(k, kind)
    BY <1>1, <2>1 DEF ServerDies, ServerNotes, ServerAsks, Emit
  <2>2. CASE \E k \in Turns : ServerCompletes(k) \/ ServerStopsTurn(k)
    BY <1>3, <2>2 DEF ServerCompletes, ServerStopsTurn, Emit
  <2>3. CASE \E p \in Prompts : ServerInterrupts(p)
    BY <1>3, <2>3 DEF ServerInterrupts
  <2>4. CASE \E p \in Prompts : ServerStartsTurn(p)
    BY <1>2, <2>4
  <2> QED
    BY <1>4, <2>1, <2>2, <2>3, <2>4 DEF ServerStep
<1>5. ASSUME NEW p \in Prompts, PromptStep(p) PROVE UNCHANGED <<status, owner>>
  <2>1. CASE Failing(p)
    BY <2>1 DEF Failing
  <2>2. CASE DriverStep(p) /\ ~Failing(p)
    BY <2>2, FailingSteps DEF DriverStep, Receive, HandleNote, HandleCommand, HandleRequest, AnswerAsked,
       AnswerPending, ObserveCancel, SendInterrupt, InterruptRefused, Watchdog, Finalize
  <2>3. CASE Prompt(p) \/ StartTurn(p) \/ TurnStarted(p) \/ EndFlush(p) \/ Return(p) \/ AcceptPlan(p) \/ DeclinePlan(p)
    BY <2>3 DEF Prompt, StartTurn, TurnStarted, EndFlush, Return, AcceptPlan, DeclinePlan
  <2> QED
    BY <1>5, <2>1, <2>2, <2>3, FailingSteps DEF PromptStep
<1>6. ASSUME NEW a \in Readers, DrainStep(a) PROVE UNCHANGED <<status, owner>>
  BY <1>6 DEF DrainStep, BeginPoll, EndPoll, TakeMessage, DrainMessage
<1>7. ClientStep => UNCHANGED <<status, owner>>
  BY DEF ClientStep, Cancel, Decide
<1> QED
  BY <1>1, <1>4, <1>5, <1>6, <1>7 DEF Next, vars

(* What was true of a message stays true.                                   *)
LEMMA TruthLasts ==
  ASSUME TypeOK, OwnersFit, [Next]_vars, NEW m, Truthful(m)
  PROVE  Truthful(m)'
<1>1. m.kind \in EndKinds => m # NoMessage
  BY DEF EndKinds, NoMessage
<1> QED
  BY <1>1, TurnsStayTrue DEF Truthful

LEMMA MessagesTrueInductive ==
  ASSUME TypeOK, OwnersFit, MessagesTrue, [Next]_vars
  PROVE  MessagesTrue'
<1>1. ASSUME InFlight' \subseteq InFlight \cup {NoMessage} PROVE MessagesTrue'
  BY <1>1, TruthLasts, EmptyTruthful DEF MessagesTrue
<1>2. ASSUME NEW m \in Messages, Emit(m), Truthful(m)' PROVE MessagesTrue'
  BY <1>2, FlightGrows, TruthLasts DEF MessagesTrue
<1>3. ASSUME NEW p \in Prompts, PromptStep(p) PROVE MessagesTrue'
  <2>1. p \in Readers
    BY DEF Readers
  <2> QED
    BY <1>1, <1>3, <2>1, PromptMessages, FlightShrinks
<1>4. ASSUME NEW a \in Readers, DrainStep(a) PROVE MessagesTrue'
  BY <1>1, <1>4, DrainMessages, FlightShrinks
<1>5. CASE UNCHANGED <<inbox, hand>>
  <2>1. InFlight' = InFlight
    BY <1>5 DEF InFlight
  <2> QED
    BY <1>1, <2>1
<1>6. ClientStep => UNCHANGED <<inbox, hand>>
  BY DEF ClientStep, Cancel, Decide
<1>7. CASE ServerStep
  <2>1. ASSUME NEW k \in Turns, NEW kind \in MessageKinds, NEW r \in Nat, Emit(Message(kind, k, r)),
               status[k] # "unused", kind \in EndKinds => status'[k] = kind
        PROVE  MessagesTrue'
    <3>1. Message(kind, k, r) \in Messages
      BY DEF Message, Messages, Turns
    <3>2. owner[k] \in Prompts /\ owner'[k] = owner[k]
      BY <2>1 DEF OwnersFit, TypeOK, Emit
    <3>3. Truthful(Message(kind, k, r))'
      BY <2>1, <3>2 DEF Truthful, Message
    <3> QED
      BY <1>2, <2>1, <3>1, <3>3
  <2>2. ASSUME NEW k \in Turns, NEW kind \in NoteKinds, ServerNotes(k, kind) PROVE MessagesTrue'
    BY <2>1, <2>2 DEF ServerNotes, NoteKinds, EndKinds, MessageKinds
  <2>3. ASSUME NEW k \in Turns, NEW kind \in RequestKinds, ServerAsks(k, kind) PROVE MessagesTrue'
    <3>1. Len(asked) + 1 \in Nat
      BY DEF TypeOK
    <3> QED
      BY <2>1, <2>3, <3>1 DEF ServerAsks, RequestKinds, EndKinds, MessageKinds
  <2>4. ASSUME NEW k \in Turns, ServerCompletes(k) \/ ServerStopsTurn(k) PROVE MessagesTrue'
    <3>1. status[k] # "unused"
      BY <2>4 DEF ServerCompletes, ServerStopsTurn
    <3>2. PICK kind \in EndKinds : Emit(Message(kind, k, 0)) /\ status' = [status EXCEPT ![k] = kind]
      BY <2>4 DEF ServerCompletes, ServerStopsTurn, EndKinds
    <3>3. status'[k] = kind
      BY <3>2 DEF TypeOK
    <3> QED
      BY <2>1, <3>1, <3>2, <3>3 DEF MessageKinds
  <2>5. CASE ServerDies \/ \E p \in Prompts : ServerStartsTurn(p) \/ ServerInterrupts(p)
    BY <1>5, <2>5 DEF ServerDies, ServerStartsTurn, ServerInterrupts
  <2> QED
    BY <1>7, <2>2, <2>3, <2>4, <2>5 DEF ServerStep
<1> QED
  BY <1>3, <1>4, <1>5, <1>6, <1>7 DEF Next, vars

-----------------------------------------------------------------------------
(* What ends a prompt.                                                      *)

EndedBy(p, kind) == turn[p] \in Turns /\ status[turn[p]] = kind

StopsFit ==
  \A p \in Prompts : /\ result[p] = "EndTurn" => EndedBy(p, "completed")
                     /\ result[p] = "Cancelled" => EndedBy(p, "interrupted")

LEMMA StopsFitInductive ==
  ASSUME TypeOK, OwnersFit, MessagesTrue, StopsFit, [Next]_vars
  PROVE  StopsFit'
<1>1. \A k \in Turns : status[k] \in EndKinds => status'[k] = status[k]
  BY TurnsStayTrue
<1>2. CASE UNCHANGED <<turn, result>>
  BY <1>1, <1>2 DEF StopsFit, EndedBy, EndKinds
<1>3. ASSUME NEW p \in Prompts, NEW outcome \in {"none", "error"}, result' = [result EXCEPT ![p] = outcome],
             \A q \in Prompts : q # p => turn'[q] = turn[q]
      PROVE  StopsFit'
  <2>1. \A q \in Prompts : result'[q] = IF q = p THEN outcome ELSE result[q]
    BY <1>3 DEF TypeOK
  <2> QED
    BY <1>1, <1>3, <2>1 DEF StopsFit, EndedBy, EndKinds
<1>4. ASSUME NEW p \in Prompts, HandleNote(p) PROVE StopsFit'
  <2>1. CASE AcceptsCompletion(turn[p], hand[p])
    <3>1. hand[p] # NoMessage /\ hand[p].kind \in EndKinds /\ hand[p].turn = turn[p]
      BY <1>4, <2>1 DEF HandleNote, Handling, AcceptsCompletion
    <3>2. Truthful(hand[p])
      BY DEF MessagesTrue, InFlight, Readers
    <3>3. turn[p] \in Turns /\ status[turn[p]] = hand[p].kind
      BY <3>1, <3>2 DEF Truthful
    <3>4. /\ result' = [result EXCEPT ![p] = IF hand[p].kind = "interrupted" THEN "Cancelled" ELSE "EndTurn"]
          /\ UNCHANGED <<turn, status>>
      BY <1>4, <2>1 DEF HandleNote
    <3>5. \A q \in Prompts : result'[q] = IF q # p THEN result[q]
                                          ELSE IF hand[p].kind = "interrupted" THEN "Cancelled" ELSE "EndTurn"
      BY <3>4 DEF TypeOK
    <3> QED
      BY <3>1, <3>3, <3>4, <3>5 DEF StopsFit, EndedBy, EndKinds
  <2>2. CASE ~AcceptsCompletion(turn[p], hand[p])
    BY <1>2, <1>4, <2>2 DEF HandleNote
  <2> QED
    BY <2>1, <2>2
<1>5. ASSUME NEW p \in Prompts, PromptStep(p) PROVE StopsFit'
  <2>1. CASE TurnStarted(p)
    <3>1. \A q \in Prompts : q # p => turn'[q] = turn[q]
      BY <2>1 DEF TurnStarted, TypeOK
    <3> QED
      BY <1>3, <2>1, <3>1 DEF TurnStarted
  <2>2. CASE Failing(p)
    BY <1>3, <2>2 DEF Failing, Fail
  <2>3. CASE Prompt(p) \/ StartTurn(p) \/ EndFlush(p) \/ Return(p) \/ AcceptPlan(p) \/ DeclinePlan(p)
    BY <1>2, <2>3 DEF Prompt, StartTurn, EndFlush, Return, AcceptPlan, DeclinePlan
  <2>4. CASE DriverStep(p) /\ ~Failing(p) /\ ~HandleNote(p)
    BY <1>2, <2>4, FailingSteps DEF DriverStep, Receive, HandleCommand, HandleRequest, AnswerAsked,
       AnswerPending, ObserveCancel, SendInterrupt, InterruptRefused, Watchdog, Finalize
  <2> QED
    BY <1>4, <1>5, <2>1, <2>2, <2>3, <2>4, FailingSteps DEF PromptStep
<1>6. ASSUME NEW a \in Readers, DrainStep(a) PROVE UNCHANGED <<turn, result>>
  BY <1>6 DEF DrainStep, BeginPoll, EndPoll, TakeMessage, DrainMessage
<1>7. ClientStep => UNCHANGED <<turn, result>>
  BY DEF ClientStep, Cancel, Decide
<1>8. ServerStep => UNCHANGED <<turn, result>>
  BY DEF ServerStep, ServerDies, ServerStartsTurn, ServerInterrupts, ServerNotes, ServerAsks,
         ServerCompletes, ServerStopsTurn, Emit
<1> QED
  BY <1>2, <1>5, <1>6, <1>7, <1>8 DEF Next, vars

(* The inductive invariant of what ends a prompt.                           *)
StopInv == TypeOK /\ ClientKnown /\ OwnersFit /\ MessagesTrue /\ StopsFit

LEMMA StopInitially == Init => StopInv
<1> SUFFICES ASSUME Init PROVE StopInv
  OBVIOUS
<1>1. OwnersFit /\ StopsFit
  BY DEF Init, OwnersFit, StopsFit
<1>2. InFlight = {NoMessage} \/ InFlight = {}
  BY DEF Init, InFlight
<1> QED
  BY <1>1, <1>2, TypesInitially, EmptyTruthful DEF StopInv, MessagesTrue

LEMMA StopInductive == StopInv /\ [Next]_vars => StopInv'
  BY TypesInductive, TurnsStayTrue, MessagesTrueInductive, StopsFitInductive DEF StopInv

(* A prompt ends with a stop reason only after the server has ended the very *)
(* turn it drives, for that reason, however prompts overlap and whatever     *)
(* failed prompts left behind in the inbox (register_turn_completion).       *)
THEOREM PromptsStopWithTheirTurn == Spec => []StopMatchesTurn
<1>1. StopInv => StopMatchesTurn
  BY DEF StopInv, StopsFit, EndedBy, StopMatchesTurn
<1> QED
  BY <1>1, StopInitially, StopInductive, PTL DEF Spec

-----------------------------------------------------------------------------
(* Which turn is active.                                                    *)

Resting == {"idle", "returned"}

(* Whoever starts a turn or offers a plan holds the inner lock.             *)
LockHeld == \A p \in Prompts : phase[p] \in {"starting", "offering"} => innerLock = p

(* The watcher polls only while no turn is active.                          *)
WatcherWaits == innerLock = Watcher => activeTurn = 0

OnePrompt ==
  client.queues => \A p, q \in Prompts : phase[p] \notin Resting /\ phase[q] \notin Resting => p = q

ActiveFits ==
  client.queues => \A p \in Prompts :
    /\ InTurn(p) => turn[p] \in Turns /\ activeTurn = turn[p]
    /\ phase[p] = "interrupting" => target[p] = turn[p]

(* A step of one prompt is no step of another.                              *)
LEMMA PromptStepsAlone ==
  ASSUME TypeOK, NEW p \in Prompts, PromptStep(p)
  PROVE  /\ \A q \in Prompts : q # p => phase'[q] = phase[q]
         /\ phase[p] \in Resting => Prompt(p)
<1>1. CASE Failing(p)
  <2>1. \A q \in Prompts : q # p => phase'[q] = phase[q]
    BY <1>1 DEF Failing, Fail, TypeOK
  <2>2. phase[p] \in Resting => ~ (StartFails(p) \/ InboxCloses(p) \/ DialogFails(p) \/ OfferFails(p) \/ WriteFails(p))
    BY DEF StartFails, InboxCloses, DialogFails, OfferFails, WriteFails, Selecting, Resting
  <2>3. phase[p] \in Resting => Prompt(p)
    BY <2>2 DEF PromptStep, DriverStep, StartTurn, TurnStarted, EndFlush, Return, AcceptPlan, DeclinePlan,
       Receive, HandleNote, HandleCommand, HandleRequest, AnswerAsked, AnswerPending, ObserveCancel,
       SendInterrupt, InterruptRefused, Watchdog, Finalize, Selecting, Handling, Resting
  <2> QED
    BY <2>1, <2>3
<1>2. CASE \/ Prompt(p) \/ StartTurn(p) \/ TurnStarted(p) \/ EndFlush(p) \/ Return(p)
           \/ AcceptPlan(p) \/ DeclinePlan(p)
  <2>1. \E next \in Phases : phase' = [phase EXCEPT ![p] = next]
    BY <1>2 DEF Prompt, StartTurn, TurnStarted, EndFlush, Return, AcceptPlan, DeclinePlan, Phases
  <2>2. phase[p] \in Resting => Prompt(p)
    BY <1>2 DEF StartTurn, TurnStarted, EndFlush, Return, AcceptPlan, DeclinePlan, Resting
  <2> QED
    BY <2>1, <2>2 DEF TypeOK
<1>3. CASE \/ Receive(p) \/ HandleNote(p) \/ HandleCommand(p) \/ HandleRequest(p) \/ AnswerAsked(p)
           \/ AnswerPending(p) \/ ObserveCancel(p)
  <2>1. phase' = phase \/ \E next \in Phases : phase' = [phase EXCEPT ![p] = next]
    BY <1>3 DEF Receive, HandleNote, HandleCommand, HandleRequest, AnswerAsked, AnswerPending,
                ObserveCancel, Phases
  <2>2. phase[p] \notin Resting
    BY <1>3 DEF Receive, HandleNote, HandleCommand, HandleRequest, AnswerAsked, AnswerPending,
                ObserveCancel, Selecting, Handling, Resting
  <2> QED
    BY <2>1, <2>2 DEF TypeOK
<1>4. CASE SendInterrupt(p) \/ InterruptRefused(p) \/ Watchdog(p) \/ Finalize(p)
  <2>1. phase' = phase \/ \E next \in Phases : phase' = [phase EXCEPT ![p] = next]
    BY <1>4 DEF SendInterrupt, InterruptRefused, Watchdog, Finalize, Phases
  <2>2. phase[p] \notin Resting
    BY <1>4 DEF SendInterrupt, InterruptRefused, Watchdog, Finalize, Selecting, Resting
  <2> QED
    BY <2>1, <2>2 DEF TypeOK
<1> QED
  BY <1>1, <1>2, <1>3, <1>4, FailingSteps DEF PromptStep, DriverStep

(* A client that queues its prompts never has two of them running.          *)
LEMMA OnePromptKept ==
  ASSUME TypeOK, OnePrompt, NEW p \in Prompts, PromptStep(p), UNCHANGED client
  PROVE  OnePrompt'
<1>1. /\ \A q \in Prompts : q # p => phase'[q] = phase[q]
      /\ phase[p] \in Resting => Prompt(p)
  BY PromptStepsAlone
<1>2. Prompt(p) /\ client.queues => \A q \in Prompts : phase[q] \in Resting
  BY DEF Prompt, Resting
<1> QED
  BY <1>1, <1>2 DEF OnePrompt

(* A step that neither enters a turn nor an interrupt.                      *)
LEMMA ActiveKept ==
  ASSUME ActiveFits, UNCHANGED <<client, activeTurn, turn, target>>,
         \A q \in Prompts : /\ InTurn(q)' => InTurn(q)
                            /\ phase'[q] = "interrupting" => phase[q] = "interrupting"
  PROVE  ActiveFits'
  BY DEF ActiveFits

(* The active turn stays that of the running prompt.                        *)
LEMMA ActiveFitsKept ==
  ASSUME TypeOK, OnePrompt, ActiveFits, NEW p \in Prompts, PromptStep(p), UNCHANGED client
  PROVE  ActiveFits'
<1>1. \A q \in Prompts : q # p => phase'[q] = phase[q]
  BY PromptStepsAlone
<1>3. ASSUME NEW next, phase' = [phase EXCEPT ![p] = next] PROVE phase'[p] = next
  BY <1>3 DEF TypeOK
<1>4. CASE Failing(p)
  <2>1. phase'[p] = "returned"
    BY <1>3, <1>4 DEF Failing, Fail
  <2> QED
    BY <1>1, <1>4, <2>1, ActiveKept DEF Failing, InTurn
<1>5. CASE Prompt(p) \/ StartTurn(p) \/ EndFlush(p) \/ Return(p) \/ AcceptPlan(p) \/ DeclinePlan(p)
  <2>1. \E next \in {"draining", "starting", "finished", "offering", "returned", "implementing"} :
          phase' = [phase EXCEPT ![p] = next]
    BY <1>5 DEF Prompt, StartTurn, EndFlush, Return, AcceptPlan, DeclinePlan
  <2>2. phase'[p] \in {"draining", "starting", "finished", "offering", "returned", "implementing"}
    BY <1>3, <2>1
  <2>3. UNCHANGED <<activeTurn, turn, target>>
    BY <1>5 DEF Prompt, StartTurn, EndFlush, Return, AcceptPlan, DeclinePlan
  <2> QED
    BY <1>1, <2>2, <2>3, ActiveKept DEF InTurn
<1>6. CASE TurnStarted(p)
  <2>1. PICK k \in Turns : turn' = [turn EXCEPT ![p] = k] /\ activeTurn' = k
    BY <1>6 DEF TurnStarted, Started
  <2>2. turn'[p] = k /\ phase'[p] = "driving" /\ phase[p] = "starting"
    BY <1>3, <1>6, <2>1 DEF TurnStarted, TypeOK
  <2>3. client.queues => \A q \in Prompts : q # p => phase'[q] \in Resting
    BY <1>1, <2>2 DEF OnePrompt, Resting
  <2> QED
    BY <2>1, <2>2, <2>3 DEF ActiveFits, InTurn, Resting
<1>7. CASE \/ Receive(p) \/ HandleNote(p) \/ HandleCommand(p) \/ HandleRequest(p) \/ AnswerAsked(p)
           \/ AnswerPending(p) \/ ObserveCancel(p) \/ InterruptRefused(p) \/ Watchdog(p)
  <2>1. phase' = phase \/ (InTurn(p) /\ \E next \in {"driving", "asking", "cancelling", "finalizing"} :
                                         phase' = [phase EXCEPT ![p] = next])
    BY <1>7 DEF Receive, HandleNote, HandleCommand, HandleRequest, AnswerAsked, AnswerPending,
                ObserveCancel, InterruptRefused, Watchdog, Selecting, Handling, InTurn
  <2>2. phase'[p] = phase[p] \/ (InTurn(p) /\ phase'[p] # "interrupting")
    BY <1>3, <2>1
  <2>3. UNCHANGED <<activeTurn, turn, target>>
    BY <1>7 DEF Receive, HandleNote, HandleCommand, HandleRequest, AnswerAsked, AnswerPending,
                ObserveCancel, InterruptRefused, Watchdog
  <2> QED
    BY <1>1, <2>2, <2>3, ActiveKept DEF InTurn
<1>8. CASE SendInterrupt(p)
  <2>1. InTurn(p) /\ UNCHANGED <<activeTurn, turn>>
    BY <1>8 DEF SendInterrupt, InTurn
  <2>2. CASE activeTurn = 0
    <3>1. phase'[p] = "driving" /\ UNCHANGED target
      BY <1>3, <1>8, <2>2 DEF SendInterrupt
    <3> QED
      BY <1>1, <2>1, <3>1, ActiveKept DEF InTurn
  <2>3. CASE activeTurn # 0
    <3>1. phase'[p] = "interrupting" /\ target' = [target EXCEPT ![p] = activeTurn]
      BY <1>3, <1>8, <2>3 DEF SendInterrupt
    <3>2. target'[p] = activeTurn /\ \A q \in Prompts : q # p => target'[q] = target[q]
      BY <3>1 DEF TypeOK
    <3> QED
      BY <1>1, <2>1, <3>1, <3>2 DEF ActiveFits, InTurn
  <2> QED
    BY <2>2, <2>3
<1>9. CASE Finalize(p)
  <2>1. phase'[p] = "flushing" /\ phase[p] = "finalizing"
    BY <1>3, <1>9 DEF Finalize
  <2>2. client.queues => \A q \in Prompts : q # p => phase'[q] \in Resting
    BY <1>1, <2>1 DEF OnePrompt, Resting
  <2> QED
    BY <2>1, <2>2 DEF ActiveFits, InTurn, Resting
<1> QED
  BY <1>4, <1>5, <1>6, <1>7, <1>8, <1>9, FailingSteps DEF PromptStep, DriverStep

(* A prompt takes the inner lock when it is free, and returns its own only. *)
LEMMA PromptKeepsLock ==
  ASSUME TypeOK, LockHeld, WatcherWaits, NEW p \in Prompts, PromptStep(p)
  PROVE  LockHeld' /\ WatcherWaits'
<1>1. \A q \in Prompts : q # p => phase'[q] = phase[q]
  BY PromptStepsAlone
<1>2. ASSUME NEW next, phase' = [phase EXCEPT ![p] = next] PROVE phase'[p] = next
  BY <1>2 DEF TypeOK
<1>3. p # Watcher /\ p # None /\ None # Watcher /\ None \notin Prompts
  BY TurnDriverAssumption
<1>4. ASSUME phase'[p] \notin {"starting", "offering"}, innerLock' \in {innerLock, None},
             innerLock' = None /\ innerLock # None => innerLock = p
      PROVE  LockHeld'
  BY <1>1, <1>3, <1>4 DEF LockHeld
<1>5. CASE Failing(p)
  <2>1. phase'[p] = "returned"
    BY <1>2, <1>5 DEF Failing, Fail
  <2>2. innerLock' \in {innerLock, None} /\ (innerLock' = None /\ innerLock # None => innerLock = p)
    BY <1>5 DEF Failing, Fail
  <2> QED
    BY <1>3, <1>4, <1>5, <2>1, <2>2 DEF Failing, WatcherWaits
<1>6. CASE StartTurn(p) \/ (Return(p) /\ OffersPlan(p))
  <2>1. innerLock = None /\ innerLock' = p
    BY <1>6 DEF StartTurn, Return
  <2> QED
    BY <1>1, <1>3, <2>1 DEF LockHeld, WatcherWaits
<1>7. CASE TurnStarted(p) \/ AcceptPlan(p) \/ DeclinePlan(p)
  <2>1. phase[p] \in {"starting", "offering"} /\ innerLock' = None
    BY <1>7 DEF TurnStarted, AcceptPlan, DeclinePlan
  <2>2. \E next \in {"driving", "implementing", "returned"} : phase' = [phase EXCEPT ![p] = next]
    BY <1>7 DEF TurnStarted, AcceptPlan, DeclinePlan
  <2>3. phase'[p] \notin {"starting", "offering"}
    BY <1>2, <2>2
  <2> QED
    BY <1>3, <1>4, <2>1, <2>3 DEF LockHeld, WatcherWaits
<1>8. CASE Prompt(p) \/ EndFlush(p) \/ (Return(p) /\ ~OffersPlan(p))
  <2>1. \E next \in {"draining", "finished", "returned"} : phase' = [phase EXCEPT ![p] = next]
    BY <1>8 DEF Prompt, EndFlush, Return
  <2>2. phase'[p] \notin {"starting", "offering"}
    BY <1>2, <2>1
  <2>3. UNCHANGED <<innerLock, activeTurn>>
    BY <1>8 DEF Prompt, EndFlush, Return
  <2> QED
    BY <1>4, <2>2, <2>3 DEF WatcherWaits
<1>9. CASE HandleRequest(p) \/ AnswerAsked(p)
  <2>1. \E next \in {"driving", "asking"} : phase' = [phase EXCEPT ![p] = next]
    BY <1>9 DEF HandleRequest, AnswerAsked
  <2>2. phase'[p] \notin {"starting", "offering"}
    BY <1>2, <2>1
  <2>3. innerLock \in {None, p} /\ innerLock' \in {None, p} /\ UNCHANGED activeTurn
    BY <1>9 DEF HandleRequest, AnswerAsked, Handling
  <2> QED
    BY <1>1, <1>3, <2>2, <2>3 DEF LockHeld, WatcherWaits
<1>10. CASE \/ Receive(p) \/ HandleNote(p) \/ HandleCommand(p) \/ AnswerPending(p) \/ ObserveCancel(p)
            \/ SendInterrupt(p) \/ InterruptRefused(p) \/ Watchdog(p) \/ Finalize(p)
  <2>1. \/ phase' = phase /\ phase[p] = "driving"
        \/ \E next \in {"driving", "cancelling", "interrupting", "finalizing", "flushing"} :
             phase' = [phase EXCEPT ![p] = next]
    BY <1>10 DEF Receive, HandleNote, HandleCommand, AnswerPending, ObserveCancel, SendInterrupt,
                 InterruptRefused, Watchdog, Finalize, Selecting, Handling
  <2>2. phase'[p] \notin {"starting", "offering"}
    BY <1>2, <2>1
  <2>3. innerLock' = innerLock /\ activeTurn' \in {activeTurn, 0}
    BY <1>10 DEF Receive, HandleNote, HandleCommand, AnswerPending, ObserveCancel, SendInterrupt,
                 InterruptRefused, Watchdog, Finalize
  <2> QED
    BY <1>4, <2>2, <2>3 DEF WatcherWaits
<1> QED
  BY <1>5, <1>6, <1>7, <1>8, <1>9, <1>10, FailingSteps DEF PromptStep, DriverStep

(* A drain takes the inner lock when it is free, and returns its own only.  *)
LEMMA DrainKeepsLock ==
  ASSUME TypeOK, LockHeld, WatcherWaits, NEW a \in Readers, DrainStep(a)
  PROVE  LockHeld' /\ WatcherWaits'
<1>1. UNCHANGED <<phase, activeTurn>>
  BY DEF DrainStep, BeginPoll, EndPoll, TakeMessage, DrainMessage
<1>2. Watcher \notin Prompts /\ None \notin Prompts /\ None # Watcher
  BY TurnDriverAssumption
<1>3. CASE BeginPoll(a)
  BY <1>1, <1>2, <1>3 DEF BeginPoll, MayPoll, LockHeld, WatcherWaits
<1>4. CASE innerLock = a /\ innerLock' = None /\ (BackgroundDrainer(a) \/ PostTurnDrainer(a))
  BY <1>1, <1>2, <1>4 DEF BackgroundDrainer, PostTurnDrainer, LockHeld, WatcherWaits
<1>5. CASE UNCHANGED innerLock
  BY <1>1, <1>5 DEF LockHeld, WatcherWaits
<1> QED
  BY <1>3, <1>4, <1>5 DEF DrainStep, EndPoll, TakeMessage, DrainMessage

(* The inductive invariant of the active turn.                              *)
ActiveInv ==
  /\ TypeOK /\ ClientKnown /\ OwnersFit /\ MessagesTrue
  /\ LockHeld /\ WatcherWaits /\ OnePrompt /\ ActiveFits

LEMMA ActiveInitially == Init => ActiveInv
<1> SUFFICES ASSUME Init PROVE ActiveInv
  OBVIOUS
<1>1. StopInv
  BY StopInitially
<1>2. \A p \in Prompts : phase[p] = "idle"
  BY DEF Init
<1>3. LockHeld /\ WatcherWaits /\ OnePrompt /\ ActiveFits
  BY <1>2 DEF Init, LockHeld, WatcherWaits, OnePrompt, ActiveFits, InTurn, Resting
<1> QED
  BY <1>1, <1>3 DEF StopInv, ActiveInv

LEMMA ActiveInductive == ActiveInv /\ [Next]_vars => ActiveInv'
<1> SUFFICES ASSUME ActiveInv, [Next]_vars PROVE ActiveInv'
  OBVIOUS
<1>1. TypeOK' /\ ClientKnown' /\ OwnersFit' /\ MessagesTrue' /\ UNCHANGED client
  BY TypesInductive, TurnsStayTrue, MessagesTrueInductive DEF ActiveInv, Next, vars
<1> SUFFICES LockHeld' /\ WatcherWaits' /\ OnePrompt' /\ ActiveFits'
  BY <1>1 DEF ActiveInv
<1>2. ASSUME NEW p \in Prompts, PromptStep(p) PROVE LockHeld' /\ WatcherWaits' /\ OnePrompt' /\ ActiveFits'
  BY <1>1, <1>2, PromptKeepsLock, OnePromptKept, ActiveFitsKept DEF ActiveInv
<1>3. CASE UNCHANGED <<innerLock, phase, activeTurn, turn, target>>
  BY <1>1, <1>3 DEF ActiveInv, LockHeld, WatcherWaits, OnePrompt, ActiveFits, InTurn
<1>4. ASSUME NEW a \in Readers, DrainStep(a) PROVE LockHeld' /\ WatcherWaits' /\ OnePrompt' /\ ActiveFits'
  <2>1. UNCHANGED <<phase, activeTurn, turn, target>>
    BY <1>4 DEF DrainStep, BeginPoll, EndPoll, TakeMessage, DrainMessage
  <2> QED
    BY <1>1, <1>4, <2>1, DrainKeepsLock DEF ActiveInv, OnePrompt, ActiveFits, InTurn
<1>5. CASE ClientStep
  BY <1>3, <1>5 DEF ClientStep, Cancel, Decide
<1>6. ASSUME NEW p \in Prompts, ServerInterrupts(p) PROVE LockHeld' /\ WatcherWaits' /\ OnePrompt' /\ ActiveFits'
  <2>1. /\ \A q \in Prompts : phase'[q] = IF q = p THEN "driving" ELSE phase[q]
        /\ phase[p] = "interrupting"
    BY <1>6 DEF ServerInterrupts, ActiveInv, TypeOK
  <2>2. UNCHANGED <<innerLock, activeTurn, turn, target>>
    BY <1>6 DEF ServerInterrupts
  <2> QED
    BY <1>1, <2>1, <2>2 DEF ActiveInv, LockHeld, WatcherWaits, OnePrompt, ActiveFits, InTurn, Resting
<1>7. CASE ServerStep /\ ~ \E p \in Prompts : ServerInterrupts(p)
  BY <1>3, <1>7 DEF ServerStep, ServerDies, ServerStartsTurn, ServerNotes, ServerAsks,
         ServerCompletes, ServerStopsTurn, Emit
<1>8. CASE UNCHANGED vars
  BY <1>3, <1>8 DEF vars
<1> QED
  BY <1>2, <1>4, <1>5, <1>6, <1>7, <1>8 DEF Next

(* The turn a prompt drives is the thread's active one, and the one a cancel *)
(* interrupts, if the client queues its prompts: also after a prompt that    *)
(* failed and left its turn behind (interrupt_active_turn_if_needed).        *)
THEOREM ActiveTurnIsDriven == Spec => []DrivesActiveTurn
<1>1. ActiveInv => DrivesActiveTurn
  BY DEF ActiveInv, ActiveFits, DrivesActiveTurn
<1> QED
  BY <1>1, ActiveInitially, ActiveInductive, PTL DEF Spec

(* No drain takes a message of a turn from the prompt that runs it, from the *)
(* moment the server starts the turn, if the client queues its prompts       *)
(* (background_drain_may_receive, checked under the inner lock).             *)
THEOREM RunningTurnKeepsMessages == Spec => DrainsLeaveRunningTurn
<1>1. ASSUME ActiveInv, [Next]_vars, client.queues, NEW a \in Readers,
             hand'[a] # NoMessage, hand'[a] # hand[a],
             owner[hand'[a].turn] # a
      PROVE  ~ (InTurn(owner[hand'[a].turn]) \/ phase[owner[hand'[a].turn]] = "starting")
  <2> DEFINE p == owner[hand'[a].turn]
  <2>1. Takes(a) /\ ((a \in Prompts /\ PromptStep(a)) \/ DrainStep(a))
    <3>1. \A b \in Readers : (Takes(b) \/ Drops(b)) /\ b # a => hand'[a] = hand[a]
      BY <1>1, HandsAlone DEF ActiveInv
    <3>2. Drops(a) => hand'[a] = NoMessage
      BY <1>1, HandsAlone DEF ActiveInv
    <3>3. ClientStep \/ ServerStep \/ UNCHANGED vars => hand' = hand
      BY DEF ClientStep, Cancel, Decide, ServerStep, ServerDies, ServerStartsTurn, ServerInterrupts,
             ServerNotes, ServerAsks, ServerCompletes, ServerStopsTurn, Emit, vars
    <3>4. Prompts \subseteq Readers
      BY DEF Readers
    <3>5. ASSUME NEW b \in Prompts, PromptStep(b) PROVE Takes(a) /\ a \in Prompts /\ PromptStep(a)
      BY <1>1, <3>1, <3>2, <3>4, <3>5, PromptMessages
    <3>6. ASSUME NEW b \in Readers, DrainStep(b) PROVE Takes(a) /\ DrainStep(a)
      BY <1>1, <3>1, <3>2, <3>6, DrainMessages
    <3> QED
      BY <1>1, <3>3, <3>5, <3>6 DEF Next
  <2>2. hand'[a] \in InFlight
    BY <2>1 DEF Takes, InFlight, ActiveInv, TypeOK
  <2>3. p \in Prompts
    BY <1>1, <2>2 DEF ActiveInv, MessagesTrue, Truthful
  <2>4. CASE a \in Prompts
    <3>1. phase[a] \notin Resting
      <4>1. CASE PromptStep(a)
        <5>1. Prompt(a) => hand' = hand
          BY DEF Prompt
        <5> QED
          BY <1>1, <4>1, <5>1, <2>4, PromptStepsAlone DEF ActiveInv
      <4>2. CASE DrainStep(a)
        <5>1. TakeMessage(a)
          <6>1. BeginPoll(a) \/ EndPoll(a) => hand' = hand
            BY DEF BeginPoll, EndPoll
          <6>2. DrainMessage(a) => Drops(a)
            BY DEF DrainMessage, Drops
          <6>3. Drops(a) => hand'[a] = NoMessage
            BY <1>1, HandsAlone DEF ActiveInv
          <6> QED
            BY <1>1, <4>2, <6>1, <6>2, <6>3 DEF DrainStep
        <5> QED
          BY <2>4, <5>1, TurnDriverAssumption DEF TakeMessage, BackgroundDrainer, PostTurnDrainer, Resting
      <4> QED
        BY <2>1, <4>1, <4>2
    <3>2. phase[p] \in Resting
      BY <1>1, <2>3, <2>4, <3>1 DEF ActiveInv, OnePrompt
    <3> QED
      BY <3>2 DEF InTurn, Resting
  <2>5. CASE a = Watcher
    <3>1. innerLock = Watcher
      <4>1. DrainStep(a) /\ ~ Drops(a)
        <5>1. Drops(a) => hand'[a] = NoMessage
          BY <1>1, HandsAlone DEF ActiveInv
        <5> QED
          BY <1>1, <2>1, <2>5, <5>1, TurnDriverAssumption
      <4>2. TakeMessage(a)
        <5>1. BeginPoll(a) \/ EndPoll(a) => hand' = hand
          BY DEF BeginPoll, EndPoll
        <5>2. DrainMessage(a) => Drops(a)
          BY DEF DrainMessage, Drops
        <5> QED
          BY <1>1, <4>1, <5>1, <5>2 DEF DrainStep
      <4> QED
        BY <2>5, <4>2, TurnDriverAssumption DEF TakeMessage, PostTurnDrainer
    <3>2. activeTurn = 0 /\ phase[p] # "starting"
      BY <1>1, <2>3, <3>1, TurnDriverAssumption DEF ActiveInv, WatcherWaits, LockHeld
    <3>3. ~ InTurn(p)
      BY <1>1, <2>3, <3>2 DEF ActiveInv, ActiveFits, Turns
    <3> QED
      BY <3>2, <3>3
  <2> QED
    BY <2>4, <2>5 DEF Readers
<1>2. ActiveInv /\ [Next]_vars =>
        (client.queues => \A a \in Readers :
           hand'[a] # NoMessage /\ hand'[a] # hand[a] =>
             LET p == owner[hand'[a].turn]
             IN p # a => ~ (InTurn(p) \/ phase[p] = "starting"))
  BY <1>1
<1> QED
  BY <1>2, ActiveInitially, ActiveInductive, PTL DEF Spec, DrainsLeaveRunningTurn

-----------------------------------------------------------------------------
(* Where the requests are.                                                  *)

InboxAt(r) == {n \in DOMAIN inbox : inbox[n].id = r}
HandsAt(r) == {a \in Readers : hand[a].id = r}
PendingAt(r) == {p \in Prompts : pending[p] = r}

Sole(r) ==
  /\ \A m, n \in InboxAt(r) : m = n
  /\ \A a, b \in HandsAt(r) : a = b
  /\ \A p, q \in PendingAt(r) : p = q
  /\ Len(answers[r]) <= 1
  /\ InboxAt(r) = {} \/ (HandsAt(r) = {} /\ PendingAt(r) = {} /\ answers[r] = << >>)
  /\ HandsAt(r) = {} \/ (PendingAt(r) = {} /\ answers[r] = << >>)
  /\ PendingAt(r) = {} \/ answers[r] = << >>

Somewhere(r) == InboxAt(r) # {} \/ HandsAt(r) # {} \/ PendingAt(r) # {} \/ answers[r] # << >>

Excused(r) == dialog[r] = "failed" \/ up = "down"

RequestsKept ==
  \A r \in Requests : /\ Sole(r)
                      /\ r \in DOMAIN asked => Somewhere(r) \/ Excused(r)
                      /\ r \notin DOMAIN asked => ~ Somewhere(r)

(* Requests are numbered, and nothing else is.                              *)
Numbered ==
  /\ Len(asked) <= MaxRequests
  /\ \A m \in InFlight : IF m.kind \in RequestKinds THEN m.id \in Requests ELSE m.id = 0

(* A message in hand and a pending approval belong to a prompt that comes   *)
(* back to them, and no prompt has both.                                    *)
HandsFit ==
  \A p \in Prompts :
    /\ hand[p] # NoMessage => phase[p] \in {"draining", "driving", "asking", "flushing"}
    /\ pending[p] # 0 => phase[p] = "driving" /\ hand[p] = NoMessage

(* The request r may have moved, and is not lost.                           *)
StaysSole(r) == Sole(r)' /\ (Somewhere(r)' <=> Somewhere(r))

(* Nothing moves.                                                           *)
LEMMA UnmovedStays ==
  ASSUME NEW r \in Requests, Sole(r), UNCHANGED <<inbox, hand, pending, answers>>
  PROVE  StaysSole(r)
  BY DEF StaysSole, Sole, Somewhere, InboxAt, HandsAt, PendingAt

(* A reader takes the first message.                                        *)
LEMMA TakenStays ==
  ASSUME TypeOK, NEW r \in Requests, Sole(r), NEW a \in Readers, Takes(a), UNCHANGED <<pending, answers>>
  PROVE  StaysSole(r)
<1>1. /\ inbox[1] = Head(inbox) /\ 1 \in DOMAIN inbox
      /\ \A n \in DOMAIN inbox' : n + 1 \in DOMAIN inbox /\ inbox'[n] = inbox[n + 1] /\ n \in Nat /\ n + 1 # 1
      /\ \A n \in DOMAIN inbox : n # 1 => n - 1 \in DOMAIN inbox' /\ inbox'[n - 1] = inbox[n]
  BY DEF Takes, TypeOK
<1>2. /\ \A b \in Readers : hand'[b] = IF b = a THEN inbox[1] ELSE hand[b]
      /\ hand[a].id = 0 /\ r # 0
  BY <1>1 DEF Takes, TypeOK, NoMessage, Requests
<1>3. CASE inbox[1].id = r
  <2>1. InboxAt(r) = {1} /\ HandsAt(r) = {} /\ PendingAt(r) = {} /\ answers[r] = << >>
    BY <1>1, <1>3 DEF Sole, InboxAt
  <2>2. InboxAt(r)' = {}
    BY <1>1, <2>1 DEF InboxAt
  <2>3. HandsAt(r)' = {a}
    BY <1>2, <1>3, <2>1 DEF HandsAt
  <2> QED
    BY <2>1, <2>2, <2>3 DEF StaysSole, Sole, Somewhere, PendingAt
<1>4. CASE inbox[1].id # r
  <2>1. HandsAt(r)' = HandsAt(r)
    BY <1>2, <1>4 DEF HandsAt
  <2>2. /\ \A n \in InboxAt(r)' : n + 1 \in InboxAt(r) /\ n \in Nat
        /\ \A n \in InboxAt(r) : n - 1 \in InboxAt(r)'
    BY <1>1, <1>4 DEF InboxAt
  <2>3. \A m, n \in InboxAt(r)' : m = n
    <3> SUFFICES ASSUME NEW m \in InboxAt(r)', NEW n \in InboxAt(r)' PROVE m = n
      OBVIOUS
    <3>1. m + 1 = n + 1
      BY <2>2 DEF Sole
    <3> QED
      BY <2>2, <3>1
  <2>4. InboxAt(r)' = {} <=> InboxAt(r) = {}
    BY <2>2
  <2> QED
    BY <2>1, <2>3, <2>4 DEF StaysSole, Sole, Somewhere, PendingAt
<1> QED
  BY <1>3, <1>4

(* A hand is emptied, and what was in it was no request, or another one.    *)
LEMMA DroppedStays ==
  ASSUME TypeOK, NEW r \in Requests, Sole(r), NEW a \in Readers, Drops(a),
         UNCHANGED <<pending, answers>>, hand[a].id # r
  PROVE  StaysSole(r)
<1>1. \A b \in Readers : hand'[b] = IF b = a THEN NoMessage ELSE hand[b]
  BY DEF Drops, TypeOK
<1>2. HandsAt(r)' = HandsAt(r)
  BY <1>1 DEF HandsAt, NoMessage, Requests
<1> QED
  BY <1>2 DEF StaysSole, Sole, Somewhere, InboxAt, PendingAt, Drops

(* A request goes from a hand to the approvals beside the loop.             *)
LEMMA SetAsideStays ==
  ASSUME TypeOK, NEW r \in Requests, Sole(r), NEW p \in Prompts, Drops(p), UNCHANGED answers,
         pending[p] = 0, pending' = [pending EXCEPT ![p] = hand[p].id]
  PROVE  StaysSole(r)
<1>1. /\ \A b \in Readers : hand'[b] = IF b = p THEN NoMessage ELSE hand[b]
      /\ \A q \in Prompts : pending'[q] = IF q = p THEN hand[p].id ELSE pending[q]
      /\ r # 0 /\ p \in Readers
  BY DEF Drops, TypeOK, Requests, Readers
<1>2. CASE hand[p].id = r
  <2>1. InboxAt(r) = {} /\ HandsAt(r) = {p} /\ PendingAt(r) = {} /\ answers[r] = << >>
    BY <1>1, <1>2 DEF Sole, HandsAt
  <2>2. HandsAt(r)' = {} /\ PendingAt(r)' = {p} /\ InboxAt(r)' = {}
    BY <1>1, <1>2, <2>1 DEF HandsAt, PendingAt, InboxAt, Drops, NoMessage
  <2> QED
    BY <2>1, <2>2 DEF StaysSole, Sole, Somewhere
<1>3. CASE hand[p].id # r
  <2>1. HandsAt(r)' = HandsAt(r) /\ PendingAt(r)' = PendingAt(r) /\ InboxAt(r)' = InboxAt(r)
    BY <1>1, <1>3 DEF HandsAt, PendingAt, InboxAt, Drops, NoMessage
  <2> QED
    BY <2>1 DEF StaysSole, Sole, Somewhere
<1> QED
  BY <1>2, <1>3

(* An answer is an answer to one request.                                   *)
LEMMA AnswerOf ==
  ASSUME TypeOK, NEW r \in Requests, NEW q, NEW decision, Answer(q, decision)
  PROVE  answers'[r] = IF q = r THEN Append(answers[r], decision) ELSE answers[r]
  BY DEF Answer, TypeOK

(* The request in a hand is answered.                                       *)
LEMMA AnsweredFromHand ==
  ASSUME TypeOK, NEW r \in Requests, Sole(r), NEW a \in Readers, Drops(a), UNCHANGED pending,
         NEW decision \in {"accept", "decline", "cancel", "refuse"}, Answer(hand[a].id, decision)
  PROVE  StaysSole(r)
<1>1. \A b \in Readers : hand'[b] = IF b = a THEN NoMessage ELSE hand[b]
  BY DEF Drops, TypeOK
<1>2. CASE hand[a].id = r
  <2>1. InboxAt(r) = {} /\ HandsAt(r) = {a} /\ PendingAt(r) = {} /\ answers[r] = << >>
    BY <1>2 DEF Sole, HandsAt
  <2>2. HandsAt(r)' = {} /\ PendingAt(r)' = {} /\ InboxAt(r)' = {}
    BY <1>1, <2>1 DEF HandsAt, PendingAt, InboxAt, Drops, NoMessage, Requests
  <2>3. answers'[r] = Append(<< >>, decision)
    BY <1>2, <2>1, AnswerOf
  <2>4. Len(answers'[r]) = 1 /\ answers'[r] # << >>
    BY <2>3
  <2> QED
    BY <2>1, <2>2, <2>4 DEF StaysSole, Sole, Somewhere
<1>3. CASE hand[a].id # r
  <2>1. HandsAt(r)' = HandsAt(r) /\ PendingAt(r)' = PendingAt(r) /\ InboxAt(r)' = InboxAt(r)
    BY <1>1, <1>3 DEF HandsAt, PendingAt, InboxAt, Drops, NoMessage, Requests
  <2>2. answers'[r] = answers[r]
    BY <1>3, AnswerOf
  <2> QED
    BY <2>1, <2>2 DEF StaysSole, Sole, Somewhere
<1> QED
  BY <1>2, <1>3

(* The approval beside the loop is answered.                                *)
LEMMA AnsweredFromPending ==
  ASSUME TypeOK, NEW r \in Requests, Sole(r), NEW p \in Prompts, UNCHANGED <<inbox, hand>>,
         pending' = [pending EXCEPT ![p] = 0],
         NEW decision \in {"accept", "decline", "cancel", "refuse"}, Answer(pending[p], decision)
  PROVE  StaysSole(r)
<1>1. /\ \A q \in Prompts : pending'[q] = IF q = p THEN 0 ELSE pending[q]
      /\ HandsAt(r)' = HandsAt(r) /\ InboxAt(r)' = InboxAt(r) /\ r # 0
  BY DEF TypeOK, HandsAt, InboxAt, Requests
<1>2. CASE pending[p] = r
  <2>1. InboxAt(r) = {} /\ HandsAt(r) = {} /\ PendingAt(r) = {p} /\ answers[r] = << >>
    BY <1>2 DEF Sole, PendingAt
  <2>2. PendingAt(r)' = {}
    BY <1>1, <2>1 DEF PendingAt
  <2>3. answers'[r] = Append(<< >>, decision)
    BY <1>2, <2>1, AnswerOf
  <2>4. Len(answers'[r]) = 1 /\ answers'[r] # << >>
    BY <2>3
  <2> QED
    BY <1>1, <2>1, <2>2, <2>4 DEF StaysSole, Sole, Somewhere
<1>3. CASE pending[p] # r
  <2>1. PendingAt(r)' = PendingAt(r)
    BY <1>1, <1>3 DEF PendingAt
  <2>2. answers'[r] = answers[r]
    BY <1>3, AnswerOf
  <2> QED
    BY <1>1, <2>1, <2>2 DEF StaysSole, Sole, Somewhere
<1> QED
  BY <1>2, <1>3

(* Requests stay accounted for where each stays in its place.               *)
LEMMA KeptByStaying ==
  ASSUME RequestsKept, UNCHANGED asked,
         \A r \in Requests : StaysSole(r) /\ (Excused(r) /\ ~ Somewhere(r) => Excused(r)')
  PROVE  RequestsKept'
  BY DEF RequestsKept, StaysSole

(* A prompt fails: what it drops is excused.                                *)
LEMMA FailingKeepsRequests ==
  ASSUME TypeOK, RequestsKept, HandsFit, NEW p \in Prompts, Failing(p),
         StartFails(p) \/ InboxCloses(p) \/ DialogFails(p) \/ OfferFails(p) \/ WriteFails(p)
  PROVE  RequestsKept'
<1> SUFFICES ASSUME NEW r \in Requests
             PROVE  /\ Sole(r)'
                    /\ r \in DOMAIN asked => Somewhere(r)' \/ Excused(r)'
                    /\ r \notin DOMAIN asked => ~ Somewhere(r)'
  BY DEF RequestsKept, Failing
<1>1. /\ \A b \in Readers : hand'[b] = IF b = p THEN NoMessage ELSE hand[b]
      /\ \A q \in Prompts : pending'[q] = IF q = p THEN 0 ELSE pending[q]
      /\ UNCHANGED <<inbox, answers, dialog, up, asked>> /\ r # 0 /\ p \in Readers
  BY DEF Failing, Fail, TypeOK, Requests, Readers
<1>2. /\ InboxAt(r)' = InboxAt(r)
      /\ HandsAt(r)' = HandsAt(r) \ {p}
      /\ PendingAt(r)' = PendingAt(r) \ {p}
  BY <1>1 DEF InboxAt, HandsAt, PendingAt, NoMessage
<1>3. Sole(r)' /\ (Somewhere(r)' => Somewhere(r))
  BY <1>1, <1>2 DEF RequestsKept, Sole, Somewhere
<1>4. CASE hand[p].id = r
  <2>1. phase[p] \in {"draining", "driving", "asking", "flushing"} /\ hand[p] # NoMessage
    BY <1>1, <1>4 DEF HandsFit, NoMessage
  <2>2. up = "down" \/ dialog[hand[p].id] = "failed"
    BY <2>1 DEF StartFails, InboxCloses, DialogFails, OfferFails, WriteFails, Selecting
  <2> QED
    BY <1>1, <1>3, <1>4, <2>2 DEF Excused, RequestsKept
<1>5. CASE pending[p] = r
  <2>1. phase[p] = "driving" /\ hand[p] = NoMessage
    BY <1>1, <1>5 DEF HandsFit
  <2>2. up = "down" \/ dialog[pending[p]] = "failed"
    BY <2>1 DEF StartFails, InboxCloses, DialogFails, OfferFails, WriteFails
  <2> QED
    BY <1>1, <1>3, <1>5, <2>2 DEF Excused, RequestsKept
<1>6. CASE hand[p].id # r /\ pending[p] # r
  <2>1. p \notin HandsAt(r) /\ p \notin PendingAt(r)
    BY <1>6 DEF HandsAt, PendingAt
  <2>2. Somewhere(r)' <=> Somewhere(r)
    BY <1>1, <1>2, <2>1 DEF Somewhere
  <2> QED
    BY <1>1, <1>3, <2>2 DEF Excused, RequestsKept
<1> QED
  BY <1>4, <1>5, <1>6

(* The steps of a prompt keep requests accounted for.                       *)
LEMMA PromptKeepsRequests ==
  ASSUME TypeOK, RequestsKept, Numbered, HandsFit, NEW p \in Prompts, PromptStep(p)
  PROVE  RequestsKept'
<1>1. p \in Readers
  BY DEF Readers
<1>2. \A r \in Requests : Sole(r) /\ r # 0
  BY DEF RequestsKept, Requests
<1>3. CASE StartFails(p) \/ InboxCloses(p) \/ DialogFails(p) \/ OfferFails(p) \/ WriteFails(p)
  BY <1>3, FailingSteps, FailingKeepsRequests
<1>4. CASE UNCHANGED <<inbox, hand, pending, answers, dialog, up, asked>>
  BY <1>2, <1>4, UnmovedStays, KeptByStaying DEF Excused
<1>5. CASE Prompt(p) \/ StartTurn(p) \/ TurnStarted(p) \/ EndFlush(p) \/ Return(p) \/ AcceptPlan(p) \/ DeclinePlan(p)
  BY <1>4, <1>5 DEF Prompt, StartTurn, TurnStarted, EndFlush, Return, AcceptPlan, DeclinePlan
<1>6. CASE SendInterrupt(p) \/ InterruptRefused(p) \/ Watchdog(p) \/ Finalize(p)
  BY <1>4, <1>6 DEF SendInterrupt, InterruptRefused, Watchdog, Finalize
<1>7. CASE Receive(p)
  <2>1. Takes(p) /\ UNCHANGED <<pending, answers, dialog, up, asked>>
    BY <1>7 DEF Receive, Selecting, Takes
  <2> QED
    BY <1>1, <1>2, <2>1, TakenStays, KeptByStaying DEF Excused
<1>8. CASE HandleNote(p)
  <2>1. Drops(p) /\ UNCHANGED <<pending, answers, dialog, up, asked>>
    BY <1>8 DEF HandleNote, Drops
  <2>2. hand[p].kind \notin RequestKinds /\ hand[p] \in InFlight
    BY <1>1, <1>8 DEF HandleNote, InFlight, NoteKinds, EndKinds, RequestKinds
  <2>3. hand[p].id = 0
    BY <2>2 DEF Numbered
  <2> QED
    BY <1>1, <1>2, <2>1, <2>3, DroppedStays, KeptByStaying DEF Excused
<1>9. CASE HandleCommand(p)
  <2>1. Drops(p) /\ UNCHANGED <<answers, up, asked>> /\ pending' = [pending EXCEPT ![p] = hand[p].id]
    BY <1>9 DEF HandleCommand, Drops
  <2>2. pending[p] = 0
    BY <1>9 DEF HandleCommand, Handling, HandsFit
  <2>3. \A r \in Requests : StaysSole(r)
    BY <1>2, <2>1, <2>2, SetAsideStays
  <2>4. ASSUME NEW r \in Requests, Excused(r), ~ Somewhere(r) PROVE Excused(r)'
    <3>1. hand[p].id # r
      BY <1>1, <2>4 DEF Somewhere, HandsAt
    <3>2. dialog'[r] = dialog[r]
      BY <1>9, <3>1 DEF HandleCommand, TypeOK
    <3> QED
      BY <2>1, <2>4, <3>2 DEF Excused
  <2> QED
    BY <2>1, <2>3, <2>4, KeptByStaying
<1>10. CASE HandleRequest(p)
  <2>1. UNCHANGED <<inbox, hand, pending, answers, up, asked>>
    BY <1>10 DEF HandleRequest
  <2>2. ASSUME NEW r \in Requests, Excused(r), ~ Somewhere(r) PROVE Excused(r)'
    <3>1. hand[p].id # r
      BY <1>1, <2>2 DEF Somewhere, HandsAt
    <3>2. dialog'[r] = dialog[r]
      BY <1>10, <3>1 DEF HandleRequest, TypeOK
    <3> QED
      BY <2>1, <2>2, <3>2 DEF Excused
  <2> QED
    BY <1>2, <2>1, <2>2, UnmovedStays, KeptByStaying
<1>11. CASE AnswerAsked(p)
  <2>1. Drops(p) /\ UNCHANGED <<pending, dialog, up, asked>>
    BY <1>11 DEF AnswerAsked, Drops
  <2>2. PICK decision \in {"accept", "decline", "cancel"} : Answer(hand[p].id, decision)
    BY <1>11, DecisionTypes DEF AnswerAsked
  <2> QED
    BY <1>1, <1>2, <2>1, <2>2, AnsweredFromHand, KeptByStaying DEF Excused
<1>12. CASE AnswerPending(p)
  <2>1. UNCHANGED <<inbox, hand, dialog, up, asked>> /\ pending' = [pending EXCEPT ![p] = 0]
    BY <1>12 DEF AnswerPending
  <2>2. PICK decision \in {"accept", "decline", "cancel"} : Answer(pending[p], decision)
    BY <1>12, DecisionTypes DEF AnswerPending
  <2> QED
    BY <1>2, <2>1, <2>2, AnsweredFromPending, KeptByStaying DEF Excused
<1>13. CASE ObserveCancel(p)
  <2>1. UNCHANGED <<inbox, hand, dialog, up, asked>>
    BY <1>13 DEF ObserveCancel
  <2>2. CASE UNCHANGED <<pending, answers>>
    BY <1>4, <2>1, <2>2
  <2>3. CASE pending' = [pending EXCEPT ![p] = 0] /\ Answer(pending[p], "cancel")
    BY <1>2, <2>1, <2>3, AnsweredFromPending, KeptByStaying DEF Excused
  <2>4. CASE pending[p] = 0 /\ pending' = [pending EXCEPT ![p] = 0] /\ UNCHANGED answers
    <3>1. pending' = pending
      BY <2>4 DEF TypeOK
    <3> QED
      BY <2>2, <2>4, <3>1
  <2> QED
    BY <1>13, <2>2, <2>3, <2>4 DEF ObserveCancel
<1> QED
  BY <1>3, <1>5, <1>6, <1>7, <1>8, <1>9, <1>10, <1>11, <1>12, <1>13 DEF PromptStep, DriverStep

(* A drain refuses the requests it takes, and drops no other message that   *)
(* is one.                                                                  *)
LEMMA DrainKeepsRequests ==
  ASSUME TypeOK, RequestsKept, Numbered, NEW a \in Readers, DrainStep(a)
  PROVE  RequestsKept'
<1>1. \A r \in Requests : Sole(r) /\ r # 0
  BY DEF RequestsKept, Requests
<1>2. UNCHANGED <<pending, dialog, up, asked>>
  BY DEF DrainStep, BeginPoll, EndPoll, TakeMessage, DrainMessage
<1>3. CASE BeginPoll(a) \/ EndPoll(a)
  <2>1. UNCHANGED <<inbox, hand, pending, answers>>
    BY <1>3 DEF BeginPoll, EndPoll
  <2> QED
    BY <1>1, <1>2, <2>1, UnmovedStays, KeptByStaying DEF Excused
<1>4. CASE TakeMessage(a)
  <2>1. Takes(a) /\ UNCHANGED answers
    BY <1>4 DEF TakeMessage, Takes
  <2> QED
    BY <1>1, <1>2, <2>1, TakenStays, KeptByStaying DEF Excused
<1>5. CASE DrainMessage(a)
  <2>1. Drops(a)
    BY <1>5 DEF DrainMessage, Drops
  <2>2. CASE hand[a].kind \in RequestKinds
    <3>1. Answer(hand[a].id, "refuse")
      BY <1>5, <2>2 DEF DrainMessage
    <3> QED
      BY <1>1, <1>2, <2>1, <3>1, AnsweredFromHand, KeptByStaying DEF Excused
  <2>3. CASE hand[a].kind \notin RequestKinds
    <3>1. hand[a].id = 0
      BY <2>3 DEF Numbered, InFlight
    <3>2. UNCHANGED answers
      BY <1>5, <2>3 DEF DrainMessage
    <3> QED
      BY <1>1, <1>2, <2>1, <3>1, <3>2, DroppedStays, KeptByStaying DEF Excused
  <2> QED
    BY <2>2, <2>3
<1> QED
  BY <1>3, <1>4, <1>5 DEF DrainStep

(* A message that the server sends moves no request but the one it is.      *)
LEMMA EmittedAt ==
  ASSUME TypeOK, NEW m \in Messages, Emit(m), NEW r \in Requests
  PROVE  InboxAt(r)' = IF m.id = r THEN InboxAt(r) \cup {Len(inbox) + 1} ELSE InboxAt(r)
<1>1. inbox' = Append(inbox, m) /\ inbox \in Seq(Messages)
  BY DEF Emit, TypeOK
<1>2. /\ DOMAIN inbox' = DOMAIN inbox \cup {Len(inbox) + 1}
      /\ Len(inbox) + 1 \notin DOMAIN inbox
      /\ inbox'[Len(inbox) + 1] = m /\ \A n \in DOMAIN inbox : inbox'[n] = inbox[n]
  BY <1>1
<1> QED
  BY <1>2 DEF InboxAt

(* The client and the server: only a new request appears, in the inbox.     *)
LEMMA EnvironmentKeepsRequests ==
  ASSUME TypeOK, RequestsKept, Numbered, ClientStep \/ ServerStep
  PROVE  RequestsKept'
<1>1. \A r \in Requests : Sole(r) /\ r # 0
  BY DEF RequestsKept, Requests
<1>2. ASSUME UNCHANGED <<inbox, hand, pending, answers, asked>>,
             \A r \in Requests : dialog[r] = "failed" => dialog'[r] = "failed", up' \in {up, "down"}
      PROVE  RequestsKept'
  BY <1>1, <1>2, UnmovedStays, KeptByStaying DEF Excused
<1>3. CASE Cancel
  BY <1>2, <1>3 DEF Cancel
<1>4. ASSUME NEW q \in Requests, NEW choice, Decide(q, choice) PROVE RequestsKept'
  <2>1. \A r \in Requests : dialog[r] = "failed" => dialog'[r] = "failed"
    BY <1>4 DEF Decide, TypeOK
  <2> QED
    BY <1>2, <1>4, <2>1 DEF Decide
<1>5. ASSUME NEW p \in Prompts, ServerStartsTurn(p) \/ ServerInterrupts(p) PROVE RequestsKept'
  BY <1>2, <1>5 DEF ServerStartsTurn, ServerInterrupts
<1>6. CASE ServerDies
  BY <1>2, <1>6 DEF ServerDies
<1>7. ASSUME NEW m \in Messages, Emit(m), m.id = 0, UNCHANGED asked PROVE RequestsKept'
  <2>1. \A r \in Requests : InboxAt(r)' = InboxAt(r)
    BY <1>1, <1>7, EmittedAt
  <2> QED
    BY <1>1, <1>7, <2>1, KeptByStaying DEF Emit, StaysSole, Sole, Somewhere, HandsAt, PendingAt, Excused
<1>8. ASSUME NEW k \in Turns, NEW kind \in NoteKinds, ServerNotes(k, kind) PROVE RequestsKept'
  <2>1. Message(kind, k, 0) \in Messages /\ Message(kind, k, 0).id = 0
    BY DEF Message, Messages, MessageKinds, Turns
  <2> QED
    BY <1>7, <1>8, <2>1 DEF ServerNotes
<1>9. ASSUME NEW k \in Turns, ServerCompletes(k) \/ ServerStopsTurn(k) PROVE RequestsKept'
  <2>1. \A kind \in EndKinds : Message(kind, k, 0) \in Messages /\ Message(kind, k, 0).id = 0
    BY DEF Message, Messages, MessageKinds, Turns
  <2> QED
    BY <1>7, <1>9, <2>1 DEF ServerCompletes, ServerStopsTurn, EndKinds
<1>10. ASSUME NEW k \in Turns, NEW kind \in RequestKinds, ServerAsks(k, kind) PROVE RequestsKept'
  <2>1. asked \in Seq([kind : RequestKinds, turn : Nat]) /\ Len(asked) < MaxRequests
    BY <1>10 DEF ServerAsks, TypeOK
  <2>2. PICK new \in Requests : new = Len(asked) + 1 /\ new \notin DOMAIN asked
    BY <2>1, TurnDriverAssumption DEF Requests
  <2> DEFINE m == Message(kind, k, new)
  <2>3. m \in Messages /\ m.id = new /\ Emit(m)
    BY <1>10, <2>2 DEF ServerAsks, Message, Messages, MessageKinds, Turns, Requests
  <2>4. \A r \in Requests : InboxAt(r)' = IF r = new THEN InboxAt(r) \cup {Len(inbox) + 1} ELSE InboxAt(r)
    BY <2>3, EmittedAt
  <2>5. asked' = Append(asked, [kind |-> kind, turn |-> k])
    BY <1>10 DEF ServerAsks
  <2>6. DOMAIN asked' = DOMAIN asked \cup {new}
    BY <2>1, <2>2, <2>5
  <2>7. ~ Somewhere(new) /\ Sole(new)
    BY <2>2 DEF RequestsKept
  <2>8. UNCHANGED <<hand, pending, answers, dialog, up>>
    BY <2>3 DEF Emit
  <2>9. Sole(new)' /\ Somewhere(new)'
    <3>1. InboxAt(new)' = {Len(inbox) + 1}
      BY <2>2, <2>4, <2>7 DEF Somewhere
    <3> QED
      BY <2>7, <2>8, <3>1 DEF Sole, Somewhere, HandsAt, PendingAt
  <2>10. ASSUME NEW r \in Requests, r # new PROVE StaysSole(r) /\ (Excused(r)' <=> Excused(r))
    BY <1>1, <2>4, <2>8, <2>10 DEF StaysSole, Sole, Somewhere, HandsAt, PendingAt, Excused
  <2> QED
    BY <2>6, <2>9, <2>10 DEF RequestsKept, StaysSole
<1> QED
  BY <1>3, <1>4, <1>5, <1>6, <1>8, <1>9, <1>10 DEF ClientStep, ServerStep

(* The messages keep their numbers.                                         *)
LEMMA NumbersKept ==
  ASSUME TypeOK, Numbered, [Next]_vars
  PROVE  Numbered'
<1>1. ASSUME UNCHANGED asked, InFlight' \subseteq InFlight \cup {NoMessage} PROVE Numbered'
  BY <1>1 DEF Numbered, NoMessage, RequestKinds
<1>2. CASE UNCHANGED vars
  BY <1>1, <1>2 DEF vars, InFlight
<1>3. ASSUME NEW p \in Prompts, PromptStep(p) PROVE Numbered'
  <2>1. p \in Readers
    BY DEF Readers
  <2>2. CASE Failing(p)
    BY <1>1, <1>3, <2>1, <2>2, PromptMessages, FlightShrinks DEF Failing
  <2>3. CASE UNCHANGED asked
    BY <1>1, <1>3, <2>1, <2>3, PromptMessages, FlightShrinks
  <2> QED
    BY <1>3, <2>2, <2>3, FailingSteps DEF PromptStep, DriverStep, Prompt, StartTurn, TurnStarted, EndFlush, Return,
       AcceptPlan, DeclinePlan, Receive, HandleNote, HandleCommand, HandleRequest, AnswerAsked, AnswerPending,
       ObserveCancel, SendInterrupt, InterruptRefused, Watchdog, Finalize
<1>4. ASSUME NEW a \in Readers, DrainStep(a) PROVE Numbered'
  <2>1. UNCHANGED asked
    BY <1>4 DEF DrainStep, BeginPoll, EndPoll, TakeMessage, DrainMessage
  <2> QED
    BY <1>1, <1>4, <2>1, DrainMessages, FlightShrinks
<1>5. ASSUME UNCHANGED <<inbox, hand, asked>> PROVE Numbered'
  BY <1>1, <1>5 DEF InFlight
<1>6. CASE ClientStep
  BY <1>5, <1>6 DEF ClientStep, Cancel, Decide
<1>7. ASSUME NEW p \in Prompts, ServerStartsTurn(p) \/ ServerInterrupts(p) PROVE Numbered'
  BY <1>5, <1>7 DEF ServerStartsTurn, ServerInterrupts
<1>8. CASE ServerDies
  BY <1>5, <1>8 DEF ServerDies
<1>9. ASSUME NEW k \in Turns, NEW kind \in NoteKinds \cup EndKinds, Emit(Message(kind, k, 0)), UNCHANGED asked
      PROVE  Numbered'
  <2>1. Message(kind, k, 0) \in Messages
    BY DEF Message, Messages, MessageKinds, Turns
  <2>2. InFlight' \subseteq InFlight \cup {Message(kind, k, 0)}
    BY <1>9, <2>1, FlightGrows
  <2> QED
    BY <1>9, <2>2 DEF Numbered, Message, NoteKinds, EndKinds, RequestKinds
<1>10. ASSUME NEW k \in Turns, NEW kind \in RequestKinds, ServerAsks(k, kind) PROVE Numbered'
  <2>1. asked \in Seq([kind : RequestKinds, turn : Nat]) /\ Len(asked) < MaxRequests
    BY <1>10 DEF ServerAsks, TypeOK
  <2>2. PICK new \in Requests : new = Len(asked) + 1
    BY <2>1, TurnDriverAssumption DEF Requests
  <2>3. Message(kind, k, new) \in Messages /\ Emit(Message(kind, k, new))
    BY <1>10, <2>2 DEF ServerAsks, Message, Messages, MessageKinds, Turns, Requests
  <2>4. InFlight' \subseteq InFlight \cup {Message(kind, k, new)}
    BY <2>3, FlightGrows
  <2>5. asked' = Append(asked, [kind |-> kind, turn |-> k])
    BY <1>10 DEF ServerAsks
  <2>6. Len(asked') <= MaxRequests
    BY <2>1, <2>5, TurnDriverAssumption
  <2> QED
    BY <2>4, <2>6 DEF Numbered, Message
<1>11. ASSUME NEW k \in Turns, ServerCompletes(k) \/ ServerStopsTurn(k) PROVE Numbered'
  BY <1>9, <1>11 DEF ServerCompletes, ServerStopsTurn, EndKinds
<1>12. ASSUME NEW k \in Turns, NEW kind \in NoteKinds, ServerNotes(k, kind) PROVE Numbered'
  BY <1>9, <1>12 DEF ServerNotes
<1> QED
  BY <1>2, <1>3, <1>4, <1>6, <1>7, <1>8, <1>10, <1>11, <1>12 DEF Next, ServerStep

(* What fits one prompt.                                                    *)
HandFits(p) ==
  /\ hand[p] # NoMessage => phase[p] \in {"draining", "driving", "asking", "flushing"}
  /\ pending[p] # 0 => phase[p] = "driving" /\ hand[p] = NoMessage

(* What a prompt has in its hand fits its phase.                            *)
LEMMA PromptHandFits ==
  ASSUME TypeOK, NEW p \in Prompts, HandFits(p), PromptStep(p)
  PROVE  HandFits(p)'
<1>1. p \in Readers /\ NoMessage \in Messages \cup {NoMessage}
  BY DEF Readers
<1>2. ASSUME NEW next, phase' = [phase EXCEPT ![p] = next] PROVE phase'[p] = next
  BY <1>2 DEF TypeOK
<1>3. ASSUME hand' = [hand EXCEPT ![p] = NoMessage] PROVE hand'[p] = NoMessage
  BY <1>1, <1>3 DEF TypeOK
<1>4. ASSUME pending' = [pending EXCEPT ![p] = 0] PROVE pending'[p] = 0
  BY <1>4 DEF TypeOK
<1>5. CASE Failing(p)
  BY <1>3, <1>4, <1>5 DEF Failing, Fail, HandFits
<1>6. CASE Prompt(p) \/ StartTurn(p) \/ TurnStarted(p) \/ EndFlush(p) \/ Return(p) \/ AcceptPlan(p) \/ DeclinePlan(p)
  <2>1. UNCHANGED <<hand, pending>> /\ (hand[p] = NoMessage \/ phase[p] \in {"idle", "starting", "finished", "offering"})
    BY <1>6 DEF Prompt, StartTurn, TurnStarted, EndFlush, Return, AcceptPlan, DeclinePlan
  <2>2. phase[p] # "driving"
    BY <1>6 DEF Prompt, StartTurn, TurnStarted, EndFlush, Return, AcceptPlan, DeclinePlan
  <2> QED
    BY <2>1, <2>2 DEF HandFits
<1>7. CASE SendInterrupt(p) \/ InterruptRefused(p) \/ Finalize(p)
  <2>1. UNCHANGED <<hand, pending>> /\ phase[p] \in {"cancelling", "interrupting", "finalizing"}
    BY <1>7 DEF SendInterrupt, InterruptRefused, Finalize
  <2> QED
    BY <2>1 DEF HandFits
<1>8. CASE Watchdog(p) \/ Receive(p) \/ AnswerPending(p)
  <2>1. phase'[p] = "driving" /\ (pending'[p] = 0 \/ UNCHANGED <<phase, hand, pending>>)
    BY <1>4, <1>8 DEF Watchdog, Receive, AnswerPending, Selecting
  <2> QED
    BY <2>1 DEF HandFits
<1>9. CASE HandleNote(p) \/ AnswerAsked(p)
  <2>1. hand'[p] = NoMessage /\ UNCHANGED pending
    BY <1>3, <1>9 DEF HandleNote, AnswerAsked
  <2>2. pending[p] = 0
    BY <1>9 DEF HandleNote, AnswerAsked, Handling, HandFits
  <2> QED
    BY <2>1, <2>2 DEF HandFits
<1>10. CASE HandleCommand(p)
  BY <1>3, <1>10 DEF HandleCommand, Handling, HandFits
<1>11. CASE HandleRequest(p)
  <2>1. phase'[p] = "asking" /\ UNCHANGED pending
    BY <1>2, <1>11 DEF HandleRequest
  <2>2. pending[p] = 0
    BY <1>11 DEF HandleRequest, Handling, HandFits
  <2> QED
    BY <2>1, <2>2 DEF HandFits
<1>12. CASE ObserveCancel(p)
  BY <1>4, <1>12 DEF ObserveCancel, Selecting, HandFits
<1> QED
  BY <1>5, <1>6, <1>7, <1>8, <1>9, <1>10, <1>11, <1>12, FailingSteps DEF PromptStep, DriverStep

(* Every step keeps what is in a hand fit for the phase of its prompt.      *)
LEMMA HandsFitKept ==
  ASSUME TypeOK, HandsFit, [Next]_vars
  PROVE  HandsFit'
<1> SUFFICES ASSUME NEW q \in Prompts PROVE HandFits(q)'
  BY DEF HandsFit, HandFits
<1>1. HandFits(q) /\ q \in Readers
  BY DEF HandsFit, HandFits, Readers
<1>2. CASE UNCHANGED <<hand, phase, pending>>
  BY <1>1, <1>2 DEF HandFits
<1>3. ASSUME NEW p \in Prompts, PromptStep(p) PROVE HandFits(q)'
  <2>1. CASE p = q
    BY <1>1, <1>3, <2>1, PromptHandFits
  <2>2. CASE p # q
    <3>1. phase'[q] = phase[q]
      BY <1>3, <2>2, PromptStepsAlone
    <3>2. hand'[q] = hand[q]
      BY <1>1, <1>3, <2>2, PromptMessages, HandsAlone DEF Readers
    <3>3. pending' = pending \/ \E r \in Nat : pending' = [pending EXCEPT ![p] = r]
      <4>1. CASE Failing(p)
        BY <4>1 DEF Failing, Fail
      <4>2. CASE HandleCommand(p)
        <5>1. hand[p].id \in Nat
          BY <4>2 DEF HandleCommand, Handling, TypeOK, Messages, Readers
        <5> QED
          BY <4>2, <5>1 DEF HandleCommand
      <4>3. CASE AnswerPending(p) \/ ObserveCancel(p)
        BY <4>3 DEF AnswerPending, ObserveCancel
      <4> QED
        BY <1>3, <4>1, <4>2, <4>3, FailingSteps DEF PromptStep, DriverStep, Prompt, StartTurn, TurnStarted, EndFlush,
           Return, AcceptPlan, DeclinePlan, Receive, HandleNote, HandleRequest, AnswerAsked, SendInterrupt,
           InterruptRefused, Watchdog, Finalize
    <3>4. pending'[q] = pending[q]
      BY <2>2, <3>3 DEF TypeOK
    <3> QED
      BY <1>1, <3>1, <3>2, <3>4 DEF HandFits
  <2> QED
    BY <2>1, <2>2
<1>4. ASSUME NEW a \in Readers, DrainStep(a) PROVE HandFits(q)'
  <2>1. UNCHANGED <<phase, pending>>
    BY <1>4 DEF DrainStep, BeginPoll, EndPoll, TakeMessage, DrainMessage
  <2>2. hand'[q] \in {hand[q], NoMessage} \/ phase[q] \in {"draining", "flushing"}
    <3>1. CASE a = q
      <4>1. q # Watcher
        BY TurnDriverAssumption
      <4> QED
        BY <1>1, <1>4, <3>1, <4>1 DEF DrainStep, BeginPoll, EndPoll, TakeMessage, DrainMessage, BackgroundDrainer,
           PostTurnDrainer
    <3>2. CASE a # q
      BY <1>1, <1>4, <3>2, DrainMessages, HandsAlone
    <3> QED
      BY <3>1, <3>2
  <2> QED
    BY <1>1, <2>1, <2>2 DEF HandFits
<1>5. ASSUME NEW p \in Prompts, ServerInterrupts(p) PROVE HandFits(q)'
  <2>1. UNCHANGED <<hand, pending>>
    BY <1>5 DEF ServerInterrupts
  <2>2. phase'[q] = phase[q] \/ phase[q] = "interrupting"
    BY <1>5 DEF ServerInterrupts, TypeOK
  <2> QED
    BY <1>1, <2>1, <2>2 DEF HandFits
<1>6. CASE ClientStep \/ ServerDies
  BY <1>2, <1>6 DEF ClientStep, Cancel, Decide, ServerDies
<1>7. ASSUME NEW p \in Prompts, ServerStartsTurn(p) PROVE HandFits(q)'
  BY <1>2, <1>7 DEF ServerStartsTurn
<1>8. ASSUME NEW m, Emit(m) PROVE HandFits(q)'
  BY <1>2, <1>8 DEF Emit
<1>9. ASSUME NEW k \in Turns,
             \/ \E kind \in NoteKinds : ServerNotes(k, kind)
             \/ \E kind \in RequestKinds : ServerAsks(k, kind)
             \/ ServerCompletes(k) \/ ServerStopsTurn(k)
      PROVE  HandFits(q)'
  BY <1>8, <1>9 DEF ServerNotes, ServerAsks, ServerCompletes, ServerStopsTurn
<1>10. CASE UNCHANGED vars
  BY <1>2, <1>10 DEF vars
<1> QED
  BY <1>3, <1>4, <1>5, <1>6, <1>7, <1>9, <1>10 DEF Next, ServerStep

RequestInv == TypeOK /\ ClientKnown /\ RequestsKept /\ Numbered /\ HandsFit

LEMMA RequestInitially == Init => RequestInv
<1> SUFFICES ASSUME Init PROVE RequestsKept /\ Numbered /\ HandsFit
  BY TypesInitially DEF RequestInv
<1>1. /\ inbox = << >> /\ asked = << >> /\ \A r \in Requests : answers[r] = << >> /\ r # 0
      /\ \A a \in Readers : hand[a] = NoMessage
      /\ \A p \in Prompts : pending[p] = 0
  BY DEF Init, Requests
<1>2. \A r \in Requests : InboxAt(r) = {} /\ HandsAt(r) = {} /\ PendingAt(r) = {} /\ answers[r] = << >>
  BY <1>1 DEF InboxAt, HandsAt, PendingAt, NoMessage
<1>3. RequestsKept
  BY <1>1, <1>2 DEF RequestsKept, Sole, Somewhere
<1>4. Numbered
  BY <1>1, TurnDriverAssumption DEF Numbered, InFlight, NoMessage, RequestKinds
<1>5. HandsFit
  BY <1>1 DEF HandsFit, Readers
<1> QED
  BY <1>3, <1>4, <1>5

LEMMA RequestInductive == RequestInv /\ [Next]_vars => RequestInv'
<1> SUFFICES ASSUME RequestInv, [Next]_vars PROVE RequestInv'
  OBVIOUS
<1>1. TypeOK' /\ ClientKnown' /\ Numbered' /\ HandsFit'
  BY TypesInductive, NumbersKept, HandsFitKept DEF RequestInv
<1>2. RequestsKept'
  <2>1. CASE UNCHANGED vars
    BY <2>1 DEF RequestInv, RequestsKept, Sole, Somewhere, Excused, InboxAt, HandsAt, PendingAt, vars
  <2>2. CASE Next
    BY <2>2, PromptKeepsRequests, DrainKeepsRequests, EnvironmentKeepsRequests DEF RequestInv, Next
  <2> QED
    BY <2>1, <2>2
<1> QED
  BY <1>1, <1>2 DEF RequestInv

(* Every request the server issued is in one place only: in the inbox, in   *)
(* one reader's hand, pending beside one loop or answered once; and only a  *)
(* failed dialog or the end of the server loses one.  It holds although the *)
(* user, a cancel and the drains compete to answer it, whatever the client. *)
THEOREM RequestsAreAccountedFor == Spec => []RequestsAccountedFor
<1>1. RequestInv => RequestsAccountedFor
  <2> SUFFICES ASSUME RequestInv, NEW r \in DOMAIN asked
               PROVE  /\ \A a, b \in Places(r) : a = b
                      /\ Places(r) = {} => dialog[r] = "failed" \/ up = "down"
    BY DEF RequestsAccountedFor
  <2>1. r \in Requests /\ answers[r] \in Seq({"accept", "decline", "cancel", "refuse"})
    BY TurnDriverAssumption DEF RequestInv, TypeOK, Numbered, Requests
  <2>2. Sole(r) /\ (Somewhere(r) \/ Excused(r))
    BY <2>1 DEF RequestInv, RequestsKept
  <2>3. Places(r) = {<<"inbox", n>> : n \in InboxAt(r)} \cup {<<"hand", a>> : a \in HandsAt(r)}
                      \cup {<<"pending", p>> : p \in PendingAt(r)} \cup {<<"answered", n>> : n \in DOMAIN answers[r]}
    BY DEF Places, InboxAt, HandsAt, PendingAt
  <2>4. \A m, n \in DOMAIN answers[r] : m = n
    BY <2>1, <2>2 DEF Sole
  <2>5. answers[r] = << >> <=> DOMAIN answers[r] = {}
    <3>1. Len(answers[r]) \in Nat /\ DOMAIN answers[r] = 1..Len(answers[r])
      BY <2>1
    <3>2. DOMAIN << >> = {}
      OBVIOUS
    <3>3. DOMAIN answers[r] = {} => Len(answers[r]) = 0
      <4>1. Len(answers[r]) # 0 => 1 \in 1..Len(answers[r])
        BY <3>1
      <4> QED
        BY <3>1, <4>1
    <3> QED
      BY <2>1, <3>2, <3>3
  <2>6. \A a, b \in Places(r) : a = b
    BY <2>2, <2>3, <2>4, <2>5 DEF Sole
  <2>7. Places(r) = {} => ~ Somewhere(r)
    BY <2>3, <2>5 DEF Somewhere
  <2> QED
    BY <2>2, <2>6, <2>7 DEF Excused
<1> QED
  BY <1>1, RequestInitially, RequestInductive, PTL DEF Spec
=============================================================================
