----------------------------- MODULE TurnDriver -----------------------------
(***************************************************************************)
(* One thread's prompts and turns: Thread::prompt (thread/prompt/flow.rs), *)
(* the driver of a running turn (thread/turn/execution.rs), the drains     *)
(* that empty the inbox around it (thread/notification/dispatch.rs) and    *)
(* the cancel watch (thread/session/settings.rs).                          *)
(*                                                                         *)
(* Three kinds of reader share one inbox: the drivers, the drains that run *)
(* before and after a turn, and the watcher that drains in the background  *)
(* while a compaction runs.  They share ThreadInner through one tokio      *)
(* mutex, which some of them keep across an await.  Each server request    *)
(* becomes a prompt to the user: a command approval stays pending beside   *)
(* the select loop, a file approval is awaited inside the message handler, *)
(* and any other one is awaited inside it with the mutex held.             *)
(*                                                                         *)
(* Requests to the server are answered as Rpc promises; the app lock is    *)
(* left to Transport: it is only ever taken after the inner one.           *)
(***************************************************************************)
EXTENDS Naturals, Sequences

CONSTANTS
  Prompts,        \* the prompts the client sends to this thread
  Watcher,        \* the background drain task of a compaction
  None,           \* nobody: the inner mutex is free
  Clients,        \* what the client may be like
  MaxTurns,       \* bound: turns the server starts
  MaxRequests     \* bound: requests the server issues

(* A client queues if it sends a prompt only when the last one returned;    *)
(* modes are the collaboration modes of its prompts, and maxNotes bounds    *)
(* the plan items, deltas and reconnect warnings the server emits.         *)
Client(queues, modes, maxNotes) == [queues |-> queues, modes |-> modes, maxNotes |-> maxNotes]

ASSUME TurnDriverAssumption ==
  /\ Watcher \notin Prompts /\ None \notin Prompts /\ Watcher # None
  /\ \A c \in Clients : /\ c.queues \in BOOLEAN /\ c.modes \subseteq {"default", "plan"}
                        /\ c.maxNotes \in Nat
  /\ MaxTurns \in Nat /\ MaxRequests \in Nat

VARIABLES
  client,         \* the client of this behaviour
  innerLock,      \* holder of the Mutex<ThreadInner> across an await, or None
  activeTurn,     \* ThreadInner.active_turn_id (0: none)
  lastCompleted,  \* ThreadInner.last_completed_turn_id
  sawPlan,        \* "yes" once the active turn showed a plan, else "no"
  stall,          \* reconnect watchdog: "quiet", "reconnecting", "noticed"
  phase,          \* where each prompt stands
  turn,           \* the turn each prompt drives
  mode,           \* the collaboration mode of that turn
  hand,           \* the message each reader has taken and not yet handled
  pending,        \* the command approval beside the select loop (0: none)
  interrupted,    \* prompts whose interrupt the server has acknowledged
  notified,       \* prompts with an unseen change in their cancel watch
  target,         \* the turn each prompt is interrupting
  result,         \* what each prompt returned or is about to return
  inbox,          \* messages of the server in order
  dialog,         \* the user's prompt for each request
  answers,        \* history: what was sent to the server for each request
  up,             \* "up" until the server closes its output, then "down"
  requested,      \* prompts whose turn/start the server has neither carried out nor refused
  owner,          \* the prompt each server turn was started for, or None
  status,         \* the server's view of each turn
  asked,          \* the requests issued: kind and turn, in order
  notes           \* plan items, deltas and reconnect warnings emitted

innerVars  == <<innerLock, activeTurn, lastCompleted, sawPlan, stall>>
driverVars == <<phase, turn, mode, hand, pending, interrupted, notified, target, result>>
requestVars == <<dialog, answers>>
serverVars == <<up, requested, owner, status, asked, notes>>
turnVars == <<innerVars, driverVars, inbox, requestVars, serverVars>>   \* all that steps change
vars == <<client, turnVars>>

Turns    == 1..MaxTurns
Requests == 1..MaxRequests
Readers  == Prompts \cup {Watcher}

NoMessage == [kind |-> "none", turn |-> 0, id |-> 0]
Message(kind, k, r) == [kind |-> kind, turn |-> k, id |-> r]

RequestKinds == {"command", "file", "input"}
EndKinds     == {"completed", "interrupted"}
NoteKinds    == {"plan", "delta", "reconnect"}
MessageKinds == NoteKinds \cup EndKinds \cup RequestKinds
Messages == [kind : MessageKinds, turn : Nat, id : Nat]

Decisions == {"accept", "decline", "cancelled"}
Phases == {"idle", "draining", "starting", "driving", "asking", "cancelling",
           "interrupting", "finalizing", "flushing", "finished", "offering",
           "implementing", "returned"}

\* From subscribe() until drive_active_turn_ext returns.
Subscribed(p) ==
  phase[p] \in {"driving", "asking", "cancelling", "interrupting", "finalizing", "flushing"}

Init ==
  /\ client \in Clients
  /\ innerLock = None
  /\ activeTurn = 0
  /\ lastCompleted = 0
  /\ sawPlan = "no"
  /\ stall = "quiet"
  /\ phase = [p \in Prompts |-> "idle"]
  /\ turn = [p \in Prompts |-> 0]
  /\ mode = [p \in Prompts |-> "default"]
  /\ hand = [a \in Readers |-> NoMessage]
  /\ pending = [p \in Prompts |-> 0]
  /\ interrupted = {}
  /\ notified = {}
  /\ target = [p \in Prompts |-> 0]
  /\ result = [p \in Prompts |-> "none"]
  /\ inbox = << >>
  /\ dialog = [r \in Requests |-> "none"]
  /\ answers = [r \in Requests |-> << >>]
  /\ up = "up" /\ requested = {}
  /\ owner = [k \in Turns |-> None]
  /\ status = [k \in Turns |-> "unused"]
  /\ asked = << >>
  /\ notes = 0

-----------------------------------------------------------------------------
(* Pieces of the handlers.                                                 *)

Answer(r, decision) == answers' = [answers EXCEPT ![r] = Append(@, decision)]

\* `?`: the prompt returns the error; the guards it held are dropped.
Fail(p) ==
  /\ phase' = [phase EXCEPT ![p] = "returned"]
  /\ result' = [result EXCEPT ![p] = "error"]
  /\ pending' = [pending EXCEPT ![p] = 0]
  /\ hand' = [hand EXCEPT ![p] = NoMessage]
  /\ innerLock' = IF innerLock = p THEN None ELSE innerLock

Mut_AcceptAnyTurn(k, m) == m.kind \in EndKinds /\ lastCompleted # m.turn
\* register_turn_completion accepts the end of turn k, once.
AcceptsCompletion(k, m) ==
  m.kind \in EndKinds /\ m.turn = k /\ lastCompleted # k

\* What handle_notification does to the turn state when it expects turn k.
Note(k, m) ==
  /\ sawPlan' = IF m.kind = "plan" /\ m.turn = k THEN "yes" ELSE sawPlan
  /\ stall' = IF (m.kind = "delta" /\ m.turn = k) \/ AcceptsCompletion(k, m) THEN "quiet"
              ELSE IF m.kind = "reconnect" /\ m.turn = k /\ stall = "quiet"
              THEN "reconnecting" ELSE stall
  /\ lastCompleted' = IF AcceptsCompletion(k, m) THEN k ELSE lastCompleted

-----------------------------------------------------------------------------
(* The prompt and the start of its turn.                                   *)

\* Thread::prompt of a plain prompt; its drain of the inbox comes next.
Prompt(p) ==
  /\ phase[p] = "idle"
  /\ client.queues => \A q \in Prompts : phase[q] \in {"idle", "returned"}
  /\ phase' = [phase EXCEPT ![p] = "draining"]
  /\ \E kind \in client.modes : mode' = [mode EXCEPT ![p] = kind]
  /\ UNCHANGED <<innerVars, turn, hand, pending, interrupted, notified, target,
                 result, inbox, requestVars, serverVars>>

\* turn/start is sent, and awaited, under the inner lock.
StartTurn(p) ==
  /\ phase[p] \in {"draining", "implementing"}
  /\ hand[p] = NoMessage
  /\ innerLock = None
  /\ innerLock' = p
  /\ phase' = [phase EXCEPT ![p] = "starting"]
  /\ requested' = requested \cup {p}
  /\ UNCHANGED <<activeTurn, lastCompleted, sawPlan, stall, turn, mode, hand,
                 pending, interrupted, notified, target, result, inbox,
                 requestVars, up, owner, status, asked, notes>>

\* The turn the server has started for p and p has not heard of.
Started(p) == {k \in Turns : owner[k] = p /\ k > turn[p]}

Mut_KeepPreviousTurn(p) ==
  /\ phase[p] = "starting"
  /\ \E k \in Started(p) :
       /\ turn' = [turn EXCEPT ![p] = k]
       /\ activeTurn' = IF activeTurn = 0 THEN k ELSE activeTurn
  /\ lastCompleted' = 0 /\ sawPlan' = "no" /\ stall' = "quiet" /\ innerLock' = None
  /\ phase' = [phase EXCEPT ![p] = "driving"]
  /\ interrupted' = interrupted \ {p} /\ notified' = notified \ {p}
  /\ result' = [result EXCEPT ![p] = "none"]
  /\ UNCHANGED <<mode, hand, pending, target, inbox, requestVars, serverVars>>
\* The response of turn/start: prepare_for_new_turn, then the driver begins.
TurnStarted(p) ==
  /\ phase[p] = "starting"
  /\ \E k \in Started(p) :
       /\ turn' = [turn EXCEPT ![p] = k]
       /\ activeTurn' = k
  /\ lastCompleted' = 0
  /\ sawPlan' = "no"
  /\ stall' = "quiet"
  /\ innerLock' = None
  /\ phase' = [phase EXCEPT ![p] = "driving"]
  /\ interrupted' = interrupted \ {p}
  /\ notified' = notified \ {p}
  /\ result' = [result EXCEPT ![p] = "none"]
  /\ UNCHANGED <<mode, hand, pending, target, inbox, requestVars, serverVars>>

\* turn/start is refused, or not answered in time: the server may have
\* started the turn, or start it later.
StartFails(p) ==
  /\ phase[p] = "starting"
  /\ requested' \in {requested, requested \ {p}}
  /\ Fail(p)
  /\ UNCHANGED <<activeTurn, lastCompleted, sawPlan, stall, turn, mode,
                 interrupted, notified, target, inbox, requestVars,
                 up, owner, status, asked, notes>>

-----------------------------------------------------------------------------
(* The select loop of drive_active_turn_ext.                               *)

Selecting(p) == phase[p] = "driving" /\ hand[p] = NoMessage

\* The message arm, disabled while a command approval is pending.
Receive(p) ==
  /\ Selecting(p) /\ pending[p] = 0
  /\ inbox # << >>
  /\ hand' = [hand EXCEPT ![p] = Head(inbox)]
  /\ inbox' = Tail(inbox)
  /\ UNCHANGED <<innerVars, phase, turn, mode, pending, interrupted, notified,
                 target, result, requestVars, serverVars>>

\* The inbox reports the end of the server's output.
InboxCloses(p) ==
  /\ inbox = << >> /\ up = "down" /\ hand[p] = NoMessage
  /\ \/ phase[p] = "driving" /\ pending[p] = 0
     \/ phase[p] = "flushing"
     \/ phase[p] = "draining" /\ innerLock = p
  /\ Fail(p)
  /\ UNCHANGED <<activeTurn, lastCompleted, sawPlan, stall, turn, mode,
                 interrupted, notified, target, inbox, requestVars, serverVars>>

\* handle_active_turn_message holds the inner lock while it handles m.
Handling(p, m) ==
  /\ phase[p] = "driving" /\ hand[p] = m /\ m # NoMessage
  /\ innerLock = None

HandleNote(p) ==
  LET m == hand[p] IN
    /\ Handling(p, m)
    /\ m.kind \in NoteKinds \cup EndKinds
    /\ Note(turn[p], m)
    /\ IF AcceptsCompletion(turn[p], m)
       THEN /\ phase' = [phase EXCEPT ![p] = "finalizing"]
            /\ result' = [result EXCEPT ![p] =
                             IF m.kind = "interrupted" THEN "Cancelled" ELSE "EndTurn"]
       ELSE UNCHANGED <<phase, result>>
    /\ hand' = [hand EXCEPT ![p] = NoMessage]
    /\ UNCHANGED <<innerLock, activeTurn, turn, mode, pending, interrupted,
                   notified, target, inbox, requestVars, serverVars>>

\* A command approval is left pending beside the loop.
HandleCommand(p) ==
  LET m == hand[p] IN
    /\ Handling(p, m) /\ m.kind = "command"
    /\ pending' = [pending EXCEPT ![p] = m.id]
    /\ dialog' = [dialog EXCEPT ![m.id] = "open"]
    /\ hand' = [hand EXCEPT ![p] = NoMessage]
    /\ UNCHANGED <<innerVars, phase, turn, mode, interrupted, notified, target,
                   result, inbox, answers, serverVars>>

\* Any other request is awaited here; only a file approval frees the lock.
HandleRequest(p) ==
  LET m == hand[p] IN
    /\ Handling(p, m) /\ m.kind \in {"file", "input"}
    /\ dialog' = [dialog EXCEPT ![m.id] = "open"]
    /\ phase' = [phase EXCEPT ![p] = "asking"]
    /\ innerLock' = IF m.kind = "input" THEN p ELSE innerLock
    /\ UNCHANGED <<activeTurn, lastCompleted, sawPlan, stall, turn, mode, hand,
                   pending, interrupted, notified, target, result, inbox,
                   answers, serverVars>>

\* What the server is told about a decision of the user.
FileDecision(choice) == IF choice = "accept" THEN "accept" ELSE "decline"
Mut_PassThrough(kind, choice) == IF kind = "file" THEN FileDecision(choice) ELSE choice
DecisionFor(kind, choice) ==
  IF kind = "file" THEN FileDecision(choice)
  ELSE IF choice = "cancelled" THEN "cancel" ELSE choice

Mut_AnswerKeepsLock(p) ==
  LET m == hand[p] IN
    /\ phase[p] = "asking" /\ dialog[m.id] \in Decisions
    /\ innerLock \in {None, p}
    /\ Answer(m.id, DecisionFor(m.kind, dialog[m.id]))
    /\ phase' = [phase EXCEPT ![p] = "driving"]
    /\ hand' = [hand EXCEPT ![p] = NoMessage]
    /\ UNCHANGED <<innerVars, turn, mode, pending, interrupted, notified, target,
                   result, inbox, dialog, serverVars>>
\* The awaited answer of the user is sent to the server.
AnswerAsked(p) ==
  LET m == hand[p] IN
    /\ phase[p] = "asking" /\ dialog[m.id] \in Decisions
    /\ innerLock \in {None, p}
    /\ Answer(m.id, DecisionFor(m.kind, dialog[m.id]))
    /\ innerLock' = None
    /\ phase' = [phase EXCEPT ![p] = "driving"]
    /\ hand' = [hand EXCEPT ![p] = NoMessage]
    /\ UNCHANGED <<activeTurn, lastCompleted, sawPlan, stall, turn, mode,
                   pending, interrupted, notified, target, result, inbox, dialog,
                   serverVars>>

Mut_ForgetStale(p) ==
  LET r == pending[p] IN
    /\ Selecting(p) /\ r # 0
    /\ innerLock = None
    /\ dialog[r] \in Decisions
    /\ IF activeTurn = turn[p] THEN Answer(r, DecisionFor("command", dialog[r]))
                               ELSE UNCHANGED answers
    /\ pending' = [pending EXCEPT ![p] = 0]
    /\ UNCHANGED <<innerVars, phase, turn, mode, hand, interrupted, notified,
                   target, result, inbox, dialog, serverVars>>
\* The approval arm: the answer counts only while its turn is the active one.
AnswerPending(p) ==
  LET r == pending[p] IN
    /\ Selecting(p) /\ r # 0
    /\ innerLock = None
    /\ \/ dialog[r] \in Decisions
       \/ dialog[r] = "failed" /\ activeTurn # turn[p]
    /\ Answer(r, IF activeTurn = turn[p] THEN DecisionFor("command", dialog[r])
                 ELSE "cancel")
    /\ pending' = [pending EXCEPT ![p] = 0]
    /\ UNCHANGED <<innerVars, phase, turn, mode, hand, interrupted, notified,
                   target, result, inbox, dialog, serverVars>>

\* The client failed to ask the user: the prompt ends, the request stays open.
DialogFails(p) ==
  /\ \/ /\ phase[p] = "asking" /\ dialog[hand[p].id] = "failed"
     \/ /\ Selecting(p) /\ pending[p] # 0 /\ dialog[pending[p]] = "failed"
        /\ innerLock = None /\ activeTurn = turn[p]
  /\ Fail(p)
  /\ UNCHANGED <<activeTurn, lastCompleted, sawPlan, stall, turn, mode,
                 interrupted, notified, target, inbox, requestVars, serverVars>>

Mut_CancelKeepsPending(p) ==
  /\ Selecting(p) /\ p \in notified
  /\ notified' = notified \ {p}
  /\ IF p \in interrupted
     THEN UNCHANGED <<phase, answers>>
     ELSE /\ phase' = [phase EXCEPT ![p] = "cancelling"]
          /\ IF pending[p] # 0
             THEN innerLock = None /\ Answer(pending[p], "cancel")
             ELSE UNCHANGED answers
  /\ UNCHANGED <<innerVars, turn, mode, hand, pending, interrupted, target, result,
                 inbox, dialog, serverVars>>
\* The cancel arm: a pending approval is taken and cancelled first.
ObserveCancel(p) ==
  /\ Selecting(p) /\ p \in notified
  /\ notified' = notified \ {p}
  /\ IF p \in interrupted
     THEN UNCHANGED <<phase, pending, answers>>
     ELSE /\ phase' = [phase EXCEPT ![p] = "cancelling"]
          /\ pending' = [pending EXCEPT ![p] = 0]
          /\ IF pending[p] # 0
             THEN innerLock = None /\ Answer(pending[p], "cancel")
             ELSE UNCHANGED answers
  /\ UNCHANGED <<innerVars, turn, mode, hand, interrupted, target, result, inbox,
                 dialog, serverVars>>

Mut_OnlyDropApproval(p) ==
  /\ phase[p] = "cancelling"
  /\ innerLock = None
  /\ phase' = [phase EXCEPT ![p] = "driving"]
  /\ UNCHANGED <<innerVars, turn, mode, hand, pending, interrupted, notified,
                 target, result, inbox, requestVars, serverVars>>
\* interrupt_active_turn_if_needed, up to the request turn/interrupt.
SendInterrupt(p) ==
  /\ phase[p] = "cancelling"
  /\ innerLock = None
  /\ IF activeTurn = 0
     THEN phase' = [phase EXCEPT ![p] = "driving"] /\ UNCHANGED target
     ELSE /\ phase' = [phase EXCEPT ![p] = "interrupting"]
          /\ target' = [target EXCEPT ![p] = activeTurn]
  /\ UNCHANGED <<innerVars, turn, mode, hand, pending, interrupted, notified,
                 result, inbox, requestVars, serverVars>>

\* A refused interrupt leaves the driver ready for the next cancel.
InterruptRefused(p) ==
  /\ phase[p] = "interrupting"
  /\ up = "down" \/ status[target[p]] # "running"
  /\ phase' = [phase EXCEPT ![p] = "driving"]
  /\ UNCHANGED <<innerVars, turn, mode, hand, pending, interrupted, notified,
                 target, result, inbox, requestVars, serverVars>>

\* The watchdog arm: maybe_finish_stalled_turn only tells the user.
Watchdog(p) ==
  /\ Selecting(p) /\ pending[p] = 0
  /\ innerLock = None
  /\ stall = "reconnecting"
  /\ stall' = "noticed"
  /\ UNCHANGED <<innerLock, activeTurn, lastCompleted, sawPlan, driverVars, inbox,
                 requestVars, serverVars>>

\* finish_active_turn: the thread has no active turn any more.
Finalize(p) ==
  /\ phase[p] = "finalizing"
  /\ innerLock = None
  /\ activeTurn' = 0
  /\ phase' = [phase EXCEPT ![p] = "flushing"]
  /\ UNCHANGED <<innerLock, lastCompleted, sawPlan, stall, turn, mode, hand, pending,
                 interrupted, notified, target, result, inbox, requestVars, serverVars>>

\* The post-turn drain is quiet, out of time or at its limit.
EndFlush(p) ==
  /\ phase[p] = "flushing" /\ hand[p] = NoMessage
  /\ innerLock = None
  /\ phase' = [phase EXCEPT ![p] = "finished"]
  /\ UNCHANGED <<innerVars, turn, mode, hand, pending, interrupted, notified,
                 target, result, inbox, requestVars, serverVars>>

\* should_offer_plan_implementation
OffersPlan(p) ==
  result[p] = "EndTurn" /\ mode[p] = "plan" /\ sawPlan = "yes"

\* After the rate limits are refreshed: return, or offer to implement the plan.
Return(p) ==
  /\ phase[p] = "finished"
  /\ innerLock = None
  /\ IF OffersPlan(p)
     THEN /\ phase' = [phase EXCEPT ![p] = "offering"]
          /\ innerLock' = p
     ELSE /\ phase' = [phase EXCEPT ![p] = "returned"]
          /\ UNCHANGED innerLock
  /\ UNCHANGED <<activeTurn, lastCompleted, sawPlan, stall, turn, mode, hand,
                 pending, interrupted, notified, target, result, inbox,
                 requestVars, serverVars>>

\* The user accepts the plan: a second turn, in default mode.
AcceptPlan(p) ==
  /\ phase[p] = "offering"
  /\ phase' = [phase EXCEPT ![p] = "implementing"]
  /\ mode' = [mode EXCEPT ![p] = "default"]
  /\ innerLock' = None
  /\ UNCHANGED <<activeTurn, lastCompleted, sawPlan, stall, turn, hand, pending,
                 interrupted, notified, target, result, inbox, requestVars, serverVars>>

DeclinePlan(p) ==
  /\ phase[p] = "offering"
  /\ phase' = [phase EXCEPT ![p] = "returned"]
  /\ innerLock' = None
  /\ UNCHANGED <<activeTurn, lastCompleted, sawPlan, stall, turn, mode, hand,
                 pending, interrupted, notified, target, result, inbox,
                 requestVars, serverVars>>

OfferFails(p) ==
  /\ phase[p] = "offering"
  /\ Fail(p)
  /\ UNCHANGED <<activeTurn, lastCompleted, sawPlan, stall, turn, mode,
                 interrupted, notified, target, inbox, requestVars, serverVars>>

-----------------------------------------------------------------------------
(* The drains.  A background drain (the watcher's, or a prompt's own before *)
(* its turn) polls the inbox with the inner lock held, and only while no    *)
(* turn is active; the post-turn drain polls without it.                    *)

BackgroundDrainer(a) == a = Watcher \/ (a \in Prompts /\ phase[a] = "draining")
PostTurnDrainer(a)   == a \in Prompts /\ phase[a] = "flushing"

Mut_PollAnyway == TRUE
\* background_drain_may_receive
MayPoll == activeTurn = 0

BeginPoll(a) ==
  /\ BackgroundDrainer(a) /\ hand[a] = NoMessage
  /\ innerLock = None
  /\ MayPoll
  /\ innerLock' = a
  /\ UNCHANGED <<activeTurn, lastCompleted, sawPlan, stall, driverVars, inbox,
                 requestVars, serverVars>>

\* The poll times out, or another receiver holds the inbox.
EndPoll(a) ==
  /\ BackgroundDrainer(a) /\ innerLock = a
  /\ innerLock' = None
  /\ UNCHANGED <<activeTurn, lastCompleted, sawPlan, stall, driverVars, inbox,
                 requestVars, serverVars>>

\* receive_drain_message; the lock is dropped before the message is handled.
TakeMessage(a) ==
  /\ hand[a] = NoMessage
  /\ \/ BackgroundDrainer(a) /\ innerLock = a
     \/ PostTurnDrainer(a)
  /\ inbox # << >>
  /\ hand' = [hand EXCEPT ![a] = Head(inbox)]
  /\ inbox' = Tail(inbox)
  /\ innerLock' = IF innerLock = a THEN None ELSE innerLock
  /\ UNCHANGED <<activeTurn, lastCompleted, sawPlan, stall, phase, turn, mode,
                 pending, interrupted, notified, target, result, requestVars, serverVars>>

\* handle_drain_message: requests are refused as stale, the rest is routed.
DrainMessage(a) ==
  LET m == hand[a]
      expected == IF PostTurnDrainer(a) THEN turn[a] ELSE 0
  IN /\ BackgroundDrainer(a) \/ PostTurnDrainer(a)
     /\ m # NoMessage
     /\ innerLock = None
     /\ IF m.kind \in RequestKinds
        THEN Answer(m.id, "refuse") /\ UNCHANGED <<lastCompleted, sawPlan, stall>>
        ELSE Note(expected, m) /\ UNCHANGED answers
     /\ hand' = [hand EXCEPT ![a] = NoMessage]
     /\ UNCHANGED <<innerLock, activeTurn, phase, turn, mode, pending, interrupted,
                    notified, target, result, inbox, dialog, serverVars>>

\* Writing to a server that is gone fails: the prompt ends with the error.
WriteFails(p) ==
  /\ up = "down"
  /\ \/ /\ phase[p] \in {"draining", "flushing"} /\ hand[p].kind \in RequestKinds
        /\ innerLock = None
     \/ phase[p] = "asking" /\ dialog[hand[p].id] \in Decisions
     \/ /\ Selecting(p) /\ pending[p] # 0
        /\ dialog[pending[p]] \in Decisions \/ (p \in notified /\ p \notin interrupted)
  /\ Fail(p)
  /\ UNCHANGED <<activeTurn, lastCompleted, sawPlan, stall, turn, mode,
                 interrupted, notified, target, inbox, requestVars, serverVars>>

-----------------------------------------------------------------------------
(* The client: it cancels at any time, which only a subscribed driver can   *)
(* see, and it answers the prompts it was shown.                           *)

Cancel ==
  LET watching == {p \in Prompts : Subscribed(p)} IN
    /\ ~ watching \subseteq notified
    /\ notified' = notified \cup watching
    /\ UNCHANGED <<innerVars, phase, turn, mode, hand, pending, interrupted, target,
                   result, inbox, requestVars, serverVars>>

Decide(r, choice) ==
  /\ dialog[r] = "open"
  /\ dialog' = [dialog EXCEPT ![r] = choice]
  /\ UNCHANGED <<innerVars, driverVars, inbox, answers, serverVars>>

-----------------------------------------------------------------------------
(* The codex app-server, an external program: it runs the turns it was      *)
(* asked to start, asks for approvals on their behalf and waits for the     *)
(* answers, ends an interrupted turn, and may close its output.             *)

Emit(m) ==
  /\ up = "up"
  /\ inbox' = Append(inbox, m)
  /\ UNCHANGED <<innerVars, driverVars, requestVars, up, requested, owner>>

ServerStartsTurn(p) ==
  /\ up = "up"
  /\ p \in requested /\ requested' = requested \ {p}
  /\ \E k \in Turns :
       /\ status[k] = "unused" /\ \A j \in Turns : j < k => status[j] # "unused"
       /\ owner' = [owner EXCEPT ![k] = p]
       /\ status' = [status EXCEPT ![k] = "running"]
  /\ UNCHANGED <<innerVars, driverVars, inbox, requestVars, up, asked, notes>>

ServerNotes(k, kind) ==
  /\ status[k] = "running"
  /\ notes < client.maxNotes
  /\ notes' = notes + 1
  /\ Emit(Message(kind, k, 0))
  /\ UNCHANGED <<status, asked>>

ServerAsks(k, kind) ==
  /\ status[k] = "running"
  /\ Len(asked) < MaxRequests
  /\ asked' = Append(asked, [kind |-> kind, turn |-> k])
  /\ Emit(Message(kind, k, Len(asked) + 1))
  /\ UNCHANGED <<status, notes>>

AskedBy(k) == {r \in DOMAIN asked : asked[r].turn = k}

ServerCompletes(k) ==
  /\ status[k] = "running"
  /\ \A r \in AskedBy(k) : answers[r] # << >>
  /\ status' = [status EXCEPT ![k] = "completed"]
  /\ Emit(Message("completed", k, 0))
  /\ UNCHANGED <<asked, notes>>

ServerStopsTurn(k) ==
  /\ \/ status[k] = "stopping"
     \/ status[k] = "running" /\ \E r \in AskedBy(k) : answers[r] = <<"cancel">>
  /\ status' = [status EXCEPT ![k] = "interrupted"]
  /\ Emit(Message("interrupted", k, 0))
  /\ UNCHANGED <<asked, notes>>

\* turn/interrupt is accepted while the turn runs; the driver resumes.
ServerInterrupts(p) ==
  /\ up = "up"
  /\ phase[p] = "interrupting" /\ status[target[p]] = "running"
  /\ status' = [status EXCEPT ![target[p]] = "stopping"]
  /\ interrupted' = interrupted \cup {p}
  /\ phase' = [phase EXCEPT ![p] = "driving"]
  /\ UNCHANGED <<innerVars, turn, mode, hand, pending, notified, target, result,
                 inbox, requestVars, up, requested, owner, asked, notes>>

ServerDies ==
  /\ up = "up"
  /\ up' = "down"
  /\ UNCHANGED <<innerVars, driverVars, inbox, requestVars, requested, owner, status, asked, notes>>

-----------------------------------------------------------------------------
DriverStep(p) ==
  \/ Receive(p) \/ InboxCloses(p) \/ HandleNote(p) \/ HandleCommand(p)
  \/ HandleRequest(p) \/ AnswerAsked(p) \/ AnswerPending(p) \/ DialogFails(p)
  \/ ObserveCancel(p) \/ SendInterrupt(p) \/ InterruptRefused(p) \/ Watchdog(p)
  \/ Finalize(p) \/ WriteFails(p)

PromptStep(p) ==
  \/ Prompt(p) \/ StartTurn(p) \/ TurnStarted(p) \/ StartFails(p)
  \/ DriverStep(p)
  \/ EndFlush(p) \/ Return(p) \/ AcceptPlan(p) \/ DeclinePlan(p) \/ OfferFails(p)

DrainStep(a) == BeginPoll(a) \/ EndPoll(a) \/ TakeMessage(a) \/ DrainMessage(a)

ClientStep ==
  \/ Cancel
  \/ \E r \in Requests, choice \in Decisions \cup {"failed"} : Decide(r, choice)

ServerStep ==
  \/ \E p \in Prompts : ServerStartsTurn(p) \/ ServerInterrupts(p)
  \/ \E k \in Turns : \/ \E kind \in NoteKinds : ServerNotes(k, kind)
                      \/ \E kind \in RequestKinds : ServerAsks(k, kind)
                      \/ ServerCompletes(k) \/ ServerStopsTurn(k)
  \/ ServerDies

Next ==
  /\ \/ \E p \in Prompts : PromptStep(p)
     \/ \E a \in Readers : DrainStep(a)
     \/ ClientStep
     \/ ServerStep
  /\ UNCHANGED client

Spec == Init /\ [][Next]_vars

(* What a prompt does next, once it holds what it waits for.                *)
Progress(p) ==
  \/ StartTurn(p) \/ TurnStarted(p) \/ StartFails(p)
  \/ HandleNote(p) \/ HandleCommand(p) \/ HandleRequest(p)
  \/ AnswerAsked(p) \/ AnswerPending(p) \/ DialogFails(p) \/ WriteFails(p)
  \/ SendInterrupt(p) \/ InterruptRefused(p)
  \/ Finalize(p) \/ DrainMessage(p) \/ EndFlush(p) \/ Return(p)

(* tokio polls a woken task, its mutex queues the waiters in order, select! *)
(* picks among the ready arms at random, and a poll of a drain times out.   *)
AdapterFairness ==
  /\ \A p \in Prompts :
       /\ SF_turnVars(Progress(p))
       /\ SF_turnVars(Receive(p) \/ InboxCloses(p))
       /\ SF_turnVars(ObserveCancel(p))
  /\ \A a \in Readers : WF_turnVars(EndPoll(a))

(* ACP obliges the client to answer what it shows, if only with Cancelled. *)
ClientFairness ==
  /\ WF_turnVars(\E r \in Requests, choice \in Decisions : Decide(r, choice))
  /\ WF_turnVars(\E p \in Prompts : AcceptPlan(p) \/ DeclinePlan(p))

(* The server ends the turns it was told to interrupt.                      *)
StopFairness ==
  /\ WF_turnVars(\E p \in Prompts : ServerInterrupts(p))
  /\ WF_turnVars(\E k \in Turns : ServerStopsTurn(k))

FairSpec == Spec /\ AdapterFairness /\ ClientFairness /\ StopFairness

(* The server also ends the turns that are left alone: not assumed, but a   *)
(* premise of PromptReturns.                                               *)
ServerEndsTurns == WF_turnVars(\E k \in Turns : ServerCompletes(k))

-----------------------------------------------------------------------------
(* Type invariant.                                                         *)
TypeOK ==
  /\ innerLock \in Readers \cup {None}
  /\ activeTurn \in Nat /\ lastCompleted \in Nat
  /\ sawPlan \in {"yes", "no"}
  /\ stall \in {"quiet", "reconnecting", "noticed"}
  /\ phase \in [Prompts -> Phases]
  /\ turn \in [Prompts -> Nat]
  /\ mode \in [Prompts -> {"default", "plan"}]
  /\ hand \in [Readers -> Messages \cup {NoMessage}]
  /\ pending \in [Prompts -> Nat]
  /\ interrupted \subseteq Prompts /\ notified \subseteq Prompts
  /\ target \in [Prompts -> Nat]
  /\ result \in [Prompts -> {"none", "EndTurn", "Cancelled", "error"}]
  /\ inbox \in Seq(Messages)
  /\ dialog \in [Requests -> Decisions \cup {"none", "open", "failed"}]
  /\ answers \in [Requests -> Seq({"accept", "decline", "cancel", "refuse"})]
  /\ up \in {"up", "down"} /\ requested \subseteq Prompts
  /\ owner \in [Turns -> Prompts \cup {None}]
  /\ status \in [Turns -> {"unused", "running", "stopping", "completed", "interrupted"}]
  /\ asked \in Seq([kind : RequestKinds, turn : Nat])
  /\ notes \in Nat

InTurn(p) ==
  phase[p] \in {"driving", "asking", "cancelling", "interrupting", "finalizing"}

(* A prompt ends with a stop reason only after the server has ended the    *)
(* very turn it drives, and with the reason the server gave: the end of    *)
(* another turn, left behind by a failed prompt or run by an overlapping   *)
(* one, never stops it (register_turn_completion).                         *)
StopMatchesTurn ==
  \A p \in Prompts :
    /\ result[p] = "EndTurn"   => status[turn[p]] = "completed"
    /\ result[p] = "Cancelled" => status[turn[p]] = "interrupted"

(* Every request of the server is in exactly one place: on its way, with   *)
(* its handler, or answered, once.  None is answered twice, although the   *)
(* user, a cancel and a drain compete to answer it; and none is forgotten, *)
(* unless the client failed to ask the user or the server is gone.         *)
Places(r) ==
  {<<"inbox", n>> : n \in {i \in DOMAIN inbox : inbox[i].id = r}}
    \cup {<<"hand", a>> : a \in {b \in Readers : hand[b].id = r}}
    \cup {<<"pending", p>> : p \in {q \in Prompts : pending[q] = r}}
    \cup {<<"answered", n>> : n \in DOMAIN answers[r]}

RequestsAccountedFor ==
  \A r \in DOMAIN asked :
    /\ \A a, b \in Places(r) : a = b
    /\ Places(r) = {} => dialog[r] = "failed" \/ up = "down"

(* While a prompt drives a turn, that turn is the thread's active one, so  *)
(* that a cancel interrupts it and no other, also after a prompt that      *)
(* failed and left its turn behind, if the client queues its prompts        *)
(* (interrupt_active_turn_if_needed).                                      *)
DrivesActiveTurn ==
  client.queues => \A p \in Prompts :
    /\ InTurn(p) => activeTurn = turn[p]
    /\ phase[p] = "interrupting" => target[p] = turn[p]

(* No drain takes a message of a turn from the prompt that runs it, from   *)
(* the moment the server starts the turn, before its driver has heard of   *)
(* it, if the client queues its prompts (dispatch.rs, the comment of        *)
(* drain_transport_until_quiet_ext).                                       *)
DrainsLeaveRunningTurn ==
  [][client.queues => \A a \in Readers :
       hand'[a] # NoMessage /\ hand'[a] # hand[a] =>
         LET p == owner[hand'[a].turn]
         IN p # a => ~ (InTurn(p) \/ phase[p] = "starting")]_vars

(* A cancel that reaches the driver of a turn ends that turn, whatever the *)
(* server and the user do meanwhile: an approval may be pending, the       *)
(* interrupt may be refused because the turn has just ended, the server    *)
(* may never end a turn by itself (drive_active_turn_ext).                 *)
CancelEndsTurn ==
  \A p \in Prompts : (InTurn(p) /\ p \in notified) ~> ~InTurn(p)

(* A prompt returns to the client if the server ends its turns and the     *)
(* user answers what is asked, also through the turn that implements its   *)
(* plan (Thread::prompt).                                                  *)
PromptReturns ==
  ServerEndsTurns => \A p \in Prompts : (phase[p] # "idle") ~> (phase[p] = "returned")

(* What README.md says of the reconnect-stall watchdog: it aborts a stalled *)
(* turn and drains its tail.  In the code it only notifies the user.       *)
StallWatchdogAborts ==
  \A p \in Prompts :
    (InTurn(p) /\ stall = "noticed") ~> (~InTurn(p) \/ stall = "quiet")
=============================================================================
