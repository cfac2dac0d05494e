---------------------------- MODULE HistoryReplay ----------------------------
(***************************************************************************)
(* The history-replay fence, ThreadInner.history_replay_in_progress: it is *)
(* raised while the turns of a loaded session (thread/session/view.rs) or  *)
(* of a rollback (thread/session/settings.rs) are replayed to the client,  *)
(* and prompts look at it twice before they go on (thread/prompt/flow.rs). *)
(*                                                                         *)
(* One boolean is shared by tasks that run at the same time: prompts, of   *)
(* which /undo is one, the rollbacks the client asks for through the ACP   *)
(* extension method, and the tasks that replay a loaded session.           *)
(***************************************************************************)
EXTENDS Naturals

CONSTANTS
  Prompts,        \* session/prompt requests, each served by its own task
  Rollbacks,      \* thread/rollback extension calls, served one at a time
  Loaders,        \* tasks that replay the history of the loaded session
  Serial          \* the client waits for a prompt or a call before the next one

ASSUME HistoryReplayAssumption ==
  /\ Prompts \cap Rollbacks = {} /\ Prompts \cap Loaders = {}
  /\ Rollbacks \cap Loaders = {} /\ Serial \in BOOLEAN

VARIABLES
  fence,     \* history_replay_in_progress: "up" or "down"
  loaded,    \* ThreadInner.replay_turns: "some" or "empty"
  stage,     \* where each task stands
  turns      \* what each rollback or loader has to replay: "some" or "empty"

vars == <<fence, loaded, stage, turns>>

Tasks == Prompts \cup Rollbacks \cup Loaders
Stages == {"idle", "checked", "starting", "turn", "rolling", "asked", "replaying", "done"}

\* load_and_register_session marks the replay before the session is known.
Init ==
  /\ loaded \in {"some", "empty"}
  /\ fence = IF loaded = "some" THEN "up" ELSE "down"
  /\ stage = [x \in Tasks |-> "idle"]
  /\ turns = [x \in Tasks |-> "empty"]

Goto(x, next) == stage' = [stage EXCEPT ![x] = next]

\* The tasks in R are over, and all others too if the client is serial.
Quiet(R) == \A x \in IF Serial THEN Prompts \cup Rollbacks ELSE R : stage[x] \in {"idle", "done"}

Mut_NeverFenced == TRUE
FenceDown == fence = "down"

-----------------------------------------------------------------------------
\* The first look at the fence; the client queues its prompts.
Prompt(p) ==
  /\ stage[p] = "idle"
  /\ Quiet(Prompts)
  /\ Goto(p, IF FenceDown THEN "checked" ELSE "done")
  /\ UNCHANGED <<fence, loaded, turns>>

\* The second look, after the background drain: a turn or /undo follows.
Proceed(p) ==
  /\ stage[p] = "checked"
  /\ IF FenceDown THEN \E next \in {"starting", "rolling"} : Goto(p, next)
                  ELSE Goto(p, "done")
  /\ UNCHANGED <<fence, loaded, turns>>

StartTurn(p) ==
  /\ stage[p] = "starting"
  /\ Goto(p, "turn")
  /\ UNCHANGED <<fence, loaded, turns>>

EndTurn(p) ==
  /\ stage[p] = "turn"
  /\ Goto(p, "done")
  /\ UNCHANGED <<fence, loaded, turns>>

\* ext_method answers one call before it looks at the next.
CallRollback(r) ==
  /\ stage[r] = "idle"
  /\ Quiet(Rollbacks)
  /\ Goto(r, "rolling")
  /\ UNCHANGED <<fence, loaded, turns>>

\* A call that asks for no replay passes the fence and leaves it alone.
CallQuietRollback(r) ==
  /\ stage[r] = "idle"
  /\ Quiet(Rollbacks)
  /\ Goto(r, "done")
  /\ UNCHANGED <<fence, loaded, turns>>

-----------------------------------------------------------------------------
Mut_RequestAnyway(x) ==
  /\ stage[x] = "rolling"
  /\ Goto(x, "asked")
  /\ UNCHANGED <<fence, loaded, turns>>
\* rollback_turns_ext up to the request thread/rollback.
RequestRollback(x) ==
  /\ stage[x] = "rolling"
  /\ Goto(x, IF FenceDown THEN "asked" ELSE "done")
  /\ UNCHANGED <<fence, loaded, turns>>

\* The backend answers with the turns that remain, possibly none.
RolledBack(x, remaining) ==
  /\ stage[x] = "asked"
  /\ turns' = [turns EXCEPT ![x] = remaining]
  /\ fence' = IF remaining = "some" THEN "up" ELSE fence
  /\ Goto(x, "replaying")
  /\ UNCHANGED loaded

RollbackFails(x) ==
  /\ stage[x] = "asked"
  /\ Goto(x, "done")
  /\ UNCHANGED <<fence, loaded, turns>>

Mut_RaiseFirst(l) ==
  /\ stage[l] = "idle"
  /\ fence' = "up"
  /\ IF loaded = "some"
     THEN /\ loaded' = "empty"
          /\ turns' = [turns EXCEPT ![l] = "some"]
          /\ Goto(l, "replaying")
     ELSE Goto(l, "done") /\ UNCHANGED <<loaded, turns>>
Mut_DuplicateLowers(l) ==
  /\ stage[l] = "idle"
  /\ IF loaded = "some"
     THEN /\ loaded' = "empty"
          /\ fence' = "up"
          /\ turns' = [turns EXCEPT ![l] = "some"]
          /\ Goto(l, "replaying")
     ELSE Goto(l, "done") /\ fence' = "down" /\ UNCHANGED <<loaded, turns>>
\* replay_loaded_history; a duplicate task finds the turns taken and leaves.
TakeLoadedTurns(l) ==
  /\ stage[l] = "idle"
  /\ IF loaded = "some"
     THEN /\ loaded' = "empty"
          /\ fence' = "up"
          /\ turns' = [turns EXCEPT ![l] = "some"]
          /\ Goto(l, "replaying")
     ELSE Goto(l, "done") /\ UNCHANGED <<fence, loaded, turns>>

\* Whoever has replayed its turns lowers the fence.
EndReplay(x) ==
  /\ stage[x] = "replaying"
  /\ fence' = "down"
  /\ Goto(x, "done")
  /\ UNCHANGED <<loaded, turns>>

-----------------------------------------------------------------------------
PromptStep(p) == Prompt(p) \/ Proceed(p) \/ StartTurn(p) \/ EndTurn(p)

RollbackStep(x) ==
  \/ RequestRollback(x) \/ RollbackFails(x)
  \/ \E remaining \in {"some", "empty"} : RolledBack(x, remaining)

Next ==
  \/ \E p \in Prompts : PromptStep(p)
  \/ \E r \in Rollbacks : CallRollback(r) \/ CallQuietRollback(r)
  \/ \E x \in Prompts \cup Rollbacks : RollbackStep(x)
  \/ \E l \in Loaders : TakeLoadedTurns(l)
  \/ \E x \in Tasks : EndReplay(x)

Spec == Init /\ [][Next]_vars

(* The replay tasks run: the client takes what it is sent.                  *)
FairSpec ==
  /\ Spec
  /\ \A l \in Loaders : WF_vars(TakeLoadedTurns(l))
  /\ \A x \in Tasks : WF_vars(EndReplay(x))

-----------------------------------------------------------------------------
Replaying(x) == stage[x] = "replaying" /\ turns[x] = "some"

(* Type invariant.                                                         *)
TypeOK ==
  /\ fence \in {"up", "down"}
  /\ loaded \in {"some", "empty"}
  /\ stage \in [Tasks -> Stages]
  /\ turns \in [Tasks -> {"some", "empty"}]

(* The fence is up as long as somebody replays history or has yet to: no   *)
(* task lowers it under another one (view.rs, replay_loaded_history).      *)
ReplayFenced ==
  (loaded = "some" \/ \E x \in Tasks : Replaying(x)) => fence = "up"

(* No turn runs while history is replayed into the same session: what the  *)
(* fence is for (README.md, Limitations).                                  *)
NoTurnDuringReplay ==
  (\E x \in Tasks : Replaying(x)) => \A p \in Prompts : stage[p] # "turn"

(* The fence comes down again, and does not lock the session for ever.     *)
FenceLifted == (fence = "up") ~> (fence = "down")
=============================================================================
