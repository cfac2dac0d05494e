------------------------- MODULE HistoryReplayProofs -------------------------
(***************************************************************************)
(* Proofs about HistoryReplay: which clients the fence is enough for.      *)
(***************************************************************************)
EXTENDS HistoryReplay, TLAPS

Clients == Prompts \cup Rollbacks

(* A client that waits for a call before the next one, or whose prompts and *)
(* rollback calls cannot meet because it uses only one of the two.          *)
OneAtATime == Serial \/ Prompts = {} \/ Rollbacks = {}

Over == {"idle", "done"}

(* Where a loader and a rollback call can be: neither runs a turn.          *)
StagesFit ==
  /\ \A l \in Loaders : stage[l] \in {"idle", "replaying", "done"}
  /\ \A r \in Rollbacks : stage[r] \in {"idle", "rolling", "asked", "replaying", "done"}

(* The calls of the client are served one after the other.                  *)
OneServed ==
  \A x, y \in Clients : stage[x] \notin Over /\ stage[y] \notin Over => x = y

(* A call that has got past the fence for good met no history to replay,    *)
(* and none comes back: the loaded turns are taken once.                    *)
PastTheFence ==
  (\E x \in Clients : stage[x] \notin Over \cup {"rolling"}) =>
    /\ loaded = "empty"
    /\ \A l \in Loaders : stage[l] # "replaying"

(* The loaded turns are with the session or with one loader, which replays  *)
(* them behind the fence.                                                   *)
LoadedOnce ==
  /\ loaded = "some" => \A l \in Loaders : stage[l] # "replaying"
  /\ \A l \in Loaders : stage[l] = "replaying" => turns[l] = "some"
  /\ \A l, m \in Loaders : stage[l] = "replaying" /\ stage[m] = "replaying" => l = m

(* The inductive invariant.                                                 *)
ReplayInv ==
  TypeOK /\ StagesFit /\ OneServed /\ PastTheFence /\ LoadedOnce /\ ReplayFenced

-----------------------------------------------------------------------------
(* No task stands past the start, and the fence is up if there is history.  *)
LEMMA ReplayInitially == Init => ReplayInv
<1> SUFFICES ASSUME Init PROVE ReplayInv
  OBVIOUS
<1>1. \A x \in Tasks : stage[x] = "idle"
  BY DEF Init
<1>2. Prompts \subseteq Tasks /\ Rollbacks \subseteq Tasks /\ Loaders \subseteq Tasks
  BY DEF Tasks
<1>3. TypeOK /\ ReplayFenced
  BY <1>1 DEF Init, TypeOK, ReplayFenced, Replaying, Stages
<1>4. StagesFit /\ OneServed /\ PastTheFence /\ LoadedOnce
  BY <1>1, <1>2 DEF StagesFit, OneServed, PastTheFence, LoadedOnce, Clients, Over
<1> QED
  BY <1>3, <1>4 DEF ReplayInv

(* A task goes where it goes, and the others stay.                          *)
LEMMA GotoMovesOne ==
  ASSUME TypeOK, NEW x \in Tasks, NEW next \in Stages, Goto(x, next)
  PROVE  /\ stage' \in [Tasks -> Stages]
         /\ stage'[x] = next
         /\ \A y \in Tasks : y # x => stage'[y] = stage[y]
  BY DEF TypeOK, Goto

(* A client that may begin a call has no other one being served.            *)
LEMMA QuietMeansAlone ==
  ASSUME OneAtATime, NEW R \in {Prompts, Rollbacks}, NEW x \in R, Quiet(R)
  PROVE  \A y \in Clients : stage[y] \in Over
<1>1. CASE Serial
  BY <1>1 DEF Quiet, Clients, Over
<1>2. CASE ~Serial
  <2>1. Prompts = {} \/ Rollbacks = {}
    BY <1>2 DEF OneAtATime
  <2>2. Clients = R
    BY <2>1 DEF Clients
  <2> QED
    BY <1>2, <2>2 DEF Quiet, Over
<1> QED
  BY <1>1, <1>2

(* A step of the client that is being served and does not touch the fence. *)
LEMMA ClientMoves ==
  ASSUME ReplayInv, NEW x \in Clients, NEW next \in Stages \ {"replaying"},
         Goto(x, next), UNCHANGED <<fence, loaded, turns>>,
         x \in Rollbacks => next \in {"rolling", "asked", "done"},
         next \notin Over => \A y \in Clients : y # x => stage[y] \in Over,
         next \notin Over \cup {"rolling"} => fence = "down" \/ stage[x] \notin Over \cup {"rolling"}
  PROVE  ReplayInv'
<1>1. x \in Tasks /\ x \notin Loaders /\ Clients \subseteq Tasks /\ Loaders \subseteq Tasks
  BY HistoryReplayAssumption DEF Clients, Tasks
<1>2. /\ stage' \in [Tasks -> Stages]
      /\ stage'[x] = next
      /\ \A y \in Tasks : y # x => stage'[y] = stage[y]
  BY <1>1, GotoMovesOne DEF ReplayInv
<1>3. \A l \in Loaders : stage'[l] = stage[l] /\ turns'[l] = turns[l]
  BY <1>1, <1>2
<1>4. TypeOK'
  BY <1>2 DEF ReplayInv, TypeOK
<1>5. StagesFit'
  BY <1>1, <1>2, <1>3 DEF ReplayInv, StagesFit, Clients
<1>6. OneServed'
  BY <1>1, <1>2 DEF ReplayInv, OneServed
<1>7. LoadedOnce'
  BY <1>3 DEF ReplayInv, LoadedOnce
<1>8. ReplayFenced'
  BY <1>2 DEF ReplayInv, ReplayFenced, Replaying
<1>9. PastTheFence'
  <2>1. CASE fence = "down"
    <3>1. loaded = "empty" /\ \A l \in Loaders : stage[l] # "replaying"
      BY <1>1, <2>1 DEF ReplayInv, ReplayFenced, Replaying, LoadedOnce, TypeOK
    <3> QED
      BY <1>3, <3>1 DEF PastTheFence
  <2>2. CASE fence # "down"
    <3>1. (\E y \in Clients : stage'[y] \notin Over \cup {"rolling"}) =>
            \E y \in Clients : stage[y] \notin Over \cup {"rolling"}
      BY <1>1, <1>2, <2>2
    <3> QED
      BY <1>3, <3>1 DEF ReplayInv, PastTheFence
  <2> QED
    BY <2>1, <2>2
<1> QED
  BY <1>4, <1>5, <1>6, <1>7, <1>8, <1>9 DEF ReplayInv

(* The answer to a rollback: the fence goes up, or stays as it is.          *)
LEMMA RolledBackKeeps ==
  ASSUME ReplayInv, NEW x \in Clients, NEW remaining \in {"some", "empty"},
         RolledBack(x, remaining)
  PROVE  ReplayInv'
<1>1. x \in Tasks /\ x \notin Loaders /\ Clients \subseteq Tasks /\ Loaders \subseteq Tasks
  BY HistoryReplayAssumption DEF Clients, Tasks
<1>2. /\ stage' \in [Tasks -> Stages]
      /\ stage'[x] = "replaying"
      /\ \A y \in Tasks : y # x => stage'[y] = stage[y]
  BY <1>1, GotoMovesOne DEF ReplayInv, RolledBack, Stages
<1>3. /\ turns' \in [Tasks -> {"some", "empty"}]
      /\ turns'[x] = remaining
      /\ \A y \in Tasks : y # x => turns'[y] = turns[y]
  BY <1>1 DEF ReplayInv, TypeOK, RolledBack
<1>4. stage[x] = "asked" /\ loaded' = loaded
  BY DEF RolledBack
<1>5. \A l \in Loaders : stage'[l] = stage[l] /\ turns'[l] = turns[l]
  BY <1>1, <1>2, <1>3
<1>6. TypeOK'
  BY <1>2, <1>3, <1>4 DEF ReplayInv, TypeOK, RolledBack
<1>7. StagesFit'
  BY <1>1, <1>2, <1>5 DEF ReplayInv, StagesFit, Clients
<1>8. OneServed'
  BY <1>1, <1>2, <1>4 DEF ReplayInv, OneServed, Over
<1>9. LoadedOnce'
  BY <1>4, <1>5 DEF ReplayInv, LoadedOnce
<1>10. PastTheFence'
  BY <1>4, <1>5 DEF ReplayInv, PastTheFence, Over
<1>11. ReplayFenced'
  <2>1. CASE remaining = "some"
    BY <2>1 DEF RolledBack, ReplayFenced
  <2>2. CASE remaining = "empty"
    BY <1>2, <1>3, <1>4, <2>2 DEF ReplayInv, RolledBack, ReplayFenced, Replaying
  <2> QED
    BY <2>1, <2>2
<1> QED
  BY <1>6, <1>7, <1>8, <1>9, <1>10, <1>11 DEF ReplayInv

(* A loader takes the turns, or finds them taken and leaves.                *)
LEMMA TakeLoadedTurnsKeeps ==
  ASSUME ReplayInv, NEW l \in Loaders, TakeLoadedTurns(l)
  PROVE  ReplayInv'
<1>1. l \in Tasks /\ l \notin Clients /\ Clients \subseteq Tasks /\ Loaders \subseteq Tasks
  BY HistoryReplayAssumption DEF Clients, Tasks
<1>2. CASE loaded = "some"
  <2>1. /\ stage' \in [Tasks -> Stages]
        /\ stage'[l] = "replaying"
        /\ \A y \in Tasks : y # l => stage'[y] = stage[y]
    BY <1>1, <1>2, GotoMovesOne DEF ReplayInv, TakeLoadedTurns, Stages
  <2>2. /\ turns' \in [Tasks -> {"some", "empty"}]
        /\ turns'[l] = "some"
        /\ \A y \in Tasks : y # l => turns'[y] = turns[y]
        /\ loaded' = "empty" /\ fence' = "up"
    BY <1>1, <1>2 DEF ReplayInv, TypeOK, TakeLoadedTurns
  <2>3. \A m \in Loaders : stage[m] # "replaying"
    BY <1>2 DEF ReplayInv, LoadedOnce
  <2>4. \A y \in Clients : stage'[y] = stage[y] /\ stage[y] \in Over \cup {"rolling"}
    BY <1>1, <1>2, <2>1 DEF ReplayInv, PastTheFence
  <2>5. TypeOK'
    BY <2>1, <2>2 DEF TypeOK
  <2>6. StagesFit'
    BY <1>1, <2>1, <2>4 DEF ReplayInv, StagesFit, Clients
  <2>7. OneServed'
    BY <2>4 DEF ReplayInv, OneServed
  <2>8. PastTheFence'
    BY <2>4 DEF PastTheFence
  <2>9. LoadedOnce'
    BY <1>1, <2>1, <2>2, <2>3 DEF LoadedOnce
  <2>10. ReplayFenced'
    BY <2>2 DEF ReplayFenced
  <2> QED
    BY <2>5, <2>6, <2>7, <2>8, <2>9, <2>10 DEF ReplayInv
<1>3. CASE loaded # "some"
  <2>1. /\ stage' \in [Tasks -> Stages]
        /\ stage'[l] = "done"
        /\ \A y \in Tasks : y # l => stage'[y] = stage[y]
        /\ UNCHANGED <<fence, loaded, turns>>
    BY <1>1, <1>3, GotoMovesOne DEF ReplayInv, TakeLoadedTurns, Stages
  <2>2. TypeOK' /\ OneServed' /\ ReplayFenced'
    BY <1>1, <2>1 DEF ReplayInv, TypeOK, OneServed, ReplayFenced, Replaying
  <2>3. StagesFit'
    BY <1>1, <2>1 DEF ReplayInv, StagesFit, Clients
  <2>4. PastTheFence'
    BY <1>1, <2>1 DEF ReplayInv, PastTheFence
  <2>5. LoadedOnce'
    BY <1>1, <2>1 DEF ReplayInv, LoadedOnce
  <2> QED
    BY <2>2, <2>3, <2>4, <2>5 DEF ReplayInv
<1> QED
  BY <1>2, <1>3

(* Who lowers the fence was the last to replay anything.                    *)
LEMMA EndReplayKeeps ==
  ASSUME ReplayInv, NEW x \in Tasks, EndReplay(x)
  PROVE  ReplayInv'
<1>1. Clients \subseteq Tasks /\ Loaders \subseteq Tasks /\ Clients \cap Loaders = {}
  BY HistoryReplayAssumption DEF Clients, Tasks
<1>2. /\ stage' \in [Tasks -> Stages]
      /\ stage'[x] = "done"
      /\ \A y \in Tasks : y # x => stage'[y] = stage[y]
      /\ UNCHANGED <<loaded, turns>>
      /\ stage[x] = "replaying"
  BY GotoMovesOne DEF ReplayInv, EndReplay, Stages
<1>3. loaded = "empty" /\ \A y \in Tasks : y # x => ~Replaying(y)
  <2>1. CASE x \in Clients
    <3>1. loaded = "empty" /\ \A l \in Loaders : stage[l] # "replaying"
      BY <1>2, <2>1 DEF ReplayInv, PastTheFence, Over
    <3>2. \A y \in Clients : y # x => stage[y] # "replaying"
      BY <1>2, <2>1 DEF ReplayInv, OneServed, Over
    <3> QED
      BY <3>1, <3>2 DEF Replaying, Tasks, Clients
  <2>2. CASE x \in Loaders
    <3>1. loaded = "empty"
      BY <1>2, <2>2 DEF ReplayInv, LoadedOnce, TypeOK
    <3>2. \A y \in Clients : stage[y] # "replaying"
      BY <1>2, <2>2 DEF ReplayInv, PastTheFence, Over
    <3>3. \A l \in Loaders : l # x => stage[l] # "replaying"
      BY <1>2, <2>2 DEF ReplayInv, LoadedOnce
    <3> QED
      BY <3>1, <3>2, <3>3 DEF Replaying, Tasks, Clients
  <2> QED
    BY <2>1, <2>2 DEF Tasks, Clients
<1>4. ReplayFenced'
  BY <1>2, <1>3 DEF ReplayFenced, Replaying
<1>5. TypeOK'
  BY <1>2 DEF ReplayInv, TypeOK, EndReplay
<1>6. StagesFit'
  BY <1>1, <1>2 DEF ReplayInv, StagesFit, Clients
<1>7. OneServed'
  BY <1>1, <1>2 DEF ReplayInv, OneServed, Over
<1>8. PastTheFence'
  BY <1>1, <1>2 DEF ReplayInv, PastTheFence, Over
<1>9. LoadedOnce'
  BY <1>1, <1>2 DEF ReplayInv, LoadedOnce
<1> QED
  BY <1>4, <1>5, <1>6, <1>7, <1>8, <1>9 DEF ReplayInv

LEMMA ReplayInductive ==
  ASSUME OneAtATime PROVE ReplayInv /\ [Next]_vars => ReplayInv'
<1> SUFFICES ASSUME ReplayInv, [Next]_vars PROVE ReplayInv'
  OBVIOUS
<1>1. ASSUME NEW p \in Prompts, PromptStep(p) PROVE ReplayInv'
  <2>1. p \in Clients /\ p \notin Rollbacks
    BY HistoryReplayAssumption DEF Clients
  <2>2. CASE Prompt(p)
    <3>1. \A y \in Clients : stage[y] \in Over
      BY <2>2, QuietMeansAlone DEF Prompt
    <3>2. PICK next \in {"checked", "done"} : Goto(p, next) /\ (next = "checked" => fence = "down")
      BY <2>2 DEF Prompt, FenceDown
    <3> QED
      BY <2>1, <2>2, <3>1, <3>2, ClientMoves DEF Prompt, Stages, Over
  <2>3. CASE Proceed(p) \/ StartTurn(p) \/ EndTurn(p)
    <3>1. stage[p] \in {"checked", "starting", "turn"}
      BY <2>3 DEF Proceed, StartTurn, EndTurn
    <3>2. \A y \in Clients : y # p => stage[y] \in Over
      BY <2>1, <3>1 DEF ReplayInv, OneServed, Over
    <3>3. PICK next \in {"starting", "rolling", "turn", "done"} : Goto(p, next)
      BY <2>3 DEF Proceed, StartTurn, EndTurn
    <3>4. UNCHANGED <<fence, loaded, turns>>
      BY <2>3 DEF Proceed, StartTurn, EndTurn
    <3> QED
      BY <2>1, <3>1, <3>2, <3>3, <3>4, ClientMoves DEF Stages, Over
  <2> QED
    BY <1>1, <2>2, <2>3 DEF PromptStep
<1>2. ASSUME NEW r \in Rollbacks, CallRollback(r) \/ CallQuietRollback(r) PROVE ReplayInv'
  <2>1. \A y \in Clients : stage[y] \in Over
    BY <1>2, QuietMeansAlone DEF CallRollback, CallQuietRollback
  <2>2. PICK next \in {"rolling", "done"} : Goto(r, next)
    BY <1>2 DEF CallRollback, CallQuietRollback
  <2>3. r \in Clients /\ UNCHANGED <<fence, loaded, turns>>
    BY <1>2 DEF Clients, CallRollback, CallQuietRollback
  <2> QED
    BY <2>1, <2>2, <2>3, ClientMoves DEF Stages, Over
<1>3. ASSUME NEW x \in Clients, RollbackStep(x) PROVE ReplayInv'
  <2>1. CASE RequestRollback(x) \/ RollbackFails(x)
    <3>1. stage[x] \in {"rolling", "asked"} /\ UNCHANGED <<fence, loaded, turns>>
      BY <2>1 DEF RequestRollback, RollbackFails
    <3>2. PICK next \in {"asked", "done"} : Goto(x, next) /\ (next = "asked" => fence = "down")
      BY <2>1 DEF RequestRollback, RollbackFails, FenceDown
    <3>3. \A y \in Clients : y # x => stage[y] \in Over
      BY <3>1 DEF ReplayInv, OneServed, Over
    <3> QED
      BY <3>1, <3>2, <3>3, ClientMoves DEF Stages, Over
  <2>2. CASE \E remaining \in {"some", "empty"} : RolledBack(x, remaining)
    BY <2>2, RolledBackKeeps
  <2> QED
    BY <1>3, <2>1, <2>2 DEF RollbackStep
<1>4. CASE UNCHANGED vars
  BY <1>4 DEF vars, ReplayInv, TypeOK, StagesFit, OneServed, PastTheFence, LoadedOnce,
              ReplayFenced, Replaying
<1> QED
  BY <1>1, <1>2, <1>3, <1>4, TakeLoadedTurnsKeeps, EndReplayKeeps DEF Next, Clients

(* Variables keep their types, whatever the client does.                    *)
THEOREM ReplayTypes == Spec => []TypeOK
<1>1. Init => TypeOK
  BY DEF Init, TypeOK, Stages
<1>2. TypeOK /\ [Next]_vars => TypeOK'
  <2> SUFFICES ASSUME TypeOK, [Next]_vars PROVE TypeOK'
    OBVIOUS
  <2>1. Prompts \subseteq Tasks /\ Rollbacks \subseteq Tasks /\ Loaders \subseteq Tasks
    BY DEF Tasks
  <2>2. ASSUME NEW x \in Tasks, NEW next \in Stages, Goto(x, next) PROVE stage' \in [Tasks -> Stages]
    BY <2>2, GotoMovesOne
  <2>3. ASSUME NEW p \in Prompts, PromptStep(p) PROVE TypeOK'
    BY <2>1, <2>2, <2>3 DEF PromptStep, Prompt, Proceed, StartTurn, EndTurn, TypeOK, Stages
  <2>4. ASSUME NEW r \in Rollbacks, CallRollback(r) \/ CallQuietRollback(r) PROVE TypeOK'
    BY <2>1, <2>2, <2>4 DEF CallRollback, CallQuietRollback, TypeOK, Stages
  <2>5. ASSUME NEW x \in Clients, RollbackStep(x) PROVE TypeOK'
    <3>1. x \in Tasks
      BY <2>1 DEF Clients
    <3>2. stage' \in [Tasks -> Stages]
      BY <2>2, <2>5, <3>1 DEF RollbackStep, RequestRollback, RollbackFails, RolledBack, Stages
    <3> QED
      BY <2>5, <3>1, <3>2 DEF RollbackStep, RequestRollback, RollbackFails, RolledBack, TypeOK
  <2>6. ASSUME NEW l \in Loaders, TakeLoadedTurns(l) PROVE TypeOK'
    BY <2>1, <2>2, <2>6 DEF TakeLoadedTurns, TypeOK, Stages
  <2>7. ASSUME NEW x \in Tasks, EndReplay(x) PROVE TypeOK'
    BY <2>2, <2>7 DEF EndReplay, TypeOK, Stages
  <2>8. CASE UNCHANGED vars
    BY <2>8 DEF vars, TypeOK
  <2> QED
    BY <2>3, <2>4, <2>5, <2>6, <2>7, <2>8 DEF Next, Clients
<1> QED
  BY <1>1, <1>2, PTL DEF Spec

(* The fence stays up as long as somebody replays history or has yet to, if *)
(* no rollback call of the client can meet one of its prompts: view.rs and  *)
(* settings.rs lower it unconditionally (settings.rs:284-291).              *)
THEOREM FenceHolds == ASSUME OneAtATime PROVE Spec => []ReplayFenced
<1>1. ReplayInv => ReplayFenced
  BY DEF ReplayInv
<1> QED
  BY <1>1, ReplayInitially, ReplayInductive, PTL DEF Spec

(* No turn runs while history is replayed, for such a client.               *)
THEOREM TurnsAwaitReplay == ASSUME OneAtATime PROVE Spec => []NoTurnDuringReplay
<1>1. ReplayInv => NoTurnDuringReplay
  <2> SUFFICES ASSUME ReplayInv, NEW x \in Tasks, Replaying(x), NEW p \in Prompts, stage[p] = "turn"
               PROVE  FALSE
    BY DEF NoTurnDuringReplay
  <2>1. p \in Clients
    BY DEF Clients
  <2>2. x \notin Loaders
    BY <2>1 DEF ReplayInv, PastTheFence, Replaying, Over
  <2>3. x \in Clients
    BY <2>2 DEF Tasks, Clients
  <2>4. x = p
    BY <2>1, <2>3 DEF ReplayInv, OneServed, Replaying, Over
  <2> QED
    BY <2>4 DEF Replaying
<1> QED
  BY <1>1, ReplayInitially, ReplayInductive, PTL DEF Spec
=============================================================================
