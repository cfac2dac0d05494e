----------------------- MODULE SessionsHistoryProofs -----------------------
(***************************************************************************)
(* SwitchKeepsHistory and NoGhostSession, for every number of calls and    *)
(* threads: what a session leaves behind is on disk, and what it deleted   *)
(* is not shown again.  Both rest on SessionsInv, the second on HistoryInv *)
(* too.                                                                    *)
(***************************************************************************)
EXTENDS SessionsProofs

Written(t) == store[t] \in {"active", "archived", "deleted"}

\* Only a registered instance is on a thread.
OnlyInstances == \A i \in Calls : bound[i] # 0 => IsInstance(i)

\* A command on its way to another thread: /fork asked for a fork of the
\* current one, and a replaced or a forked thread is on disk.
Leaver(c) ==
  \/ task[c].phase \in {"replacing", "switching"}
  \/ task[c].phase = "forking" /\ task[c].kind = "switch"
LeavesAt(c) ==
  /\ task[c].phase = "forking" /\ task[c].kind = "switch" => task[c].thread = bound[Inst(c)]
  /\ task[c].phase \in {"replacing", "switching"} /\ bound[Inst(c)] # 0
       => Written(bound[Inst(c)])
LeavesBehind == \A c \in Calls : LeavesAt(c)

HistoryInv == OnlyInstances /\ LeavesBehind

-----------------------------------------------------------------------------
(* What is on disk stays known.                                            *)

WrittenStays == \A t \in Threads : Written(t) => Written(t)'

\* Call c goes on or begins; the others keep everything.
Acts(c) == task[c].phase \notin Returned /\ \A d \in Calls : d # c => task'[d] = task[d]

\* Phases a command has not reached, or has behind it.
Elsewhere(c) == task'[c].phase \notin {"forking", "replacing", "switching"}

\* Such a call leaves nothing behind.
LEMMA ElsewhereLeaves == ASSUME NEW c, Elsewhere(c) PROVE LeavesAt(c)'
  BY DEF Elsewhere, LeavesAt

\* The store never forgets a thread it knew.
LEMMA StoreStays ==
  ASSUME SessionsInv, NEW t, NEW what \in {"unwritten", "active", "archived", "deleted"},
         OnStore(t, what), what = "unwritten" => Unused(t)
  PROVE  WrittenStays
<1>1. store \in [Threads -> {"unused", "unwritten", "active", "archived", "deleted"}]
  BY TypesSplit DEF SessionsInv, RestTyped
<1> QED
  BY <1>1 DEF WrittenStays, Written, OnStore, Unused

\* The calls that leave their thread behind are prompts on their instance.
LEMMA LeaversAreCommands ==
  ASSUME SessionsInv, NEW d \in Calls, Leaver(d)
  PROVE  /\ task[d].kind \in PromptKinds /\ Busy(d)
         /\ Inst(d) \in Calls /\ IsInstance(Inst(d))
         /\ bound[Inst(d)] \in 0..MaxThreads
<1>1. task[d].kind \in PromptKinds /\ Busy(d) /\ Inst(d) \in Calls
  BY DEF SessionsInv, Relations, Shape, ShapeAt, OnInstance, Leaving, Busy, Returned, PromptKinds, Inst,
         Leaver
<1> QED
  BY <1>1, TypesSplit DEF SessionsInv, Relations, PromptsAtHome, RestTyped

\* A step of one call that leaves the instances where they are.
LEMMA HistoryStep ==
  ASSUME SessionsInv, HistoryInv, NEW c \in Calls, Acts(c), bound' = bound,
         WrittenStays, LeavesAt(c)'
  PROVE  HistoryInv'
<1>1. OnlyInstances'
  <2> SUFFICES ASSUME NEW i \in Calls, bound[i] # 0 PROVE IsInstance(i)'
    BY DEF OnlyInstances
  <2>1. IsInstance(i)
    BY DEF HistoryInv, OnlyInstances
  <2>2. task'[i] = task[i]
    BY <2>1 DEF Acts, IsInstance, Returned
  <2> QED
    BY <2>1, <2>2 DEF IsInstance
<1>2. LeavesBehind'
  <2> SUFFICES ASSUME NEW d \in Calls, d # c PROVE LeavesAt(d)'
    BY DEF LeavesBehind
  <2>1. task'[d] = task[d] /\ LeavesAt(d)
    BY DEF Acts, HistoryInv, LeavesBehind
  <2>2. CASE Leaver(d)
    <3>1. PICK t : t = bound[Inst(d)]
      OBVIOUS
    <3>2. t # 0 => t \in Threads
      BY <2>2, <3>1, LeaversAreCommands, SessionsAssumption DEF Threads
    <3>3. t # 0 /\ Written(t) => Written(t)'
      BY <3>2 DEF WrittenStays
    <3> QED
      BY <2>1, <3>1, <3>3 DEF LeavesAt, Inst, Written
  <2>3. CASE ~Leaver(d)
    BY <2>1, <2>3 DEF LeavesAt, Leaver
  <2> QED
    BY <2>2, <2>3
<1> QED
  BY <1>1, <1>2 DEF HistoryInv

\* A step that leads a call elsewhere and leaves the instances alone.
LEMMA CalmStep ==
  ASSUME SessionsInv, HistoryInv, NEW c \in Calls, NEW ph, Moves(c, ph), Busy(c),
         ph \notin {"forking", "replacing", "switching"}, bound' = bound,
         WrittenStays
  PROVE  HistoryInv'
<1>1. Acts(c) /\ Elsewhere(c)
  BY DEF Moves, Busy, Acts, Elsewhere
<1> QED
  BY <1>1, ElsewhereLeaves, HistoryStep

\* An untouched store forgets nothing.
LEMMA SameStore == store' = store => WrittenStays
  BY DEF WrittenStays, Written

-----------------------------------------------------------------------------
(* The steps that lead a command to another thread.                        *)

\* /fork reads the current thread and asks for a fork of it.
LEMMA ReadThreadHistory ==
  ASSUME SessionsInv, HistoryInv, NEW c \in Calls, ReadThread(c)
  PROVE  HistoryInv'
<1> DEFINE ph == IF task[c].kind = "delete" THEN "deleting" ELSE "forking"
<1>1. /\ task[c].phase = "reading" /\ bound' = bound /\ store' = store
      /\ task' = [task EXCEPT ![c].thread = bound[Inst(c)], ![c].phase = ph]
  BY DEF ReadThread, Phase, storeVars, instanceVars
<1>2. Inst(c) \in Calls /\ bound[Inst(c)] \in 0..MaxThreads
  BY <1>1, TypesSplit DEF SessionsInv, RestTyped, Relations, Shape, ShapeAt, OnInstance, Inst
<1>3. ph \in Phases
  BY DEF Phases
<1> HIDE DEF ph
<1>4. Moves(c, ph) /\ task'[c].thread = bound[Inst(c)]
  BY ZenonT(60), <1>1, <1>2, <1>3, RestKept, ThreadMoves
<1>5. Acts(c)
  BY <1>1, <1>4 DEF Acts, Moves, Returned
<1>6. LeavesAt(c)'
  <2>1. Inst(c)' = Inst(c) /\ task'[c].phase = ph
    BY <1>4 DEF Moves, Inst
  <2>2. ph \notin {"replacing", "switching"}
    BY DEF ph
  <2> QED
    BY <1>1, <1>4, <2>1, <2>2 DEF LeavesAt
<1> QED
  BY <1>1, <1>5, <1>6, SameStore, HistoryStep

\* Only a thread on disk can be forked.
LEMMA ForkThreadHistory ==
  ASSUME SessionsInv, HistoryInv, NEW c \in Calls, NEW t \in Threads, ForkThread(c, t)
  PROVE  HistoryInv'
<1> DEFINE ph == IF task[c].kind = "fork" THEN "resuming" ELSE "switching"
<1>1. /\ task[c].phase = "forking" /\ bound' = bound
      /\ OnStore(t, "active") /\ store[SourceThread(c)] = "active"
  BY DEF ForkThread, Phase, Missing, instanceVars
<1>2. ph \in Phases
  BY DEF Phases, Bootstrapping, Leaving
<1> HIDE DEF ph
<1>3. Moves(c, ph)
  <2>1. TaskTyped /\ t \in 0..MaxThreads
    BY RestKept, ThreadRange
  <2>2. task' = [task EXCEPT ![c].phase = ph, ![c].next = t]
    BY DEF ForkThread, ph
  <2> QED
    BY <1>2, <2>1, <2>2, NextMoves
<1>4. WrittenStays
  BY <1>1, StoreStays
<1>5. Acts(c)
  BY <1>1, <1>3 DEF Acts, Moves, Returned
<1>6. LeavesAt(c)'
  <2>1. CASE task[c].kind = "fork"
    BY <1>3, <2>1, ElsewhereLeaves DEF Elsewhere, Moves, ph
  <2>2. CASE task[c].kind # "fork"
    <3>1. task[c].kind = "switch" /\ ph = "switching"
      BY <1>1, <2>2 DEF SessionsInv, Relations, Shape, ShapeAt, ph
    <3>2. SourceThread(c) = bound[Inst(c)]
      BY <1>1, <3>1 DEF HistoryInv, LeavesBehind, LeavesAt, SourceThread
    <3>3. bound[Inst(c)] # 0 => bound[Inst(c)] \in Threads
      BY <1>1, <3>1, LeaversAreCommands, SessionsAssumption DEF Threads, Leaver
    <3>4. bound[Inst(c)] # 0 => Written(bound[Inst(c)])
      BY <1>1, <3>2 DEF Written
    <3>5. PICK u : u = bound[Inst(c)]
      OBVIOUS
    <3>6. u # 0 => Written(u)'
      BY <1>4, <3>3, <3>4, <3>5 DEF WrittenStays
    <3>7. Inst(c)' = Inst(c) /\ task'[c].phase = "switching"
      BY <1>3, <3>1 DEF Moves, Inst
    <3> QED
      BY <1>1, <3>5, <3>6, <3>7 DEF LeavesAt, Written
  <2> QED
    BY <2>1, <2>2
<1> QED
  BY <1>1, <1>4, <1>5, <1>6, HistoryStep

\* An archived thread stays on disk.
LEMMA ArchiveThreadHistory ==
  ASSUME SessionsInv, HistoryInv, NEW c \in Calls, ArchiveThread(c)
  PROVE  HistoryInv'
<1>0. PICK t : t = task[c].thread
  OBVIOUS
<1>1. /\ task[c].phase \in {"archiving", "retiring"} /\ bound' = bound /\ Busy(c)
  BY DEF ArchiveThread, instanceVars, Busy, Returned
<1>2. CASE Go(c, "error") /\ store' = store
  <2>1. Moves(c, "error")
    BY <1>2, RestKept, GoMoves DEF Phases, Returned
  <2> QED
    BY <1>1, <1>2, <2>1, SameStore, CalmStep
<1>3. ASSUME NEW ph \in {IF task[c].phase = "retiring" THEN "replacing" ELSE "ok", "error"},
             Go(c, ph), OnStore(t, "archived"), store[t] = "active"
      PROVE  HistoryInv'
  <2>1. Moves(c, ph)
    <3>1. ph \in Phases
      BY <1>3 DEF Phases, Returned, Leaving
    <3> QED
      BY <1>3, <3>1, RestKept, GoMoves
  <2>2. WrittenStays
    BY <1>3, StoreStays
  <2>3. CASE task[c].phase = "archiving"
    BY <1>1, <1>3, <2>1, <2>2, <2>3, CalmStep
  <2>4. CASE ph = "error"
    BY <1>1, <2>1, <2>2, <2>4, CalmStep
  <2>5. CASE task[c].phase = "retiring" /\ ph # "error"
    <3>1. t = bound[Inst(c)] /\ Inst(c) \in Calls
      BY <1>0, <2>5 DEF SessionsInv, Relations, ArchiveTarget, TargetAt, Shape, ShapeAt, OnInstance, Inst
    <3>2. t # 0 => t \in Threads
      <4>1. t \in 0..MaxThreads
        BY <1>0, RestKept DEF TaskTyped, TaskRecords
      <4> QED
        BY <4>1, SessionsAssumption DEF Threads
    <3>3. t # 0 => Written(t)'
      BY <1>3, <2>2, <3>2 DEF WrittenStays, Written
    <3>4. Acts(c) /\ Inst(c)' = Inst(c) /\ task'[c].phase = "replacing"
      BY <1>1, <1>3, <2>1, <2>5 DEF Acts, Moves, Busy, Inst
    <3>5. LeavesAt(c)'
      BY <1>1, <3>1, <3>3, <3>4 DEF LeavesAt
    <3> QED
      BY <1>1, <2>2, <3>4, <3>5, HistoryStep
  <2> QED
    BY <1>1, <2>3, <2>4, <2>5
<1> QED
  BY <1>0, <1>2, <1>3 DEF ArchiveThread, Answered, Phase

\* The replacement is another thread.
LEMMA StartReplacementHistory ==
  ASSUME SessionsInv, HistoryInv, NEW c \in Calls, StartReplacement(c)
  PROVE  HistoryInv'
<1>1. task[c].phase = "replacing" /\ bound' = bound /\ Busy(c)
  BY DEF StartReplacement, Phase, instanceVars, Busy, Returned
<1>2. CASE Go(c, "restoring") /\ store' = store
  <2>1. Moves(c, "restoring")
    BY <1>2, RestKept, GoMoves DEF Phases, Leaving
  <2> QED
    BY <1>1, <1>2, <2>1, SameStore, CalmStep
<1>3. ASSUME NEW t \in Threads, Unused(t), OnStore(t, "unwritten"),
             task' = [task EXCEPT ![c].phase = "switching", ![c].next = t]
      PROVE  HistoryInv'
  <2>1. Moves(c, "switching")
    BY <1>3, RestKept, NextMoves, ThreadRange DEF Phases, Leaving
  <2>2. WrittenStays
    BY <1>3, StoreStays
  <2>3. PICK u : u = bound[Inst(c)]
    OBVIOUS
  <2>4. u # 0 => u \in Threads /\ Written(u)
    BY <1>1, <2>3, LeaversAreCommands, SessionsAssumption
    DEF Leaver, Threads, HistoryInv, LeavesBehind, LeavesAt
  <2>5. u # 0 => Written(u)'
    BY <2>2, <2>4 DEF WrittenStays
  <2>6. Acts(c) /\ LeavesAt(c)'
    BY <1>1, <2>1, <2>3, <2>5 DEF Acts, Moves, Busy, LeavesAt, Inst, Written
  <2> QED
    BY <1>1, <2>2, <2>6, HistoryStep
<1> QED
  BY <1>2, <1>3 DEF StartReplacement

-----------------------------------------------------------------------------
(* The steps that move an instance.                                        *)

\* The instance a step moves is nobody else's to leave.
LEMMA MovedStep ==
  ASSUME SessionsInv, HistoryInv, NEW c \in Calls, Moves(c, "ok"), Busy(c),
         store' = store, NEW i \in Calls, NEW t, bound' = [bound EXCEPT ![i] = t],
         IsInstance(i)',
         \A d \in Calls : d # c /\ Leaver(d) => Inst(d) # i
  PROVE  HistoryInv'
<1>1. bound \in [Calls -> 0..MaxThreads]
  BY TypesSplit DEF SessionsInv, RestTyped
<1>2. OnlyInstances'
  <2> SUFFICES ASSUME NEW k \in Calls, k # i, bound'[k] # 0 PROVE IsInstance(k)'
    BY DEF OnlyInstances, IsInstance
  <2>1. IsInstance(k)
    BY <1>1 DEF HistoryInv, OnlyInstances
  <2> QED
    BY <2>1, InstanceStable
<1>3. LeavesBehind'
  <2> SUFFICES ASSUME NEW d \in Calls PROVE LeavesAt(d)'
    BY DEF LeavesBehind
  <2>1. CASE d = c
    BY <2>1, ElsewhereLeaves DEF Elsewhere, Moves
  <2>2. CASE d # c
    <3>1. task'[d] = task[d] /\ LeavesAt(d)
      BY <2>2 DEF Moves, HistoryInv, LeavesBehind
    <3>2. CASE Leaver(d)
      <4>1. bound'[Inst(d)] = bound[Inst(d)]
        BY <1>1, <2>2, <3>2, LeaversAreCommands
      <4> QED
        BY <3>1, <4>1 DEF LeavesAt, Inst, Written
    <3>3. CASE ~Leaver(d)
      BY <3>1, <3>3 DEF LeavesAt, Leaver
    <3> QED
      BY <3>2, <3>3
  <2> QED
    BY <2>1, <2>2
<1> QED
  BY <1>2, <1>3 DEF HistoryInv

\* A new instance was on no thread.
LEMMA RegisterSessionHistory ==
  ASSUME SessionsInv, HistoryInv, NEW c \in Calls, RegisterSession(c)
  PROVE  HistoryInv'
<1>1. /\ task[c].phase = "registering" /\ Busy(c) /\ task[c].kind \in {"new", "load", "fork"}
      /\ bound' = [bound EXCEPT ![c] = task[c].next] /\ store' = store
  BY DEF RegisterSession, Phase, Busy, Returned, SessionsInv, Relations, Shape, ShapeAt,
         Bootstrapping, storeVars
<1>2. Moves(c, "ok")
  BY RestKept, GoMoves DEF RegisterSession, Phases, Returned
<1>3. ~IsInstance(c) /\ IsInstance(c)'
  BY <1>1, <1>2 DEF IsInstance, Moves
<1> QED
  BY ZenonT(60), <1>1, <1>2, <1>3, LeaversAreCommands, MovedStep

\* A command moves its own instance only.
LEMMA SwitchThreadHistory ==
  ASSUME SessionsInv, HistoryInv, NEW c \in Calls, SwitchThread(c)
  PROVE  HistoryInv'
<1>1. /\ task[c].phase = "switching" /\ store' = store
      /\ task[c].kind \in PromptKinds /\ Busy(c) /\ IsInstance(Inst(c)) /\ Inst(c) \in Calls
  BY LeaversAreCommands DEF SwitchThread, Phase, storeVars, Leaver
<1>2. CASE Go(c, "ok") /\ bound' = [bound EXCEPT ![Inst(c)] = task[c].next]
  <2>1. Moves(c, "ok")
    BY <1>2, RestKept, GoMoves DEF Phases, Returned
  <2>2. PICK i \in Calls : i = Inst(c)
    BY <1>1
  <2>3. IsInstance(i)'
    BY <1>1, <2>1, <2>2, InstanceStable
  <2>4. \A d \in Calls : d # c /\ Leaver(d) => Inst(d) # i
    BY <1>1, <2>2, LeaversAreCommands, OnePromptPerInstance
  <2> QED
    BY <1>1, <1>2, <2>1, <2>2, <2>3, <2>4, MovedStep
<1>3. CASE bound' = bound /\ Go(c, IF task[c].kind = "archive" THEN "restoring" ELSE "error")
  <2> DEFINE ph == IF task[c].kind = "archive" THEN "restoring" ELSE "error"
  <2>1. ph \in Phases /\ ph \notin {"forking", "replacing", "switching"}
    BY DEF Phases, Returned, Leaving
  <2> HIDE DEF ph
  <2>2. Moves(c, ph)
    BY <1>3, <2>1, RestKept, GoMoves DEF ph
  <2> QED
    BY <1>1, <1>3, <2>1, <2>2, SameStore, CalmStep
<1> QED
  BY <1>2, <1>3 DEF SwitchThread

-----------------------------------------------------------------------------
(* The other steps.                                                        *)

\* What a load, a bootstrap, a turn or a delete does to the history: nothing.
LEMMA CalmCallsHistory ==
  ASSUME SessionsInv, HistoryInv, NEW c \in Calls,
         \/ BootstrapFails(c) \/ StartThread(c) \/ ResumeThread(c) \/ DiscoverPath(c)
         \/ DeleteThread(c) \/ RemoveSession(c) \/ ForkFails(c) \/ RunTurn(c)
         \/ Resolve(c) \/ Pick(c) \/ Unarchive(c) \/ \E t \in Threads : ForkLost(c, t)
  PROVE  HistoryInv'
<1> DEFINE Calm == Phases \ {"forking", "replacing", "switching"}
<1>0. TaskTyped /\ Returned \subseteq Calm
  BY RestKept DEF Phases, Returned
<1>1. CASE BootstrapFails(c)
  <2>1. Moves(c, "error") /\ Busy(c)
    BY <1>0, <1>1, GoMoves DEF BootstrapFails, Phases, Returned, Busy, Bootstrapping
  <2> QED
    BY <1>1, <2>1, SameStore, CalmStep DEF BootstrapFails, storeVars, instanceVars
<1>2. CASE StartThread(c)
  <2>1. PICK ph \in {"registering", "error"} : Moves(c, ph)
    BY <1>0, <1>2, GoMoves, NextMoves, ThreadRange DEF StartThread, Phases, Bootstrapping, Returned
  <2>2. Busy(c) /\ bound' = bound /\ WrittenStays
    BY <1>2, SameStore, StoreStays DEF StartThread, Phase, Busy, Returned, instanceVars
  <2> QED
    BY <2>1, <2>2, CalmStep
<1>3. CASE ResumeThread(c)
  <2>1. PICK ph \in {"registering", "resuming", "discovering"} : Moves(c, ph)
    <3>1. Resumes(c) \in 0..MaxThreads
      BY <1>0 DEF Resumes, TaskTyped, TaskRecords
    <3> QED
      BY <1>0, <1>3, <3>1, GoMoves, NextMoves, TriesMoves, SessionsAssumption
      DEF ResumeThread, Phase, Phases, Bootstrapping
  <2>2. Busy(c) /\ bound' = bound /\ WrittenStays
    BY <1>3, SameStore DEF ResumeThread, Phase, Busy, Returned, storeVars, instanceVars
  <2> QED
    BY <2>1, <2>2, CalmStep
<1>4. CASE DiscoverPath(c)
  <2>1. PICK ph \in {"registering", "starting", "error"} : Moves(c, ph)
    <3>1. Resumes(c) \in 0..MaxThreads
      BY <1>0 DEF Resumes, TaskTyped, TaskRecords
    <3> QED
      BY <1>0, <1>4, <3>1, GoMoves, NextMoves
      DEF DiscoverPath, OnRestoreFailure, Phases, Bootstrapping, Returned
  <2>2. Busy(c) /\ bound' = bound /\ WrittenStays
    BY <1>4, SameStore DEF DiscoverPath, Phase, Busy, Returned, storeVars, instanceVars
  <2> QED
    BY <2>1, <2>2, CalmStep
<1>5. CASE DeleteThread(c)
  <2>1. PICK ph \in {"ok", "removing", "error"} : Moves(c, ph)
    BY <1>0, <1>5, GoMoves DEF DeleteThread, Phases, Returned
  <2>2. Busy(c) /\ bound' = bound /\ WrittenStays
    BY <1>5, SameStore, StoreStays DEF DeleteThread, Phase, Busy, Returned, instanceVars
  <2> QED
    BY <2>1, <2>2, CalmStep
<1>6. CASE RemoveSession(c)
  <2>1. Moves(c, "ok") /\ Busy(c)
    BY <1>0, <1>6, GoMoves DEF RemoveSession, Phases, Phase, Busy, Returned
  <2> QED
    BY <1>6, <2>1, SameStore, CalmStep DEF RemoveSession, storeVars, instanceVars
<1>7. CASE ForkFails(c)
  <2>1. PICK ph \in Returned : Moves(c, ph)
    BY <1>0, <1>7, GoMoves DEF ForkFails, Phases, Returned
  <2>2. Busy(c) /\ bound' = bound /\ WrittenStays
    BY <1>7, SameStore DEF ForkFails, Phase, Busy, Returned, storeVars, instanceVars
  <2> QED
    BY <2>1, <2>2, CalmStep DEF Returned
<1>8. CASE RunTurn(c)
  <2>1. PICK ph \in Returned : Moves(c, ph)
    BY <1>0, <1>8, GoMoves DEF RunTurn, Answered, Phases, Returned
  <2>2. Busy(c) /\ bound' = bound /\ WrittenStays
    BY <1>8, SameStore, StoreStays DEF RunTurn, Phase, Busy, Returned, instanceVars
  <2> QED
    BY <2>1, <2>2, CalmStep DEF Returned
<1>9. ASSUME NEW t \in Threads
      PROVE  Chosen(c, t) \in {"restoring", "retiring", "archiving"} \cap Phases
  BY DEF Chosen, Phases, Leaving
<1>10. CASE Resolve(c)
  <2>1. PICK ph \in Calm : Moves(c, ph)
    <3>1. ASSUME NEW ph \in Returned, Go(c, ph) PROVE Moves(c, ph)
      BY <1>0, <3>1, GoMoves DEF Phases
    <3>2. ASSUME NEW t \in Threads,
                 task' = [task EXCEPT ![c].thread = t, ![c].phase = Chosen(c, t)]
          PROVE  Moves(c, Chosen(c, t))
      BY <1>0, <1>9, <3>2, ThreadMoves, ThreadRange
    <3>3. ASSUME NEW found \in SUBSET Threads,
                 task' = [task EXCEPT ![c].shown = found, ![c].phase = "picking"]
          PROVE  Moves(c, "picking")
      BY <1>0, <3>3, ShownMoves DEF Phases
    <3>4. Candidates(c) \subseteq SUBSET Threads
      BY DEF Candidates, Listed
    <3>5. "picking" \in Calm
      BY DEF Phases
    <3> QED
      BY <1>0, <1>9, <1>10, <3>1, <3>2, <3>3, <3>4, <3>5 DEF Resolve, Returned
  <2>2. Busy(c) /\ bound' = bound /\ WrittenStays
    BY <1>10, SameStore DEF Resolve, Phase, Busy, Returned, storeVars
  <2> QED
    BY <2>1, <2>2, CalmStep
<1>11. CASE Pick(c)
  <2>1. PICK ph \in Calm : Moves(c, ph)
    <3>1. ASSUME NEW r \in Returned, task' = [task EXCEPT ![c].phase = r, ![c].shown = {}]
          PROVE  Moves(c, r)
      BY <1>0, <3>1, CloseMoves DEF Phases
    <3>2. ASSUME NEW t \in Threads,
                 task' = [task EXCEPT ![c].thread = t, ![c].phase = Chosen(c, t), ![c].shown = {}]
          PROVE  Moves(c, Chosen(c, t))
      BY <1>0, <1>9, <3>2, ShownPickMoves, ThreadRange
    <3>3. task[c].shown \subseteq Threads
      BY <1>0 DEF TaskTyped, TaskRecords
    <3> QED
      BY <1>0, <1>9, <1>11, <3>1, <3>2, <3>3 DEF Pick
  <2>2. Busy(c) /\ bound' = bound /\ WrittenStays
    BY <1>11, SameStore DEF Pick, Phase, Busy, Returned, storeVars
  <2> QED
    BY <2>1, <2>2, CalmStep
<1>12. CASE Unarchive(c)
  <2>1. PICK ph \in Returned : Moves(c, ph)
    BY <1>0, <1>12, GoMoves DEF Unarchive, Answered, Phases, Returned
  <2>2. Busy(c) /\ bound' = bound /\ WrittenStays
    BY <1>12, SameStore, StoreStays DEF Unarchive, Phase, Busy, Returned
  <2> QED
    BY <2>1, <2>2, CalmStep DEF Returned
<1>13. CASE \E t \in Threads : ForkLost(c, t)
  <2>1. PICK t \in Threads : ForkLost(c, t)
    BY <1>13
  <2>2. Moves(c, "error")
    BY <1>0, <2>1, GoMoves DEF ForkLost, Phases, Returned
  <2>3. Busy(c) /\ bound' = bound /\ WrittenStays
    BY <2>1, StoreStays DEF ForkLost, Phase, Busy, Returned, instanceVars
  <2> QED
    BY <2>2, <2>3, CalmStep
<1> QED
  BY <1>1, <1>2, <1>3, <1>4, <1>5, <1>6, <1>7, <1>8, <1>10, <1>11, <1>12, <1>13

\* A new call is not yet on its way to another thread.
LEMMA ClientCallsHistory ==
  ASSUME SessionsInv, HistoryInv, NEW c \in Calls, ClientCalls(c)
  PROVE  HistoryInv'
<1>1. ASSUME NEW kind, NEW s, NEW i, NEW ph, Request(c, kind, s, i, ph),
             ph = "forking" => kind # "switch", ph \notin {"replacing", "switching"},
             bound' = bound, store' = store
      PROVE  HistoryInv'
  <2> DEFINE r == [NoTask EXCEPT !.kind = kind, !.session = s, !.inst = i, !.phase = ph]
  <2>1. task[c].phase = "idle" /\ task' = [task EXCEPT ![c] = r]
    BY <1>1 DEF Request, Phase
  <2>2. r.kind = kind /\ r.phase = ph
    BY NoTaskTyped DEF TaskRecords
  <2> HIDE DEF r
  <2>3. Acts(c) /\ task'[c] = r
    BY <2>1, RestKept DEF Acts, Returned, TaskTyped
  <2>4. LeavesAt(c)'
    BY <1>1, <2>2, <2>3 DEF LeavesAt
  <2> QED
    BY <1>1, <2>3, <2>4, SameStore, HistoryStep
<1>2. UNCHANGED <<bound, store>>
  BY DEF ClientCalls, NewSession, LoadSession, CloseSession, DeleteSession, ForkSession, Prompt,
         storeVars, instanceVars
<1>3. CASE NewSession(c)
  BY <1>1, <1>2, <1>3 DEF NewSession
<1>4. CASE \E s \in Threads : LoadSession(c, s) \/ CloseSession(c, s)
  BY <1>1, <1>2, <1>4 DEF LoadSession, CloseSession
<1>5. CASE \E s \in Threads : DeleteSession(c, s)
  <2>1. PICK s \in Threads : DeleteSession(c, s)
    BY <1>5
  <2>2. PICK ph \in {"deleting", "reading"} : Request(c, "delete", s, sessions[s], ph)
    BY <2>1 DEF DeleteSession
  <2> QED
    BY <1>1, <1>2, <2>2
<1>6. CASE \E s \in Threads : ForkSession(c, s)
  <2>1. PICK s \in Threads : ForkSession(c, s)
    BY <1>6
  <2>2. PICK ph \in {"error", "forking"} : Request(c, "fork", s, sessions[s], ph)
    BY <2>1 DEF ForkSession
  <2> QED
    BY <1>1, <1>2, <2>2
<1>7. CASE \E s \in Threads : \E kind \in PromptKinds : Prompt(c, s, kind)
  <2>1. PICK s \in Threads, kind \in PromptKinds : Prompt(c, s, kind)
    BY <1>7
  <2> DEFINE ph == IF sessions[s] = 0 THEN "error"
                   ELSE CASE kind = "turn" -> "driving"
                          [] kind = "switch" -> "reading"
                          [] OTHER -> "resolving"
  <2>2. ph \in {"error", "driving", "reading", "resolving"}
    OBVIOUS
  <2>3. Request(c, kind, s, sessions[s], ph)
    BY <2>1 DEF Prompt
  <2> HIDE DEF ph
  <2> QED
    BY <1>1, <1>2, <2>2, <2>3
<1> QED
  BY <1>3, <1>4, <1>5, <1>6, <1>7 DEF ClientCalls

\* The threads outlive the processes.
LEMMA ProcessDiesHistory ==
  ASSUME HistoryInv, NEW i \in Calls, ProcessDies(i)
  PROVE  HistoryInv'
<1>1. UNCHANGED <<store, bound, task>>
  BY DEF ProcessDies, storeVars
<1> QED
  BY <1>1 DEF HistoryInv, OnlyInstances, IsInstance, LeavesBehind, LeavesAt, Inst, Written

-----------------------------------------------------------------------------
(* The theorem.                                                            *)

\* Every step keeps what a session may leave behind on disk.
LEMMA HistoryKept == SessionsInv /\ HistoryInv /\ [Next]_vars => HistoryInv'
<1> SUFFICES ASSUME SessionsInv, HistoryInv, [Next]_vars PROVE HistoryInv'
  OBVIOUS
<1>1. CASE UNCHANGED vars
  BY <1>1 DEF vars, storeVars, instanceVars, HistoryInv, OnlyInstances, IsInstance, LeavesBehind,
              LeavesAt, Inst, Written
<1>2. ASSUME NEW c \in Calls, Continue(c) \/ Pick(c) \/ BootstrapFails(c)
      PROVE  HistoryInv'
  BY <1>2, CalmCallsHistory, ReadThreadHistory, ForkThreadHistory, ArchiveThreadHistory,
     StartReplacementHistory, RegisterSessionHistory, SwitchThreadHistory DEF Continue
<1> QED
  BY <1>1, <1>2, ClientCallsHistory, ProcessDiesHistory DEF Next

\* Only the registration of an instance and a switch move one.
LEMMA Movers ==
  ASSUME SessionsInv, HistoryInv, [Next]_vars, NEW i \in Calls, bound[i] # 0, bound'[i] # bound[i]
  PROVE  Written(bound[i])
<1>1. PICK c \in Calls : RegisterSession(c) \/ SwitchThread(c)
  <2>1. ASSUME NEW c \in Calls, ClientCalls(c) PROVE bound' = bound
    BY <2>1 DEF ClientCalls, NewSession, LoadSession, CloseSession, DeleteSession, ForkSession,
                Prompt, instanceVars
  <2>2. ASSUME NEW c \in Calls,
               \/ StartThread(c) \/ ResumeThread(c) \/ DiscoverPath(c) \/ ReadThread(c)
               \/ DeleteThread(c) \/ RemoveSession(c) \/ (\E t \in Threads : ForkThread(c, t))
               \/ (\E t \in Threads : ForkLost(c, t))
        PROVE  bound' = bound
    BY <2>2 DEF StartThread, ResumeThread, DiscoverPath, ReadThread, DeleteThread, RemoveSession,
                ForkThread, ForkLost, instanceVars
  <2>3. ASSUME NEW c \in Calls,
               \/ ForkFails(c) \/ RunTurn(c) \/ Resolve(c) \/ ArchiveThread(c)
               \/ StartReplacement(c) \/ Unarchive(c) \/ Pick(c) \/ BootstrapFails(c)
        PROVE  bound' = bound
    BY <2>3 DEF ForkFails, RunTurn, Resolve, ArchiveThread, StartReplacement, Unarchive, Pick,
                BootstrapFails, instanceVars
  <2>4. (\E k \in Calls : ProcessDies(k)) \/ UNCHANGED vars => bound' = bound
    BY DEF ProcessDies, vars, instanceVars
  <2> QED
    BY <2>1, <2>2, <2>3, <2>4 DEF Next, Continue
<1>2. bound \in [Calls -> 0..MaxThreads]
  BY TypesSplit DEF SessionsInv, RestTyped
<1>3. CASE RegisterSession(c)
  <2>1. i = c
    BY <1>2, <1>3 DEF RegisterSession
  <2> QED
    BY <1>3, <2>1 DEF HistoryInv, OnlyInstances, IsInstance, RegisterSession, Phase
<1>4. CASE SwitchThread(c)
  <2>1. i = Inst(c) /\ task[c].phase = "switching"
    BY <1>2, <1>4 DEF SwitchThread, Phase
  <2> QED
    BY <2>1 DEF HistoryInv, LeavesBehind, LeavesAt
<1> QED
  BY <1>1, <1>3, <1>4

\* What /fork and the replacement of /archive leave behind is on disk or was
\* deleted (handle_fork_command_ext, start_replacement_thread_ext and
\* apply_thread_switch_ext, controls.rs): no conversation is lost.
THEOREM SwitchesKeepHistory == Spec => SwitchKeepsHistory
<1>1. Init => HistoryInv
  BY DEF Init, NoTask, HistoryInv, OnlyInstances, LeavesBehind, LeavesAt
<1>2. SessionsInv /\ HistoryInv /\ [Next]_vars
        => [\A i \in Calls : bound[i] # 0 /\ bound'[i] # bound[i]
              => store[bound[i]] \in {"active", "archived", "deleted"}]_vars
  BY Movers DEF Written
<1> QED
  BY <1>1, <1>2, HistoryKept, Invariant, PTL DEF Spec, SwitchKeepsHistory

-----------------------------------------------------------------------------
(* NoGhostSession.                                                         *)

\* The threads a call has to do with: a delete also with the one it read.
Named(c) ==
  {task[c].session, task[c].next} \cup (IF task[c].kind = "delete" THEN {task[c].thread} ELSE {})

\* A thread not yet started has to do with nothing, and what was deleted
\* stays so.
UnusedUnnamed ==
  /\ \A i \in Calls : \A t \in Threads : bound[i] = t => store[t] # "unused"
  /\ \A c \in Calls : \A t \in Threads : t \in Named(c) => store[t] # "unused"
DeletedStays == \A t \in Threads : deletedVia[t] # 0 => store[t] = "deleted"

\* The thread of session/new is known to its call only, until it is registered.
NewPrivateAt(c) ==
  task[c].kind = "new" /\ task[c].phase = "registering" =>
    /\ task[c].next \in Threads /\ store[task[c].next] = "unwritten"
    /\ \A i \in Calls : bound[i] # task[c].next
    /\ \A d \in Calls \ {c} : task[c].next \notin Named(d)

\* Only a load and a fork look for a thread, only a delete deletes one.
Finding == {"resuming", "discovering"}
FindingAt(c) ==
  /\ task[c].phase \in Finding => task[c].kind \in {"load", "fork"}
  /\ task[c].phase \in {"deleting", "removing"} => task[c].kind = "delete"

\* A load or a fork overlaps no delete of the session it opens, if it is not
\* among those that raced with one; so what it registers is not deleted by it.
Deleting(d) == task[d].kind = "delete" /\ task[d].phase \notin Returned
Opening(c) == task[c].kind \in {"load", "fork"} /\ task[c].phase \in Bootstrapping /\ c \notin raced
OverlapAt(c) == Opening(c) => \A d \in Calls : Deleting(d) => task[d].session # Home(c)
IntactAt(c) ==
  Opening(c) /\ task[c].phase = "registering" =>
    \A t \in Threads : t = task[c].next => deletedVia[t] = 0 \/ deletedVia[t] # Home(c)

\* Who deletes the thread a command moves to does so as a session of its own:
\* nobody is on that thread but who loaded it by its id.
SwitchAt(c) ==
  task[c].phase = "switching" =>
    \A f \in Threads : f = task[c].next =>
      /\ \A j \in Calls : bound[j] = f => Home(j) = f
      /\ \A d \in Calls : task[d].kind = "delete" /\ task[d].thread = f => task[d].session = f
      /\ deletedVia[f] \in {0, f}
      /\ task[c].session # f
      /\ \A d \in Calls \ {c} : task[d].next = f => task[d].kind = "load" /\ task[d].session = f

\* A delete works on an instance of its session, or the session had none: it
\* has got one only from a call that raced with the delete.
DeleteAt(d) ==
  task[d].kind = "delete" =>
    /\ task[d].inst # 0 => IsInstance(task[d].inst) /\ Home(task[d].inst) = task[d].session
    /\ task[d].inst = 0 /\ task[d].phase = "deleting" =>
         \A s \in Threads : s = task[d].session /\ sessions[s] # 0 => sessions[s] \in raced

DeletesApart ==
  \A c \in Calls : NewPrivateAt(c) /\ FindingAt(c) /\ OverlapAt(c) /\ IntactAt(c) /\ SwitchAt(c) /\ DeleteAt(c)

GhostInv == UnusedUnnamed /\ DeletedStays /\ DeletesApart /\ NoGhostSession

-----------------------------------------------------------------------------
(* What the steps of a running call do to what it is about.                *)

\* The step starts a thread for the call.
StartsFor(c, t) == store[t] = "unused" /\ store'[t] # "unused" /\ task'[c].next = t

\* The thread a step makes the call's next is its own already, or new.
NextStep(c) ==
  \/ task'[c].next = task[c].next
  \/ task[c].kind \in {"load", "fork"} /\ task'[c].next = Home(c)
  \/ \E t \in Threads : StartsFor(c, t)

\* Threads the step touches.
StoreTouched(c) ==
  \A t \in Threads : store'[t] # store[t] =>
    /\ store'[t] # "unused" /\ store[t] # "deleted"
    /\ store[t] = "unwritten" => t \in Named(c) \/ \E i \in Calls : bound[i] = t

\* A delete that succeeds leaves its mark on the thread.
DeletedBy(c) ==
  \A t \in Threads :
    \/ deletedVia'[t] = deletedVia[t]
    \/ Deleting(c) /\ t = DeletesThread(c) /\ deletedVia'[t] = task[c].session /\ store'[t] = "deleted"

\* An instance gets to the call's next thread by a registration or a switch.
Moved(c) ==
  /\ \A i \in Calls : bound'[i] # bound[i] =>
       /\ bound'[i] = task[c].next
       /\ \/ i = c /\ task[c].phase = "registering" /\ task'[c].next = task[c].next
          \/ task[c].phase = "switching"
  /\ \A s \in Threads : sessions'[s] \notin {0, sessions[s]} =>
       sessions'[s] = c /\ s = Home(c) /\ task[c].phase = "registering"

\* What a call has done before it enters a phase.
Entered(c, ph) ==
  /\ ph \in Bootstrapping =>
       \/ task[c].phase \in Bootstrapping
       \/ task[c].kind = "fork" /\ \E t \in Threads : StartsFor(c, t)
  /\ ph \in Finding => task[c].phase \in Finding \/ task[c].kind = "fork"
  /\ ph = "registering" =>
       /\ \A t \in Threads : t = task'[c].next => store'[t] # "deleted"
       /\ task[c].kind = "new" => \E t \in Threads : StartsFor(c, t) /\ store'[t] = "unwritten"
  /\ ph = "switching" => \E t \in Threads : StartsFor(c, t)
  /\ ph = "deleting" => task[c].inst # 0
  /\ ph \in {"deleting", "removing"} => task[c].kind = "delete"
  /\ ph \in Bootstrapping \cup {"switching"} => bound' = bound

GhostStep(c, ph) ==
  /\ Moves(c, ph) /\ Busy(c)
  /\ NextStep(c)
  /\ task[c].kind = "delete" =>
       \/ task'[c].thread = task[c].thread
       \/ \E i \in Calls : i = task[c].inst /\ task'[c].thread = bound[i]
  /\ StoreTouched(c) /\ DeletedBy(c) /\ Moved(c) /\ Entered(c, ph)
  /\ raced' = raced

\* A thread the call names next it has named before, or started, or read from
\* an instance.
LEMMA NamedNext ==
  ASSUME NEW c \in Calls, NEW ph, GhostStep(c, ph), NEW t \in Threads, t \in Named(c)'
  PROVE  \/ t \in Named(c)
         \/ StartsFor(c, t)
         \/ \E i \in Calls : bound[i] = t
<1>1. task'[c].session = task[c].session /\ task'[c].kind = task[c].kind
  BY DEF GhostStep, Moves
<1>2. CASE t = task'[c].session
  BY <1>1, <1>2 DEF Named
<1>3. CASE t = task'[c].next
  <2>1. Home(c) \in {task[c].session, task[c].next}
    BY DEF Home
  <2> QED
    BY <1>3, <2>1 DEF GhostStep, NextStep, Named, StartsFor
<1>4. CASE task[c].kind = "delete" /\ t = task'[c].thread
  BY <1>4 DEF GhostStep, Named
<1> QED
  BY <1>1, <1>2, <1>3, <1>4 DEF Named

\* What a step names is in use after it.
LEMMA UnusedUnnamedKept ==
  ASSUME UnusedUnnamed, NEW c \in Calls, NEW ph, GhostStep(c, ph)
  PROVE  UnusedUnnamed'
<1>1. \A t \in Threads : store[t] # "unused" => store'[t] # "unused"
  BY DEF GhostStep, StoreTouched
<1>2. ASSUME NEW t \in Threads, NEW d \in Calls, t \in Named(d)' PROVE store'[t] # "unused"
  <2>1. CASE d = c
    BY <1>1, <1>2, <2>1, NamedNext DEF UnusedUnnamed, StartsFor
  <2>2. CASE d # c
    <3>1. task'[d] = task[d]
      BY <2>2 DEF GhostStep, Moves
    <3> QED
      BY <1>1, <1>2, <3>1 DEF UnusedUnnamed, Named
  <2> QED
    BY <2>1, <2>2
<1>3. ASSUME NEW t \in Threads, NEW i \in Calls, bound'[i] = t PROVE store'[t] # "unused"
  <2>1. bound[i] = t \/ t \in Named(c)
    BY <1>3 DEF GhostStep, Moved, Named
  <2> QED
    BY <1>1, <2>1 DEF UnusedUnnamed
<1> QED
  BY <1>2, <1>3 DEF UnusedUnnamed

\* A deleted thread keeps its mark and stays deleted.
LEMMA DeletedStaysKept ==
  ASSUME DeletedStays, NEW c \in Calls, NEW ph, GhostStep(c, ph)
  PROVE  DeletedStays'
<1>1. ASSUME NEW t \in Threads, deletedVia'[t] # 0 PROVE store'[t] = "deleted"
  <2>1. deletedVia'[t] = deletedVia[t] \/ store'[t] = "deleted"
    BY DEF GhostStep, DeletedBy
  <2>2. store[t] = "deleted" => store'[t] = "deleted"
    BY DEF GhostStep, StoreTouched
  <2> QED
    BY <1>1, <2>1, <2>2 DEF DeletedStays
<1> QED
  BY <1>1 DEF DeletedStays

\* Other calls keep what they are about.
LEMMA OthersNamed ==
  ASSUME NEW c \in Calls, NEW ph, Moves(c, ph), NEW d \in Calls, d # c
  PROVE  /\ task'[d] = task[d] /\ Named(d)' = Named(d) /\ Home(d)' = Home(d)
         /\ Deleting(d)' <=> Deleting(d)
  BY DEF Moves, Named, Home, Deleting

\* The thread of session/new stays its own.
LEMMA NewPrivateKept ==
  ASSUME UnusedUnnamed, NEW c \in Calls, NEW ph, GhostStep(c, ph), NEW d \in Calls,
         NewPrivateAt(d)
  PROVE  NewPrivateAt(d)'
<1> SUFFICES ASSUME task'[d].kind = "new", task'[d].phase = "registering"
             PROVE  /\ task'[d].next \in Threads /\ store'[task'[d].next] = "unwritten"
                    /\ \A i \in Calls : bound'[i] # task'[d].next
                    /\ \A e \in Calls \ {d} : task'[d].next \notin Named(e)'
  BY DEF NewPrivateAt
<1>0. Moves(c, ph)
  BY DEF GhostStep
<1>1. CASE d = c
  <2>1. ph = "registering" /\ task[c].kind = "new"
    BY <1>0, <1>1 DEF Moves
  <2>2. PICK t \in Threads : StartsFor(c, t) /\ store'[t] = "unwritten"
    BY <2>1 DEF GhostStep, Entered
  <2>3. \A i \in Calls : bound'[i] # t
    BY <2>1, <2>2 DEF GhostStep, Entered, Bootstrapping, UnusedUnnamed, StartsFor
  <2>4. ASSUME NEW e \in Calls, e # c PROVE t \notin Named(e)'
    BY <1>0, <2>2, <2>4, OthersNamed DEF UnusedUnnamed, StartsFor
  <2> QED
    BY <1>1, <2>2, <2>3, <2>4 DEF StartsFor
<1>2. CASE d # c
  <2>1. task'[d] = task[d]
    BY <1>0, <1>2, OthersNamed
  <2>2. PICK f \in Threads : f = task[d].next
    BY <2>1 DEF NewPrivateAt
  <2>3. /\ store[f] = "unwritten" /\ f \notin Named(c)
        /\ \A i \in Calls : bound[i] # f
        /\ \A e \in Calls \ {d} : f \notin Named(e)
    BY <1>2, <2>1, <2>2 DEF NewPrivateAt
  <2>4. store'[f] = "unwritten"
    BY <2>3 DEF GhostStep, StoreTouched
  <2>5. \A i \in Calls : bound'[i] # f
    BY <2>3 DEF GhostStep, Moved, Named
  <2>6. f \notin Named(c)'
    BY <2>3, NamedNext DEF StartsFor
  <2>7. ASSUME NEW e \in Calls \ {d} PROVE f \notin Named(e)'
    BY <1>0, <2>3, <2>6, OthersNamed
  <2> QED
    BY <2>1, <2>2, <2>4, <2>5, <2>7
<1> QED
  BY <1>1, <1>2

\* The calls stay of their kinds.
LEMMA FindingKept ==
  ASSUME NEW c \in Calls, NEW ph, GhostStep(c, ph), NEW d \in Calls, FindingAt(d)
  PROVE  FindingAt(d)'
<1>0. Moves(c, ph)
  BY DEF GhostStep
<1>1. CASE d = c
  BY <1>0, <1>1 DEF Moves, GhostStep, Entered, FindingAt
<1>2. CASE d # c
  BY <1>0, <1>2, OthersNamed DEF FindingAt
<1> QED
  BY <1>1, <1>2

\* Running calls bring no load and no delete of one session together.
LEMMA OverlapKept ==
  ASSUME UnusedUnnamed, NEW c \in Calls, NEW ph, GhostStep(c, ph), NEW d \in Calls,
         OverlapAt(d)
  PROVE  OverlapAt(d)'
<1>0. Moves(c, ph) /\ Busy(c) /\ raced' = raced
  BY DEF GhostStep
<1> SUFFICES ASSUME Opening(d)', NEW e \in Calls, Deleting(e)'
             PROVE  task'[e].session # Home(d)'
  BY DEF OverlapAt
<1>1. Deleting(e) /\ task'[e].session = task[e].session
  <2>1. CASE e = c
    BY <1>0, <2>1 DEF Moves, Deleting, Busy
  <2>2. CASE e # c
    BY <1>0, <2>2, OthersNamed
  <2> QED
    BY <2>1, <2>2
<1>2. CASE d # c
  BY <1>0, <1>1, <1>2, OthersNamed DEF OverlapAt, Opening
<1>3. CASE d = c
  <2>0. /\ task[c].kind \in {"load", "fork"} /\ task'[c].kind = task[c].kind
        /\ task'[c].session = task[c].session
        /\ ph \in Bootstrapping /\ c \notin raced
    BY <1>0, <1>3 DEF Moves, Opening
  <2>1. CASE \E t \in Threads : StartsFor(c, t)
    <3>1. PICK t \in Threads : StartsFor(c, t)
      BY <2>1
    <3>2. task[e].session # t
      BY <3>1 DEF StartsFor, UnusedUnnamed, Named
    <3>3. CASE task[c].kind = "fork"
      BY <1>1, <1>3, <2>0, <3>1, <3>2, <3>3 DEF Home, StartsFor
    <3>4. CASE task[c].kind = "load"
      <4>1. Opening(c)
        BY <2>0, <3>4 DEF GhostStep, Entered, Opening
      <4> QED
        BY <1>1, <1>3, <2>0, <3>4, <4>1 DEF Home, OverlapAt
    <3> QED
      BY <2>0, <3>3, <3>4
  <2>2. CASE ~ \E t \in Threads : StartsFor(c, t)
    <3>1. Opening(c)
      BY <2>0, <2>2 DEF GhostStep, Entered, Opening
    <3>2. Home(c)' = Home(c)
      BY <2>0, <2>2 DEF Home, GhostStep, NextStep
    <3> QED
      BY <1>1, <1>3, <3>1, <3>2 DEF OverlapAt
  <2> QED
    BY <2>1, <2>2
<1> QED
  BY <1>2, <1>3

\* No delete that may run deletes what a load or a fork is to register.
LEMMA IntactKept ==
  ASSUME DeletedStays', NEW c \in Calls, NEW ph, GhostStep(c, ph), NEW d \in Calls,
         IntactAt(d), OverlapAt(d)
  PROVE  IntactAt(d)'
<1>0. Moves(c, ph) /\ raced' = raced
  BY DEF GhostStep
<1> SUFFICES ASSUME Opening(d)', task'[d].phase = "registering",
                    NEW t \in Threads, t = task'[d].next, deletedVia'[t] # 0
             PROVE  deletedVia'[t] # Home(d)'
  BY DEF IntactAt
<1>1. CASE d = c
  BY <1>0, <1>1 DEF GhostStep, Moves, Entered, DeletedStays
<1>2. CASE d # c
  <2>1. task'[d] = task[d] /\ Home(d)' = Home(d) /\ Opening(d)
    BY <1>0, <1>2, OthersNamed DEF Opening
  <2>2. CASE deletedVia'[t] = deletedVia[t]
    BY <2>1, <2>2 DEF IntactAt
  <2>3. CASE Deleting(c) /\ deletedVia'[t] = task[c].session
    BY <2>1, <2>3 DEF OverlapAt
  <2> QED
    BY <2>2, <2>3 DEF GhostStep, DeletedBy
<1> QED
  BY <1>1, <1>2

\* A thread just started for a command: nobody else has to do with it.
LEMMA NewSwitch ==
  ASSUME SessionsInv, SessionsInv', UnusedUnnamed, DeletedStays, NEW c \in Calls,
         GhostStep(c, "switching")
  PROVE  SwitchAt(c)'
<1>1. PICK f \in Threads : StartsFor(c, f)
  BY DEF GhostStep, Entered
<1>2. Moves(c, "switching") /\ task'[c].kind \in {"archive", "switch"} /\ bound' = bound
  BY DEF GhostStep, Entered, Moves, SessionsInv, Relations, Shape, ShapeAt
<1>3. /\ \A j \in Calls : bound[j] # f
      /\ \A d \in Calls : f \notin Named(d)
  BY <1>1 DEF UnusedUnnamed, StartsFor
<1>4. \A d \in Calls : task'[d].kind = "delete" => task'[d].thread # f
  <2> SUFFICES ASSUME NEW d \in Calls, task'[d].kind = "delete" PROVE task'[d].thread # f
    OBVIOUS
  <2>1. d # c
    BY <1>2
  <2> QED
    BY <1>2, <1>3, <2>1, OthersNamed DEF Named
<1>5. deletedVia'[f] = 0
  <2>1. ~ Deleting(c)
    BY <1>2 DEF Moves, Deleting
  <2>2. deletedVia[f] = 0
    BY <1>1 DEF DeletedStays, StartsFor
  <2> QED
    BY <2>1, <2>2 DEF GhostStep, DeletedBy
<1>6. task'[c].session # f
  BY <1>2, <1>3 DEF Moves, Named
<1>7. \A d \in Calls \ {c} : task'[d].next # f
  BY <1>2, <1>3, OthersNamed DEF Named
<1> QED
  BY <1>1, <1>2, <1>3, <1>4, <1>5, <1>6, <1>7 DEF SwitchAt, StartsFor

\* Nobody else gets to the thread a command is moving to, but a load of it.
LEMMA SwitchKept ==
  ASSUME SessionsInv, SessionsInv', HistoryInv, UnusedUnnamed, DeletedStays,
         NEW c \in Calls, NEW ph, GhostStep(c, ph), NEW d \in Calls, SwitchAt(d), DeleteAt(c)
  PROVE  SwitchAt(d)'
<1>0. Moves(c, ph) /\ Busy(c)
  BY DEF GhostStep
<1>1. CASE d = c /\ task'[d].phase = "switching"
  <2>1. ph = "switching"
    BY <1>0, <1>1 DEF Moves
  <2> QED
    BY <1>1, <2>1, NewSwitch
<1>2. CASE d # c /\ task'[d].phase = "switching"
  <2>0. task'[d] = task[d]
    BY <1>0, <1>2, OthersNamed
  <2> SUFFICES ASSUME NEW f \in Threads, f = task[d].next
      PROVE  /\ \A j \in Calls : bound'[j] = f => Home(j)' = f
             /\ \A e \in Calls : task'[e].kind = "delete" /\ task'[e].thread = f => task'[e].session = f
             /\ deletedVia'[f] \in {0, f}
             /\ task'[d].session # f
             /\ \A e \in Calls \ {d} : task'[e].next = f => task'[e].kind = "load" /\ task'[e].session = f
    BY <2>0 DEF SwitchAt
  <2>1. /\ \A j \in Calls : bound[j] = f => Home(j) = f
        /\ \A e \in Calls : task[e].kind = "delete" /\ task[e].thread = f => task[e].session = f
        /\ deletedVia[f] \in {0, f} /\ task[d].session # f
        /\ \A e \in Calls \ {d} : task[e].next = f => task[e].kind = "load" /\ task[e].session = f
    BY <1>2, <2>0 DEF SwitchAt
  <2>2. f # 0 /\ store[f] # "unused"
    <3>1. f \in Named(d)
      BY DEF Named
    <3> QED
      BY <3>1, SessionsAssumption DEF UnusedUnnamed, Threads
  <2>3. task[c].next = f => task[c].kind = "load" /\ task[c].session = f
    BY <1>2, <2>1
  <2>4. /\ task'[c].kind = task[c].kind /\ task'[c].session = task[c].session
        /\ \A e \in Calls : e # c => task'[e] = task[e]
    BY <1>0 DEF Moves
  <2>5. ASSUME NEW j \in Calls, bound'[j] = f PROVE Home(j)' = f
    <3>1. CASE bound'[j] = bound[j]
      <4>1. IsInstance(j)
        BY <2>2, <2>5, <3>1 DEF HistoryInv, OnlyInstances
      <4> QED
        BY <1>0, <2>1, <2>5, <3>1, <4>1, InstanceStable
    <3>2. CASE bound'[j] # bound[j]
      <4>1. task[c].kind = "load" /\ task[c].session = f
        BY <2>3, <2>5, <3>2 DEF GhostStep, Moved
      <4>2. task[c].phase # "switching"
        BY <4>1 DEF SessionsInv, Relations, Shape, ShapeAt
      <4>3. j = c
        BY <3>2, <4>2 DEF GhostStep, Moved
      <4> QED
        BY <2>4, <4>1, <4>3 DEF Home
    <3> QED
      BY <3>1, <3>2
  <2>6. ASSUME NEW e \in Calls, task'[e].kind = "delete", task'[e].thread = f PROVE task'[e].session = f
    <3>1. CASE e # c
      BY <2>1, <2>4, <2>6, <3>1
    <3>2. CASE e = c /\ task'[c].thread = task[c].thread
      BY <2>1, <2>4, <2>6, <3>2
    <3>3. CASE e = c /\ \E i \in Calls : i = task[c].inst /\ task'[c].thread = bound[i]
      <4>1. PICK i \in Calls : i = task[c].inst /\ bound[i] = f
        BY <2>6, <3>3
      <4>2. i # 0
        BY SessionsAssumption DEF Calls
      <4> QED
        BY <2>1, <2>4, <2>6, <3>3, <4>1, <4>2 DEF DeleteAt
    <3> QED
      BY <2>4, <2>6, <3>1, <3>2, <3>3 DEF GhostStep
  <2>7. deletedVia'[f] \in {0, f}
    <3>1. CASE deletedVia'[f] = deletedVia[f]
      BY <2>1, <3>1
    <3>2. CASE Deleting(c) /\ f = DeletesThread(c) /\ deletedVia'[f] = task[c].session
      BY <2>1, <3>2 DEF DeletesThread, Deleting
    <3> QED
      BY <3>1, <3>2 DEF GhostStep, DeletedBy
  <2>8. ASSUME NEW e \in Calls \ {d}, task'[e].next = f
        PROVE  task'[e].kind = "load" /\ task'[e].session = f
    <3>1. CASE e # c
      BY <2>1, <2>4, <2>8, <3>1
    <3>2. CASE e = c
      <4>1. ~ StartsFor(c, f)
        BY <2>2 DEF StartsFor
      <4>2. \/ task'[c].next = task[c].next
            \/ task[c].kind = "load" /\ f = task[c].session
            \/ task[c].kind # "load" /\ f = task[c].next
        <5>1. task'[c].next = task[c].next \/ task'[c].next = Home(c)
          BY <2>8, <3>2, <4>1 DEF GhostStep, NextStep, StartsFor
        <5> QED
          BY <2>8, <3>2, <5>1 DEF Home
      <4> QED
        BY <2>3, <2>4, <2>8, <3>2, <4>2
    <3> QED
      BY <3>1, <3>2
  <2> QED
    BY <2>0, <2>1, <2>5, <2>6, <2>7, <2>8
<1>3. CASE task'[d].phase # "switching"
  BY <1>3 DEF SwitchAt
<1> QED
  BY <1>1, <1>2, <1>3

\* A delete keeps its instance, and its session stays without one.
LEMMA DeleteKept ==
  ASSUME SessionsInv, NEW c \in Calls, NEW ph, GhostStep(c, ph), NEW d \in Calls,
         DeleteAt(d), OverlapAt(c), NewPrivateAt(c)
  PROVE  DeleteAt(d)'
<1>0. Moves(c, ph) /\ Busy(c) /\ raced' = raced
  BY DEF GhostStep
<1> SUFFICES ASSUME task'[d].kind = "delete"
             PROVE  /\ task'[d].inst # 0 =>
                         IsInstance(task[d].inst)' /\ Home(task[d].inst)' = task'[d].session
                    /\ task'[d].inst = 0 /\ task'[d].phase = "deleting" =>
                         \A s \in Threads : s = task'[d].session /\ sessions'[s] # 0 => sessions'[s] \in raced'
  BY DEF DeleteAt
<1>1. /\ task'[d].kind = task[d].kind /\ task'[d].inst = task[d].inst
      /\ task'[d].session = task[d].session
  BY <1>0 DEF Moves
<1>2. ASSUME task'[d].inst # 0
      PROVE  IsInstance(task[d].inst)' /\ Home(task[d].inst)' = task'[d].session
  <2>1. PICK i : i = task[d].inst
    OBVIOUS
  <2>2. IsInstance(i) /\ Home(i) = task[d].session
    BY <1>1, <1>2, <2>1 DEF DeleteAt
  <2>3. IsInstance(i)' /\ Home(i)' = Home(i)
    BY <1>0, <2>2, InstanceStable
  <2>4. task'[d].inst = i
    BY <1>1, <2>1
  <2> QED
    BY <1>1, <2>2, <2>3, <2>4 DEF IsInstance, Home
<1>3. ASSUME task'[d].inst = 0, task'[d].phase = "deleting",
             NEW s \in Threads, s = task'[d].session, sessions'[s] # 0
      PROVE  sessions'[s] \in raced'
  <2>1. task[d].phase = "deleting"
    BY <1>0, <1>1, <1>3 DEF Moves, GhostStep, Entered
  <2>2. CASE sessions'[s] = sessions[s]
    BY <1>0, <1>1, <1>3, <2>1, <2>2 DEF DeleteAt
  <2>3. CASE sessions'[s] # sessions[s]
    <3>1. sessions'[s] = c /\ s = Home(c) /\ task[c].phase = "registering"
      BY <1>3, <2>3 DEF GhostStep, Moved
    <3>2. Deleting(d) /\ d # c
      BY <1>1, <2>1, <3>1 DEF Deleting, Returned
    <3>3. task[c].kind \in {"new", "load", "fork"} /\ task[c].phase \in Bootstrapping
      BY <3>1 DEF SessionsInv, Relations, Shape, ShapeAt, Bootstrapping
    <3>4. CASE task[c].kind = "new"
      <4>1. s = task[c].next /\ s \in Named(d)
        BY <1>1, <1>3, <3>1, <3>4 DEF Home, Named
      <4> QED
        BY <3>1, <3>2, <3>4, <4>1 DEF NewPrivateAt
    <3>5. CASE task[c].kind # "new"
      BY <1>0, <1>1, <1>3, <3>1, <3>2, <3>3, <3>5 DEF OverlapAt, Opening
    <3> QED
      BY <3>4, <3>5
  <2> QED
    BY <2>2, <2>3
<1> QED
  BY <1>1, <1>2, <1>3

\* The parts together.
LEMMA GhostStepKeeps ==
  ASSUME SessionsInv, SessionsInv', HistoryInv, UnusedUnnamed, DeletedStays, DeletesApart,
         NEW c \in Calls, NEW ph, GhostStep(c, ph)
  PROVE  UnusedUnnamed' /\ DeletedStays' /\ DeletesApart'
<1>1. DeletedStays'
  BY DeletedStaysKept
<1>2. ASSUME NEW d \in Calls
      PROVE  (NewPrivateAt(d) /\ FindingAt(d) /\ OverlapAt(d) /\ IntactAt(d) /\ SwitchAt(d) /\ DeleteAt(d))'
  BY <1>1, NewPrivateKept, FindingKept, OverlapKept, IntactKept, SwitchKept, DeleteKept DEF DeletesApart
<1> QED
  BY <1>1, <1>2, UnusedUnnamedKept DEF DeletesApart

-----------------------------------------------------------------------------
(* Which steps these are.                                                  *)

\* Most steps start no thread, move no instance and delete nothing.
QuietGhost(c, ph) ==
  /\ Moves(c, ph) /\ Busy(c)
  /\ task'[c].next = task[c].next
  /\ task[c].kind = "delete" => task'[c].thread = task[c].thread
  /\ StoreTouched(c)
  /\ ph \in Bootstrapping => task[c].phase \in Bootstrapping
  /\ ph \in Finding => task[c].phase \in Finding
  /\ ph \notin {"registering", "switching", "deleting", "removing"}
  /\ UNCHANGED <<deletedVia, bound, raced>>

\* They are steps of the kind above.
LEMMA QuietGhostStep ==
  ASSUME NEW c \in Calls, NEW ph, QuietGhost(c, ph), UNCHANGED sessions
  PROVE  GhostStep(c, ph)
<1>1. NextStep(c) /\ DeletedBy(c)
  BY DEF QuietGhost, NextStep, DeletedBy
<1>2. Moved(c) /\ Entered(c, ph)
  BY DEF QuietGhost, Moved, Entered
<1> QED
  BY <1>1, <1>2 DEF QuietGhost, GhostStep

\* No step touches a thread that is neither the call's own nor known to all.
LEMMA SameStoreTouched == ASSUME NEW c, UNCHANGED store PROVE StoreTouched(c)
  BY DEF StoreTouched

\* One thread changes: the call names it, or an instance is on it.
LEMMA OneTouched ==
  ASSUME RestTyped, NEW c, NEW u, NEW what \in {"unwritten", "active", "archived", "deleted"}, OnStore(u, what),
         u \in Threads => /\ store[u] # "deleted"
                          /\ store[u] = "unwritten" => u \in Named(c) \/ \E i \in Calls : bound[i] = u
  PROVE  StoreTouched(c)
  BY DEF StoreTouched, OnStore, RestTyped

\* The calls of which that holds.
LEMMA QuietCalls ==
  ASSUME SessionsInv, NEW c \in Calls,
         \/ BootstrapFails(c) \/ ForkFails(c) \/ RunTurn(c) \/ Resolve(c) \/ Pick(c)
         \/ ArchiveThread(c) \/ Unarchive(c) \/ \E t \in Threads : ForkLost(c, t)
  PROVE  \E ph : GhostStep(c, ph)
<1>0. TaskTyped /\ RestTyped
  BY RestKept, TypesSplit DEF SessionsInv
<1>1. CASE BootstrapFails(c)
  <2>1. Moves(c, "error") /\ task'[c].thread = task[c].thread /\ task'[c].next = task[c].next
    BY <1>0, <1>1, GoMoves DEF BootstrapFails, Phases, Returned
  <2>2. QuietGhost(c, "error")
    BY <1>1, <2>1, SameStoreTouched
    DEF BootstrapFails, QuietGhost, Busy, Bootstrapping, Finding, Returned, storeVars, instanceVars
  <2> QED
    BY <1>1, <2>2, QuietGhostStep DEF BootstrapFails
<1>2. CASE ForkFails(c)
  <2>1. PICK r \in Returned : /\ Moves(c, r) /\ task'[c].thread = task[c].thread
                              /\ task'[c].next = task[c].next
    BY <1>0, <1>2, GoMoves DEF ForkFails, Phases, Returned
  <2>2. QuietGhost(c, r)
    BY <1>2, <2>1, SameStoreTouched
    DEF ForkFails, Phase, QuietGhost, Busy, Bootstrapping, Finding, Returned, storeVars, instanceVars
  <2> QED
    BY <1>2, <2>2, QuietGhostStep DEF ForkFails
<1>3. CASE RunTurn(c)
  <2>1. PICK r \in Returned : /\ Moves(c, r) /\ task'[c].thread = task[c].thread
                              /\ task'[c].next = task[c].next
    BY <1>0, <1>3, GoMoves DEF RunTurn, Answered, Phases, Returned
  <2>2. Inst(c) \in Calls
    BY <1>3 DEF RunTurn, Phase, SessionsInv, Relations, Shape, ShapeAt, OnInstance, Inst
  <2>3. StoreTouched(c)
    BY <1>0, <1>3, <2>2, SameStoreTouched, OneTouched DEF RunTurn
  <2>5. QuietGhost(c, r)
    BY <1>3, <2>1, <2>3
    DEF RunTurn, Phase, QuietGhost, Busy, Bootstrapping, Finding, Returned, instanceVars
  <2> QED
    BY <1>3, <2>5, QuietGhostStep DEF RunTurn
<1>4. CASE Resolve(c) \/ Pick(c)
  <2>1. /\ task[c].phase \in {"resolving", "picking"} /\ task[c].kind \in {"archive", "unarchive"}
        /\ Busy(c) /\ UNCHANGED <<storeVars, sessions, bound, raced>>
    BY <1>4 DEF Resolve, Pick, Phase, Busy, Returned, SessionsInv, Relations, Shape, ShapeAt
  <2>2. ASSUME NEW t \in Threads
        PROVE  Chosen(c, t) \in {"restoring", "retiring", "archiving"} \cap Phases
    BY DEF Chosen, Phases, Leaving
  <2>3. task[c].shown \subseteq Threads
    BY <1>0 DEF TaskTyped, TaskRecords
  <2>4. Candidates(c) \subseteq SUBSET Threads
    BY DEF Candidates, Listed
  <2> DEFINE Calm == Phases \ (Bootstrapping \cup {"switching", "deleting", "removing"})
  <2>8. {"restoring", "retiring", "archiving"} \cap Phases \subseteq Calm
    BY DEF Bootstrapping
  <2>9. Returned \cup {"picking"} \subseteq Calm
    BY DEF Bootstrapping, Phases, Returned
  <2> HIDE DEF Calm
  <2>5. PICK ph \in Calm :
          Moves(c, ph) /\ task'[c].next = task[c].next
    <3>1. ASSUME NEW r \in Returned, Go(c, r)
          PROVE  Moves(c, r) /\ task'[c].next = task[c].next
      BY <1>0, <3>1, GoMoves DEF Phases
    <3>2. ASSUME NEW t \in Threads,
                 task' = [task EXCEPT ![c].thread = t, ![c].phase = Chosen(c, t)]
          PROVE  Moves(c, Chosen(c, t)) /\ task'[c].next = task[c].next
      BY <1>0, <2>2, <3>2, ThreadMoves, ThreadRange
    <3>3. ASSUME NEW found \in SUBSET Threads,
                 task' = [task EXCEPT ![c].shown = found, ![c].phase = "picking"]
          PROVE  Moves(c, "picking") /\ task'[c].next = task[c].next
      <4>1. task'[c].next = task[c].next
        BY <1>0, <3>3 DEF TaskTyped, TaskRecords
      <4> QED
        BY <1>0, <3>3, <4>1, ShownMoves DEF Phases
    <3>4. ASSUME NEW r \in Returned, task' = [task EXCEPT ![c].phase = r, ![c].shown = {}]
          PROVE  Moves(c, r) /\ task'[c].next = task[c].next
      <4>1. task'[c].next = task[c].next
        BY <1>0, <3>4 DEF TaskTyped, TaskRecords
      <4> QED
        BY <1>0, <3>4, <4>1, CloseMoves DEF Phases
    <3>5. ASSUME NEW t \in Threads,
                 task' = [task EXCEPT ![c].thread = t, ![c].phase = Chosen(c, t), ![c].shown = {}]
          PROVE  Moves(c, Chosen(c, t)) /\ task'[c].next = task[c].next
      <4>1. task'[c].next = task[c].next
        BY <1>0, <3>5 DEF TaskTyped, TaskRecords
      <4> QED
        BY <1>0, <2>2, <3>5, <4>1, ShownPickMoves, ThreadRange
    <3>7. CASE Resolve(c)
      BY <2>2, <2>4, <2>8, <2>9, <3>1, <3>2, <3>3, <3>7 DEF Resolve, Returned
    <3>8. CASE Pick(c)
      BY <2>2, <2>3, <2>8, <2>9, <3>4, <3>5, <3>8 DEF Pick
    <3> QED
      BY <1>4, <3>7, <3>8
  <2>6. StoreTouched(c)
    BY <2>1, SameStoreTouched DEF storeVars
  <2>7. QuietGhost(c, ph)
    BY <2>1, <2>5, <2>6 DEF QuietGhost, Bootstrapping, Finding, storeVars, Calm
  <2> QED
    BY <2>1, <2>7, QuietGhostStep
<1>5. CASE ArchiveThread(c)
  <2>1. PICK ph \in {"replacing", "ok", "error"} :
          /\ Moves(c, ph) /\ task'[c].thread = task[c].thread /\ task'[c].next = task[c].next
    BY <1>0, <1>5, GoMoves DEF ArchiveThread, Answered, Phases, Returned, Leaving
  <2>2. StoreTouched(c)
    <3>1. CASE UNCHANGED store
      BY <3>1, SameStoreTouched
    <3>2. CASE store[task[c].thread] = "active" /\ OnStore(task[c].thread, "archived")
      BY <1>0, <3>2, OneTouched DEF OnStore, RestTyped
    <3> QED
      BY <1>5, <3>1, <3>2 DEF ArchiveThread
  <2>3. QuietGhost(c, ph)
    BY <1>5, <2>1, <2>2
    DEF ArchiveThread, QuietGhost, Busy, Bootstrapping, Finding, Returned, instanceVars
  <2> QED
    BY <1>5, <2>3, QuietGhostStep DEF ArchiveThread
<1>6. CASE Unarchive(c)
  <2>1. PICK r \in Returned : /\ Moves(c, r) /\ task'[c].thread = task[c].thread
                              /\ task'[c].next = task[c].next
    BY <1>0, <1>6, GoMoves DEF Unarchive, Answered, Phases, Returned
  <2>2. StoreTouched(c)
    <3>1. CASE UNCHANGED store
      BY <3>1, SameStoreTouched
    <3>2. CASE store[task[c].thread] = "archived" /\ OnStore(task[c].thread, "active")
      BY <1>0, <3>2, OneTouched DEF OnStore, RestTyped
    <3> QED
      BY <1>6, <3>1, <3>2 DEF Unarchive
  <2>3. QuietGhost(c, r)
    BY <1>6, <2>1, <2>2
    DEF Unarchive, Phase, QuietGhost, Busy, Bootstrapping, Finding, Returned
  <2> QED
    BY <1>6, <2>3, QuietGhostStep DEF Unarchive
<1>7. CASE \E t \in Threads : ForkLost(c, t)
  <2>1. PICK t \in Threads : ForkLost(c, t)
    BY <1>7
  <2>2. Moves(c, "error") /\ task'[c].thread = task[c].thread /\ task'[c].next = task[c].next
    BY <1>0, <2>1, GoMoves DEF ForkLost, Phases, Returned
  <2>3. StoreTouched(c)
    BY <1>0, <2>1, OneTouched DEF ForkLost, Unused
  <2>4. QuietGhost(c, "error")
    BY <2>1, <2>2, <2>3
    DEF ForkLost, Phase, QuietGhost, Busy, Bootstrapping, Finding, Returned, instanceVars
  <2> QED
    BY <2>1, <2>4, QuietGhostStep DEF ForkLost
<1> QED
  BY <1>1, <1>2, <1>3, <1>4, <1>5, <1>6, <1>7

\* A step that starts a thread for its call.
LEMMA StartingStep ==
  ASSUME SessionsInv, NEW c \in Calls, Busy(c), NEW t \in Threads, Unused(t),
         NEW what \in {"unwritten", "active"}, OnStore(t, what),
         NEW ph \in {"registering", "resuming", "switching"},
         task' = [task EXCEPT ![c].phase = ph, ![c].next = t],
         ph = "registering" => what = "unwritten",
         ph \in Bootstrapping => task[c].phase \in Bootstrapping \/ task[c].kind = "fork",
         ph = "resuming" => task[c].kind = "fork",
         UNCHANGED <<deletedVia, sessions, bound, raced>>
  PROVE  GhostStep(c, ph)
<1>0. TaskTyped /\ RestTyped /\ ph \in Phases
  BY RestKept, TypesSplit DEF SessionsInv, Phases, Bootstrapping, Finding, Leaving
<1>1. Moves(c, ph) /\ task'[c].next = t /\ task'[c].thread = task[c].thread
  BY <1>0, NextMoves, ThreadRange
<1>2. store[t] = "unused" /\ store'[t] = what
  BY <1>0 DEF Unused, OnStore, RestTyped
<1>3. StartsFor(c, t)
  BY <1>1, <1>2 DEF StartsFor
<1>4. StoreTouched(c)
  BY <1>0, <1>2, OneTouched
<1>5. DeletedBy(c)
  BY <1>0, <1>2 DEF DeletedBy, OnStore, RestTyped
<1>6. Entered(c, ph)
  <2>1. \A u \in Threads : u = task'[c].next => store'[u] # "deleted"
    BY <1>1, <1>2
  <2>2. ph = "registering" => store'[t] = "unwritten"
    BY <1>2
  <2>3. ph \notin {"deleting", "removing"}
    OBVIOUS
  <2> QED
    BY <1>3, <2>1, <2>2, <2>3 DEF Entered, Finding
<1> QED
  BY <1>1, <1>3, <1>4, <1>5, <1>6 DEF GhostStep, NextStep, Moved

\* session/new, the replacement of /archive and the forks do that.
LEMMA StartingCalls ==
  ASSUME SessionsInv, NEW c \in Calls,
         \/ StartThread(c) \/ StartReplacement(c) \/ \E t \in Threads : ForkThread(c, t)
  PROVE  \E ph : GhostStep(c, ph)
<1>0. TaskTyped
  BY RestKept
<1>1. ASSUME NEW ph \in {"error", "restoring"}, Go(c, ph), Busy(c),
             UNCHANGED <<store, deletedVia, sessions, bound, raced>>
      PROVE  GhostStep(c, ph)
  <2>1. Moves(c, ph) /\ task'[c].thread = task[c].thread /\ task'[c].next = task[c].next
    BY <1>0, <1>1, GoMoves DEF Phases, Returned, Leaving
  <2>2. QuietGhost(c, ph)
    BY <1>1, <2>1, SameStoreTouched DEF QuietGhost, Bootstrapping, Finding
  <2> QED
    BY <1>1, <2>2, QuietGhostStep
<1>2. CASE StartThread(c)
  <2>1. Busy(c) /\ task[c].phase \in Bootstrapping /\ UNCHANGED <<deletedVia, sessions, bound, raced>>
    BY <1>2 DEF StartThread, Phase, Busy, Returned, Bootstrapping, Finding, instanceVars
  <2>2. CASE \E t \in Threads : /\ Unused(t) /\ OnStore(t, "unwritten")
                                /\ task' = [task EXCEPT ![c].phase = "registering", ![c].next = t]
    BY <2>1, <2>2, StartingStep
  <2> QED
    BY <1>1, <1>2, <2>1, <2>2 DEF StartThread
<1>3. CASE StartReplacement(c)
  <2>1. Busy(c) /\ UNCHANGED <<deletedVia, sessions, bound, raced>>
    BY <1>3 DEF StartReplacement, Phase, Busy, Returned, instanceVars
  <2>2. CASE \E t \in Threads : /\ Unused(t) /\ OnStore(t, "unwritten")
                                /\ task' = [task EXCEPT ![c].phase = "switching", ![c].next = t]
    BY <2>1, <2>2, StartingStep DEF Bootstrapping, Finding
  <2> QED
    BY <1>1, <1>3, <2>1, <2>2 DEF StartReplacement
<1>4. CASE \E t \in Threads : ForkThread(c, t)
  <2>1. PICK t \in Threads : ForkThread(c, t)
    BY <1>4
  <2> DEFINE ph == IF task[c].kind = "fork" THEN "resuming" ELSE "switching"
  <2>2. /\ Busy(c) /\ UNCHANGED <<deletedVia, sessions, bound, raced>>
        /\ Unused(t) /\ OnStore(t, "active")
        /\ task' = [task EXCEPT ![c].next = t, ![c].phase = ph]
    BY <2>1 DEF ForkThread, Phase, Busy, Returned, instanceVars
  <2>3. /\ ph \in {"registering", "resuming", "switching"} /\ ph # "registering"
        /\ ph \in Bootstrapping => task[c].kind = "fork"
        /\ ph = "resuming" => task[c].kind = "fork"
    BY DEF Bootstrapping, Finding
  <2> HIDE DEF ph
  <2>4. task' = [task EXCEPT ![c].phase = ph, ![c].next = t]
    BY <1>0, <2>2 DEF TaskTyped, TaskRecords
  <2> QED
    BY <2>2, <2>3, <2>4, StartingStep
<1> QED
  BY <1>2, <1>3, <1>4

\* A load or a fork finds its thread.
LEMMA FindingCalls ==
  ASSUME SessionsInv, NEW c \in Calls, FindingAt(c), ResumeThread(c) \/ DiscoverPath(c)
  PROVE  \E ph : GhostStep(c, ph)
<1>0. TaskTyped /\ RestTyped
  BY RestKept, TypesSplit DEF SessionsInv
<1>1. /\ Busy(c) /\ task[c].phase \in Bootstrapping /\ task[c].phase \in {"resuming", "discovering"}
      /\ UNCHANGED <<store, deletedVia, sessions, bound, raced>>
  BY DEF ResumeThread, DiscoverPath, Phase, Busy, Returned, Bootstrapping, Finding, storeVars, instanceVars
<1>2. CASE /\ store[Resumes(c)] \in {"active", "archived"}
           /\ task' = [task EXCEPT ![c].phase = "registering", ![c].next = Resumes(c)]
  <2>1. Resumes(c) \in 0..MaxThreads /\ Resumes(c) = Home(c)
    BY <1>0 DEF Resumes, Home, TaskTyped, TaskRecords
  <2>2. Moves(c, "registering") /\ task'[c].next = Home(c) /\ task'[c].thread = task[c].thread
    BY <1>0, <1>2, <2>1, NextMoves DEF Phases, Bootstrapping, Finding
  <2>3. task[c].kind \in {"load", "fork"}
    BY <1>1 DEF FindingAt, Finding
  <2> QED
    BY <1>1, <1>2, <2>1, <2>2, <2>3, SameStoreTouched
    DEF GhostStep, NextStep, DeletedBy, Moved, Entered, Bootstrapping, Finding
<1>3. ASSUME NEW ph \in {"resuming", "discovering", "starting", "error"}, Moves(c, ph),
             task'[c].thread = task[c].thread, task'[c].next = task[c].next
      PROVE  GhostStep(c, ph)
  <2>1. QuietGhost(c, ph)
    BY <1>1, <1>3, SameStoreTouched DEF QuietGhost, Bootstrapping, Finding
  <2> QED
    BY <1>1, <2>1, QuietGhostStep
<1>4. CASE task[c].tries < MaxRetries /\ task' = [task EXCEPT ![c].tries = @ + 1]
  <2>1. Moves(c, task[c].phase)
    BY <1>0, <1>4, TriesMoves, SessionsAssumption
  <2>2. task'[c].thread = task[c].thread /\ task'[c].next = task[c].next
    BY <1>0, <1>4 DEF TaskTyped, TaskRecords
  <2> QED
    BY <1>1, <1>3, <2>1, <2>2
<1>5. ASSUME NEW ph \in {"discovering", "starting", "error"}, Go(c, ph) PROVE GhostStep(c, ph)
  BY <1>0, <1>3, <1>5, GoMoves DEF Phases, Bootstrapping, Finding, Returned
<1>6. CASE ResumeThread(c)
  BY <1>2, <1>4, <1>5, <1>6 DEF ResumeThread, Missing
<1>7. CASE DiscoverPath(c)
  BY <1>2, <1>5, <1>7 DEF DiscoverPath, OnRestoreFailure
<1> QED
  BY <1>6, <1>7

\* A delete reads its thread, or /fork does.
LEMMA ReadingCalls ==
  ASSUME SessionsInv, NEW c \in Calls, ReadThread(c)
  PROVE  \E ph : GhostStep(c, ph)
<1> DEFINE ph == IF task[c].kind = "delete" THEN "deleting" ELSE "forking"
<1>0. TaskTyped /\ RestTyped
  BY RestKept, TypesSplit DEF SessionsInv
<1>1. /\ task[c].phase = "reading" /\ Busy(c)
      /\ task' = [task EXCEPT ![c].thread = bound[Inst(c)], ![c].phase = ph]
      /\ UNCHANGED <<store, deletedVia, sessions, bound, raced>>
  BY DEF ReadThread, Phase, Busy, Returned, storeVars, instanceVars
<1>2. Inst(c) \in Calls /\ Inst(c) # 0 /\ bound[Inst(c)] \in 0..MaxThreads
  BY <1>0, <1>1, SessionsAssumption
  DEF SessionsInv, RestTyped, Relations, Shape, ShapeAt, OnInstance, Inst, Calls
<1>3. ph \in Phases /\ ph \notin Bootstrapping \cup {"switching", "removing", "registering"}
  BY DEF Phases, Bootstrapping, Finding
<1> HIDE DEF ph
<1>4. Moves(c, ph) /\ task'[c].thread = bound[Inst(c)] /\ task'[c].next = task[c].next
  BY <1>0, <1>1, <1>2, <1>3, ThreadMoves
<1>5. ph = "deleting" => task[c].kind = "delete"
  BY DEF ph
<1>7. Entered(c, ph)
  BY <1>5, <1>1, <1>2, <1>3 DEF Entered, Inst, Bootstrapping, Finding
<1>6. \E i \in Calls : i = task[c].inst /\ task'[c].thread = bound[i]
  BY <1>2, <1>4 DEF Inst
<1> QED
  BY <1>1, <1>4, <1>6, <1>7, SameStoreTouched DEF GhostStep, NextStep, DeletedBy, Moved

\* A registration brings its own instance to its thread.
LEMMA RegisteringCalls ==
  ASSUME SessionsInv, NEW c \in Calls, RegisterSession(c)
  PROVE  GhostStep(c, "ok")
<1>0. TaskTyped /\ RestTyped
  BY RestKept, TypesSplit DEF SessionsInv
<1>1. /\ task[c].phase = "registering" /\ Busy(c) /\ task[c].kind \in {"new", "load", "fork"}
      /\ UNCHANGED <<store, deletedVia, raced>>
  BY DEF RegisterSession, Phase, Busy, Returned, SessionsInv, Relations, Shape, ShapeAt,
         Bootstrapping, storeVars
<1>2. Moves(c, "ok") /\ task'[c].next = task[c].next /\ task'[c].thread = task[c].thread
  BY <1>0, GoMoves DEF RegisterSession, Phases, Returned
<1>3. Moved(c)
  <2>1. bound' = [bound EXCEPT ![c] = task[c].next] /\ sessions' = [sessions EXCEPT ![Home(c)] = c]
    BY DEF RegisterSession, Home
  <2> QED
    BY <1>0, <1>1, <1>2, <2>1 DEF Moved, RestTyped
<1>4. Entered(c, "ok")
  BY DEF Entered, Bootstrapping, Finding
<1> QED
  BY <1>1, <1>2, <1>3, <1>4, SameStoreTouched DEF GhostStep, NextStep, DeletedBy

\* A delete deletes the thread it names.
LEMMA DeletingCalls ==
  ASSUME SessionsInv, NEW c \in Calls, FindingAt(c), DeleteThread(c) \/ RemoveSession(c)
  PROVE  \E ph : GhostStep(c, ph)
<1>0. TaskTyped /\ RestTyped
  BY RestKept, TypesSplit DEF SessionsInv
<1>1. /\ task[c].phase \in {"deleting", "removing"} /\ task[c].kind = "delete"
      /\ Busy(c) /\ UNCHANGED <<bound, raced>>
      /\ \A s \in Threads : sessions'[s] \in {0, sessions[s]}
  BY <1>0 DEF DeleteThread, RemoveSession, Phase, FindingAt, Busy, Returned, instanceVars, RestTyped
<1>2. PICK ph \in {"ok", "error", "removing"} :
        /\ Moves(c, ph) /\ task'[c].thread = task[c].thread /\ task'[c].next = task[c].next
  BY <1>0, GoMoves DEF DeleteThread, RemoveSession, Phases, Returned
<1>3. Moved(c) /\ Entered(c, ph)
  BY <1>1 DEF Moved, Entered, Bootstrapping, Finding
<1>4. StoreTouched(c) /\ DeletedBy(c)
  <2>1. CASE UNCHANGED <<store, deletedVia>>
    BY <2>1, SameStoreTouched DEF DeletedBy
  <2>2. CASE ~ UNCHANGED <<store, deletedVia>>
    <3>1. PICK u : u = DeletesThread(c)
      OBVIOUS
    <3>2. /\ OnStore(u, "deleted") /\ store[u] # "deleted" /\ Deleting(c)
          /\ \/ deletedVia' = [deletedVia EXCEPT ![u] = task[c].session]
             \/ UNCHANGED deletedVia
      BY <1>1, <2>2, <3>1 DEF DeleteThread, RemoveSession, storeVars, Deleting, Phase, Returned
    <3>3. u \in Named(c)
      BY <1>1, <3>1 DEF DeletesThread, Named
    <3>4. StoreTouched(c)
      BY <1>0, <3>2, <3>3, OneTouched
    <3>5. DeletedBy(c)
      BY <1>0, <3>1, <3>2 DEF DeletedBy, OnStore, RestTyped
    <3> QED
      BY <3>4, <3>5
  <2> QED
    BY <2>1, <2>2
<1>5. GhostStep(c, ph)
  BY <1>1, <1>2, <1>3, <1>4 DEF GhostStep, NextStep
<1> QED
  BY <1>5

\* A switch moves the instance of its session.
LEMMA SwitchingCalls ==
  ASSUME SessionsInv, NEW c \in Calls, SwitchThread(c)
  PROVE  \E ph : GhostStep(c, ph)
<1>0. TaskTyped /\ RestTyped
  BY RestKept, TypesSplit DEF SessionsInv
<1>1. /\ task[c].phase = "switching" /\ Busy(c) /\ task[c].kind \in {"archive", "switch"}
      /\ UNCHANGED <<store, deletedVia, sessions, raced>>
  BY DEF SwitchThread, Phase, Busy, Returned, storeVars, SessionsInv, Relations, Shape, ShapeAt
<1>2. PICK ph \in {"ok", "error", "restoring"} :
        /\ Moves(c, ph) /\ task'[c].thread = task[c].thread /\ task'[c].next = task[c].next
  BY <1>0, GoMoves DEF SwitchThread, Phases, Returned, Leaving
<1>3. Moved(c)
  BY <1>0, <1>1 DEF Moved, SwitchThread, RestTyped
<1>4. Entered(c, ph)
  BY DEF Entered, Bootstrapping, Finding
<1>5. GhostStep(c, ph)
  BY <1>1, <1>2, <1>3, <1>4, SameStoreTouched DEF GhostStep, NextStep, DeletedBy
<1> QED
  BY <1>5

-----------------------------------------------------------------------------
(* What they do to the sessions whose thread was deleted.                  *)

\* Session s shows a thread it deleted, and nobody is about to remove it.
Removing(s) ==
  \E d \in Calls : task[d].kind = "delete" /\ task[d].session = s /\ Phase(d, "removing")
Haunted(s, t) ==
  /\ sessions[s] # 0 /\ sessions[s] \notin raced
  /\ t = bound[sessions[s]] /\ store[t] = "deleted" /\ deletedVia[t] = s

\* The property, session by session and thread by thread.
LEMMA GhostSplit ==
  ASSUME RestTyped
  PROVE  NoGhostSession <=> \A s \in Threads : \A t \in Threads : Haunted(s, t) => Removing(s)
<1>1. \A s \in Threads : sessions[s] # 0 => bound[sessions[s]] \in Threads \cup {0}
  BY SMTT(30), SessionsAssumption DEF RestTyped, Threads, Calls
<1>2. \A t \in Threads : t # 0
  BY SessionsAssumption DEF Threads
<1>3. ASSUME NoGhostSession, NEW s \in Threads, NEW t \in Threads, Haunted(s, t) PROVE Removing(s)
  BY <1>2, <1>3 DEF NoGhostSession, Haunted, Removing
<1>4. ASSUME \A s \in Threads : \A t \in Threads : Haunted(s, t) => Removing(s) PROVE NoGhostSession
  <2> SUFFICES ASSUME NEW s \in Threads, sessions[s] # 0, sessions[s] \notin raced,
                      NEW t, t = bound[sessions[s]], t # 0, store[t] = "deleted", deletedVia[t] = s
               PROVE  Removing(s)
    BY DEF NoGhostSession, Removing
  <2>1. t \in Threads
    BY <1>1
  <2> QED
    BY <1>4, <2>1 DEF Haunted
<1> QED
  BY <1>3, <1>4

\* The same after a step.
LEMMA GhostSplitNext ==
  ASSUME RestTyped', \A s \in Threads : \A t \in Threads : Haunted(s, t)' => Removing(s)'
  PROVE  NoGhostSession'
<1>1. \A s \in Threads : sessions'[s] # 0 => bound'[sessions'[s]] \in Threads \cup {0}
  BY SMTT(30), SessionsAssumption DEF RestTyped, Threads, Calls
<1> SUFFICES ASSUME NEW s \in Threads, sessions'[s] # 0, sessions'[s] \notin raced',
                    NEW t, t = bound'[sessions'[s]], t # 0, store'[t] = "deleted", deletedVia'[t] = s
             PROVE  Removing(s)'
  BY DEF NoGhostSession, Removing
<1>2. t \in Threads
  BY <1>1
<1> QED
  BY <1>2 DEF Haunted

\* Who is removing an entry goes on to.
LEMMA RemovingStays ==
  ASSUME NEW c \in Calls, NEW ph, Moves(c, ph), NEW s,
         Removing(s), task[c].phase = "removing" => task[c].session # s
  PROVE  Removing(s)'
<1>1. PICK d \in Calls : task[d].kind = "delete" /\ task[d].session = s /\ Phase(d, "removing")
  BY DEF Removing
<1>2. d # c
  BY <1>1 DEF Phase
<1>3. task'[d] = task[d]
  BY <1>2 DEF Moves
<1> QED
  BY <1>1, <1>3 DEF Removing, Phase

\* A step haunts no session unless it tells one that it deleted a thread,
\* registers an instance or moves one.
LEMMA CalmGhost ==
  ASSUME RestTyped, RestTyped', DeletedStays, NoGhostSession, NEW c \in Calls, NEW ph,
         Moves(c, ph), task[c].phase # "removing", UNCHANGED <<sessions, bound, deletedVia, raced>>
  PROVE  NoGhostSession'
<1> SUFFICES ASSUME NEW s \in Threads, NEW t \in Threads, Haunted(s, t)' PROVE Removing(s)'
  BY GhostSplitNext
<1>1. Haunted(s, t)
  BY SessionsAssumption DEF Haunted, DeletedStays, Threads
<1>2. Removing(s)
  BY <1>1, GhostSplit
<1> QED
  BY <1>2, RemovingStays

\* The calls of which that holds.
LEMMA CalmCallsGhost ==
  ASSUME SessionsInv, SessionsInv', DeletedStays, NEW c \in Calls, NoGhostSession,
         \/ BootstrapFails(c) \/ ForkFails(c) \/ RunTurn(c) \/ Resolve(c) \/ Pick(c)
         \/ ArchiveThread(c) \/ Unarchive(c) \/ StartThread(c) \/ StartReplacement(c)
         \/ (\E t \in Threads : ForkThread(c, t) \/ ForkLost(c, t)) \/ ResumeThread(c)
         \/ DiscoverPath(c) \/ ReadThread(c),
         NEW ph, GhostStep(c, ph)
  PROVE  NoGhostSession'
<1>0. RestTyped /\ RestTyped'
  BY TypesSplit, TypesSplitNext DEF SessionsInv
<1>1. UNCHANGED <<sessions, bound, deletedVia, raced>>
  BY DEF BootstrapFails, ForkFails, RunTurn, Resolve, Pick, ArchiveThread, Unarchive, StartThread,
         StartReplacement, ForkThread, ForkLost, ResumeThread, DiscoverPath, ReadThread, storeVars,
         instanceVars
<1>2. task[c].phase \notin {"deleting", "removing"}
  BY DEF BootstrapFails, ForkFails, RunTurn, Resolve, Pick, ArchiveThread, Unarchive, StartThread,
         StartReplacement, ForkThread, ForkLost, ResumeThread, DiscoverPath, ReadThread, Phase,
         Bootstrapping
<1> QED
  BY <1>0, <1>1, <1>2, CalmGhost DEF GhostStep

\* What a delete leaves on a loaded session's instance it goes on to remove.
LEMMA DeletingGhost ==
  ASSUME SessionsInv, SessionsInv', DeletedStays, NEW c \in Calls, FindingAt(c), DeleteAt(c),
         NoGhostSession, DeleteThread(c)
  PROVE  NoGhostSession'
<1>0. TaskTyped /\ RestTyped /\ RestTyped'
  BY RestKept, TypesSplit, TypesSplitNext DEF SessionsInv
<1>1. /\ task[c].phase = "deleting" /\ task[c].kind = "delete"
      /\ UNCHANGED <<sessions, bound, raced>>
  BY DEF DeleteThread, Phase, FindingAt, instanceVars
<1>2. PICK ph \in {"ok", "error", "removing"} : Moves(c, ph)
  BY <1>0, GoMoves DEF DeleteThread, Phases, Returned
<1>3. CASE UNCHANGED deletedVia
  BY <1>0, <1>1, <1>2, <1>3, CalmGhost
<1>4. CASE ~ UNCHANGED deletedVia
  <2> SUFFICES ASSUME NEW s \in Threads, NEW t \in Threads, Haunted(s, t)' PROVE Removing(s)'
    BY <1>0, GhostSplitNext
  <2>1. PICK u : u = DeletesThread(c)
    OBVIOUS
  <2>2. /\ OnStore(u, "deleted") /\ deletedVia' = [deletedVia EXCEPT ![u] = task[c].session]
        /\ Go(c, IF Inst(c) = 0 THEN "ok" ELSE "removing")
    BY <1>4, <2>1 DEF DeleteThread
  <2>3. CASE t = u
    <3>1. s = task[c].session
      BY <1>0, <2>2, <2>3 DEF Haunted, RestTyped
    <3>2. Inst(c) # 0
      BY <1>1, <3>1 DEF Haunted, DeleteAt, Inst
    <3>3. task'[c].phase = "removing" /\ task'[c].kind = "delete" /\ task'[c].session = s
      BY <1>0, <1>1, <1>2, <2>2, <3>1, <3>2 DEF Go, Moves, TaskTyped, TaskRecords
    <3> QED
      BY <3>3 DEF Removing, Phase
  <2>4. CASE t # u
    <3>1. Haunted(s, t)
      BY <1>0, <1>1, <2>2, <2>4 DEF Haunted, OnStore, RestTyped
    <3> QED
      BY <1>0, <1>1, <1>2, <3>1, GhostSplit, RemovingStays
  <2> QED
    BY <2>3, <2>4
<1> QED
  BY <1>3, <1>4

\* A delete that removes an entry leaves nothing under it.
LEMMA RemovingGhost ==
  ASSUME SessionsInv, SessionsInv', NEW c \in Calls, NoGhostSession,  RemoveSession(c)
  PROVE  NoGhostSession'
<1>0. TaskTyped /\ RestTyped /\ RestTyped'
  BY RestKept, TypesSplit, TypesSplitNext DEF SessionsInv
<1>1. /\ sessions' = [sessions EXCEPT ![task[c].session] = 0] /\ Moves(c, "ok")
      /\ UNCHANGED <<store, deletedVia, bound, raced>>
  BY <1>0, GoMoves DEF RemoveSession, Phases, Returned, storeVars, instanceVars
<1> SUFFICES ASSUME NEW s \in Threads, NEW t \in Threads, Haunted(s, t)' PROVE Removing(s)'
  BY <1>0, GhostSplitNext
<1>2. s # task[c].session /\ sessions'[s] = sessions[s]
  BY <1>0, <1>1 DEF Haunted, RestTyped
<1>3. Haunted(s, t)
  BY <1>1, <1>2 DEF Haunted
<1> QED
  BY <1>0, <1>1, <1>2, <1>3, GhostSplit, RemovingStays

\* What a call registers was not deleted by the session.
LEMMA RegisteringGhost ==
  ASSUME SessionsInv, SessionsInv', NEW c \in Calls, NewPrivateAt(c), IntactAt(c), NoGhostSession,
         RegisterSession(c)
  PROVE  NoGhostSession'
<1>0. TaskTyped /\ RestTyped /\ RestTyped'
  BY RestKept, TypesSplit, TypesSplitNext DEF SessionsInv
<1>1. /\ task[c].phase = "registering" /\ task[c].kind \in {"new", "load", "fork"}
      /\ bound' = [bound EXCEPT ![c] = task[c].next] /\ sessions' = [sessions EXCEPT ![Home(c)] = c]
      /\ UNCHANGED <<store, deletedVia, raced>> /\ Moves(c, "ok")
  BY <1>0, GoMoves DEF RegisterSession, Phase, Home, Phases, Returned, SessionsInv, Relations, Shape,
     ShapeAt, Bootstrapping, storeVars
<1> SUFFICES ASSUME NEW s \in Threads, NEW t \in Threads, Haunted(s, t)' PROVE Removing(s)'
  BY <1>0, GhostSplitNext
<1>2. CASE s = Home(c)
  <2>1. sessions'[s] = c /\ t = task[c].next /\ store[t] = "deleted" /\ deletedVia[t] = s /\ c \notin raced
    BY <1>0, <1>1, <1>2 DEF Haunted, RestTyped
  <2>2. s # 0
    BY SessionsAssumption DEF Threads
  <2> QED
    BY <1>1, <1>2, <2>1, <2>2 DEF NewPrivateAt, IntactAt, Opening, Bootstrapping
<1>3. CASE s # Home(c)
  <2>1. sessions'[s] = sessions[s]
    BY <1>0, <1>1, <1>3 DEF RestTyped
  <2>2. sessions[s] # c
    <3>1. ~ IsInstance(c)
      BY <1>1 DEF IsInstance
    <3>2. sessions[s] # 0 => IsInstance(sessions[s])
      BY DEF SessionsInv, Relations, Registered
    <3>3. c # 0
      BY SessionsAssumption DEF Calls
    <3> QED
      BY <3>1, <3>2, <3>3
  <2>3. Haunted(s, t)
    BY <1>0, <1>1, <2>1, <2>2 DEF Haunted, RestTyped
  <2> QED
    BY <1>0, <1>1, <2>3, GhostSplit, RemovingStays
<1> QED
  BY <1>2, <1>3

\* Nor what a command moves its session to.
LEMMA SwitchingGhost ==
  ASSUME SessionsInv, SessionsInv', NEW c \in Calls, SwitchAt(c), NoGhostSession,
         SwitchThread(c)
  PROVE  NoGhostSession'
<1>0. TaskTyped /\ RestTyped /\ RestTyped'
  BY RestKept, TypesSplit, TypesSplitNext DEF SessionsInv
<1>1. /\ task[c].phase = "switching" /\ task[c].kind \in PromptKinds /\ Busy(c)
      /\ UNCHANGED <<store, deletedVia, sessions, raced>>
  BY DEF SwitchThread, Phase, Busy, Returned, PromptKinds, storeVars, SessionsInv, Relations, Shape, ShapeAt
<1>2. PICK ph : Moves(c, ph)
  BY <1>0, GoMoves DEF SwitchThread, Phases, Returned, Leaving
<1>3. bound' = bound \/ bound' = [bound EXCEPT ![Inst(c)] = task[c].next]
  BY DEF SwitchThread
<1> SUFFICES ASSUME NEW s \in Threads, NEW t \in Threads, Haunted(s, t)' PROVE Removing(s)'
  BY <1>0, GhostSplitNext
<1>4. PICK i : i = sessions[s]
  OBVIOUS
<1>5. CASE bound'[i] = bound[i]
  <2>1. Haunted(s, t)
    BY <1>1, <1>4, <1>5 DEF Haunted
  <2> QED
    BY <1>0, <1>1, <1>2, <2>1, GhostSplit, RemovingStays
<1>6. CASE bound'[i] # bound[i]
  <2>1. i # 0 /\ t = bound'[i] /\ deletedVia[t] = s
    BY <1>1, <1>4 DEF Haunted
  <2>2. i = Inst(c) /\ t = task[c].next
    <3>1. i \in Calls
      BY <1>0, <1>4, <2>1, SessionsAssumption DEF RestTyped, Calls
    <3>2. i = Inst(c)
      BY <1>0, <1>3, <1>6, <3>1 DEF RestTyped
    <3> QED
      BY <1>0, <1>3, <1>6, <2>1, <3>1, <3>2 DEF RestTyped
  <2>3. Home(i) = s
    BY <1>4, <2>1 DEF SessionsInv, Relations, Registered
  <2>4. task[c].session = s
    BY <1>1, <2>2, <2>3 DEF SessionsInv, Relations, PromptsAtHome
  <2>5. s # 0
    BY SessionsAssumption DEF Threads
  <2> QED
    BY <1>1, <2>1, <2>2, <2>4, <2>5 DEF SwitchAt
<1> QED
  BY <1>5, <1>6

-----------------------------------------------------------------------------
(* New calls.                                                              *)

\* What a call does when the client makes it: it may take an entry off the
\* registry, and it marks the loads and forks that a delete overlaps.
Arrives(c, kind, s, i, ph) ==
  /\ task[c].phase = "idle" /\ \A d \in Calls : d # c => task'[d] = task[d]
  /\ task'[c].kind = kind /\ task'[c].session = s /\ task'[c].inst = i /\ task'[c].phase = ph
  /\ task'[c].thread = 0 /\ task'[c].next = 0
  /\ s \in Threads => Known(s)
  /\ ph \notin {"registering", "discovering", "switching", "removing"}
  /\ ph = "resuming" => kind = "load"
  /\ ph \in Bootstrapping => kind \in {"new", "load"}
  /\ ph = "deleting" => kind = "delete" /\ sessions[s] = 0
  /\ kind = "delete" =>
       /\ s \in Threads /\ i = sessions[s]
       /\ \A d \in Calls : task[d].kind \in {"load", "fork"} /\ task[d].phase \in Bootstrapping
                             /\ Home(d) = s => d \in raced'
  /\ kind = "load" => \A d \in Calls : Deleting(d) /\ task[d].session = s => c \in raced'
  /\ raced \subseteq raced'
  /\ \A u \in Threads : sessions'[u] \in {0, sessions[u]}
  /\ UNCHANGED <<store, deletedVia, bound>>

\* A thread a client names is in use.
LEMMA KnownInUse ==
  ASSUME UnusedUnnamed, NEW s \in Threads, Known(s)
  PROVE  store[s] # "unused"
  BY DEF UnusedUnnamed, Known, Named

\* A new call keeps the deletes apart from what they could undo.
LEMMA ArrivesApart ==
  ASSUME SessionsInv, HistoryInv, UnusedUnnamed, DeletedStays, DeletesApart,
         NEW c \in Calls, NEW kind, NEW s, NEW i, NEW ph, Arrives(c, kind, s, i, ph),
         NEW d \in Calls
  PROVE  (NewPrivateAt(d) /\ FindingAt(d) /\ OverlapAt(d) /\ IntactAt(d) /\ SwitchAt(d) /\ DeleteAt(d))'
<1>0. /\ NewPrivateAt(d) /\ FindingAt(d) /\ OverlapAt(d) /\ IntactAt(d) /\ SwitchAt(d) /\ DeleteAt(d)
      /\ \A t \in Threads : t # 0
  BY SessionsAssumption DEF DeletesApart, Threads
<1>1. ASSUME NEW e \in Calls, e # c
      PROVE  /\ task'[e] = task[e] /\ Named(e)' = Named(e) /\ Home(e)' = Home(e)
             /\ Deleting(e)' <=> Deleting(e)
  BY <1>1 DEF Arrives, Named, Home, Deleting
<1>2. ASSUME NEW k, IsInstance(k)
      PROVE  IsInstance(k)' /\ Home(k)' = Home(k)
  BY <1>2 DEF Arrives, IsInstance, Home
<1>3. NewPrivateAt(d)'
  <2> SUFFICES ASSUME task'[d].kind = "new", task'[d].phase = "registering"
               PROVE  /\ task'[d].next \in Threads /\ store'[task'[d].next] = "unwritten"
                      /\ \A j \in Calls : bound'[j] # task'[d].next
                      /\ \A e \in Calls \ {d} : task'[d].next \notin Named(e)'
    BY DEF NewPrivateAt
  <2>1. d # c /\ task'[d] = task[d]
    BY <1>1 DEF Arrives
  <2>2. PICK f \in Threads : f = task[d].next
    BY <1>0, <2>1 DEF NewPrivateAt
  <2>3. /\ store[f] = "unwritten" /\ \A j \in Calls : bound[j] # f
        /\ \A e \in Calls \ {d} : f \notin Named(e)
    BY <1>0, <2>1, <2>2 DEF NewPrivateAt
  <2>4. f # s
    <3>1. ~ Known(f)
      BY <2>1, <2>3 DEF Known, Phase, Named
    <3> QED
      BY <3>1 DEF Arrives
  <2>5. f \notin Named(c)'
    BY <1>0, <2>4 DEF Arrives, Named
  <2>6. \A e \in Calls \ {d} : f \notin Named(e)'
    BY <1>1, <2>3, <2>5
  <2>7. store' = store /\ bound' = bound
    BY DEF Arrives
  <2> QED
    BY <2>1, <2>2, <2>3, <2>6, <2>7
<1>4. FindingAt(d)'
  BY <1>0 DEF Arrives, FindingAt, Finding
<1>5. OverlapAt(d)'
  <2> SUFFICES ASSUME Opening(d)', NEW e \in Calls, Deleting(e)', task'[e].session = Home(d)'
               PROVE  FALSE
    BY DEF OverlapAt
  <2>1. CASE d = c
    <3>1. kind = "load" /\ Home(d)' = s /\ e # c /\ c \notin raced'
      BY <2>1 DEF Arrives, Opening, Home, Deleting
    <3>2. Deleting(e) /\ task[e].session = s
      BY <1>1, <3>1
    <3> QED
      BY <3>1, <3>2 DEF Arrives
  <2>2. CASE d # c /\ e = c
    <3>1. kind = "delete" /\ Home(d) = s
      BY <1>1, <2>2 DEF Arrives, Deleting
    <3>2. /\ task[d].kind \in {"load", "fork"} /\ task[d].phase \in Bootstrapping /\ d \notin raced'
      BY <1>1, <2>2 DEF Opening
    <3> QED
      BY <3>1, <3>2 DEF Arrives
  <2>3. CASE d # c /\ e # c
    <3>1. Opening(d) /\ Deleting(e) /\ task[e].session = Home(d)
      BY <1>1, <2>3 DEF Opening, Arrives
    <3> QED
      BY <1>0, <3>1 DEF OverlapAt
  <2> QED
    BY <2>1, <2>2, <2>3
<1>6. IntactAt(d)'
  <2> SUFFICES ASSUME Opening(d)', task'[d].phase = "registering"
               PROVE  \A t \in Threads : t = task'[d].next => deletedVia'[t] = 0 \/ deletedVia'[t] # Home(d)'
    BY DEF IntactAt
  <2>1. task'[d] = task[d] /\ Home(d)' = Home(d) /\ Opening(d)
    BY <1>1 DEF Arrives, Opening
  <2>2. store' = store /\ deletedVia' = deletedVia
    BY DEF Arrives
  <2> QED
    BY <1>0, <2>1, <2>2 DEF IntactAt
<1>7. SwitchAt(d)'
  <2> SUFFICES ASSUME task'[d].phase = "switching", NEW f \in Threads, f = task'[d].next
      PROVE  /\ \A j \in Calls : bound'[j] = f => Home(j)' = f
             /\ \A e \in Calls : task'[e].kind = "delete" /\ task'[e].thread = f => task'[e].session = f
             /\ deletedVia'[f] \in {0, f}
             /\ task'[d].session # f
             /\ \A e \in Calls \ {d} : task'[e].next = f => task'[e].kind = "load" /\ task'[e].session = f
    BY DEF SwitchAt
  <2>1. d # c /\ task'[d] = task[d]
    BY <1>1 DEF Arrives
  <2>2. /\ \A j \in Calls : bound[j] = f => Home(j) = f
        /\ \A e \in Calls : task[e].kind = "delete" /\ task[e].thread = f => task[e].session = f
        /\ deletedVia[f] \in {0, f} /\ task[d].session # f
        /\ \A e \in Calls \ {d} : task[e].next = f => task[e].kind = "load" /\ task[e].session = f
    BY <1>0, <2>1 DEF SwitchAt
  <2>3. /\ f # 0 /\ task'[c].thread # f /\ task'[c].next # f
        /\ bound' = bound /\ deletedVia' = deletedVia
    BY <1>0 DEF Arrives
  <2>4. \A j \in Calls : bound[j] = f => IsInstance(j)
    BY <2>3 DEF HistoryInv, OnlyInstances
  <2> QED
    BY <1>1, <1>2, <2>1, <2>2, <2>3, <2>4
<1>8. DeleteAt(d)'
  <2> SUFFICES ASSUME task'[d].kind = "delete"
               PROVE  /\ \A k : k = task'[d].inst /\ k # 0 => IsInstance(k)' /\ Home(k)' = task'[d].session
                      /\ task'[d].inst = 0 /\ task'[d].phase = "deleting" =>
                           \A u \in Threads : u = task'[d].session /\ sessions'[u] # 0 => sessions'[u] \in raced'
    BY DEF DeleteAt, IsInstance, Home
  <2>1. CASE d = c
    <3>1. kind = "delete" /\ s \in Threads /\ i = sessions[s]
      BY <2>1 DEF Arrives
    <3>2. i # 0 => IsInstance(i) /\ Home(i) = s
      BY <3>1 DEF SessionsInv, Relations, Registered
    <3>3. task'[c].inst = i /\ task'[c].session = s
      BY DEF Arrives
    <3>4. i = 0 => sessions'[s] = 0
      BY <3>1 DEF Arrives
    <3> QED
      BY <1>2, <2>1, <3>2, <3>3, <3>4
  <2>2. CASE d # c
    <3>1. task'[d] = task[d]
      BY <1>1, <2>2
    <3>2. \A k : k = task[d].inst /\ k # 0 => IsInstance(k) /\ Home(k) = task[d].session
      BY <1>0, <3>1 DEF DeleteAt
    <3>3. ASSUME task[d].inst = 0, task[d].phase = "deleting", NEW u \in Threads, u = task[d].session,
                 sessions'[u] # 0
          PROVE  sessions'[u] \in raced'
      <4>1. sessions'[u] = sessions[u] /\ raced \subseteq raced'
        BY <3>3 DEF Arrives
      <4> QED
        BY <1>0, <3>1, <3>3, <4>1 DEF DeleteAt
    <3> QED
      BY <1>2, <3>1, <3>2, <3>3
  <2> QED
    BY <2>1, <2>2
<1> QED
  BY <1>3, <1>4, <1>5, <1>6, <1>7, <1>8

\* A new call keeps the invariant.
LEMMA ArrivesKeeps ==
  ASSUME SessionsInv, SessionsInv', HistoryInv, GhostInv,
         NEW c \in Calls, NEW kind, NEW s, NEW i, NEW ph, Arrives(c, kind, s, i, ph)
  PROVE  GhostInv'
<1>0. /\ UnusedUnnamed /\ DeletedStays /\ DeletesApart /\ NoGhostSession
      /\ RestTyped /\ RestTyped'
  BY TypesSplit, TypesSplitNext DEF GhostInv, SessionsInv
<1>1. UnusedUnnamed'
  <2>1. store' = store /\ bound' = bound
    BY DEF Arrives
  <2>2. ASSUME NEW t \in Threads, NEW d \in Calls, t \in Named(d)' PROVE store[t] # "unused"
    <3>1. CASE d = c
      <4>1. t = s
        BY <2>2, <3>1, SessionsAssumption DEF Arrives, Named, Threads
      <4> QED
        BY <1>0, <4>1, KnownInUse DEF Arrives
    <3>2. CASE d # c
      BY <1>0, <2>2, <3>2 DEF Arrives, Named, UnusedUnnamed
    <3> QED
      BY <3>1, <3>2
  <2> QED
    BY <1>0, <2>1, <2>2 DEF UnusedUnnamed
<1>2. DeletedStays'
  BY <1>0 DEF DeletedStays, Arrives
<1>3. DeletesApart'
  BY <1>0, ArrivesApart DEF DeletesApart
<1>4. NoGhostSession'
  <2> SUFFICES ASSUME NEW u \in Threads, NEW t \in Threads, Haunted(u, t)' PROVE Removing(u)'
    BY <1>0, GhostSplitNext
  <2>1. Haunted(u, t)
    BY DEF Haunted, Arrives
  <2>2. PICK d \in Calls : task[d].kind = "delete" /\ task[d].session = u /\ Phase(d, "removing")
    BY <1>0, <2>1, GhostSplit DEF Removing
  <2>3. task'[d] = task[d]
    BY <2>2 DEF Arrives, Phase
  <2> QED
    BY <2>2, <2>3 DEF Removing, Phase
<1> QED
  BY <1>1, <1>2, <1>3, <1>4 DEF GhostInv

\* The record a new call writes.
LEMMA RequestWrites ==
  ASSUME TaskTyped, NEW c \in Calls, NEW kind, NEW s, NEW i, NEW ph, Begins(c, kind, s, i, ph)
  PROVE  /\ task[c].phase = "idle" /\ \A d \in Calls : d # c => task'[d] = task[d]
         /\ task'[c].kind = kind /\ task'[c].session = s /\ task'[c].inst = i
         /\ task'[c].phase = ph /\ task'[c].thread = 0 /\ task'[c].next = 0
<1> DEFINE r == [NoTask EXCEPT !.kind = kind, !.session = s, !.inst = i, !.phase = ph]
<1>1. task' = [task EXCEPT ![c] = r]
  BY DEF Begins, Request
<1>2. r.thread = 0 /\ r.next = 0
  BY DEF NoTask
<1> HIDE DEF r
<1>3. task'[c].thread = 0 /\ task'[c].next = 0
  BY <1>1, <1>2 DEF TaskTyped
<1> QED
  BY <1>3, BeginsTyped

\* So does every call of the client arrive.
LEMMA ClientCallsArrive ==
  ASSUME SessionsInv, NEW c \in Calls, ClientCalls(c)
  PROVE  \E kind, s, i, ph : Arrives(c, kind, s, i, ph)
<1>1. TaskTyped /\ RestTyped
  BY TypesSplit DEF SessionsInv
<1>2. 0 \in 0..MaxThreads /\ 0 \in 0..MaxCalls /\ 0 \notin Threads
  BY SessionsAssumption DEF Threads
<1>3. CASE NewSession(c)
  <2>1. Begins(c, "new", 0, 0, "starting")
    BY <1>2, <1>3 DEF NewSession, Begins, Kinds, PromptKinds, FirstPhases
  <2>2. UNCHANGED <<store, deletedVia, sessions, bound, raced>>
    BY <1>3 DEF NewSession, storeVars, instanceVars
  <2>3. Arrives(c, "new", 0, 0, "starting")
    BY <1>1, <1>2, <2>1, <2>2, RequestWrites DEF Arrives, Bootstrapping
  <2> QED
    BY <2>3
<1>4. CASE \E s \in Threads : LoadSession(c, s)
  <2>1. PICK s \in Threads : LoadSession(c, s)
    BY <1>4
  <2>2. PICK ph \in {"resuming", "starting"} : Begins(c, "load", s, 0, ph)
    BY <1>2, <2>1, ThreadRange DEF LoadSession, Begins, Kinds, PromptKinds, FirstPhases
  <2>3. /\ UNCHANGED <<store, deletedVia, sessions, bound>> /\ Known(s)
        /\ raced \subseteq raced'
        /\ \A d \in Calls : Deleting(d) /\ task[d].session = s => c \in raced'
    BY <2>1 DEF LoadSession, storeVars, instanceVars, Deleting
  <2>4. Arrives(c, "load", s, 0, ph)
    BY <1>1, <2>2, <2>3, RequestWrites DEF Arrives, Bootstrapping
  <2> QED
    BY <2>4
<1>5. CASE \E s \in Threads : CloseSession(c, s)
  <2>1. PICK s \in Threads : CloseSession(c, s)
    BY <1>5
  <2>2. Begins(c, "close", s, 0, "ok")
    BY <1>2, <2>1, ThreadRange DEF CloseSession, Begins, Kinds, PromptKinds, FirstPhases
  <2>3. /\ UNCHANGED <<store, deletedVia, bound, raced>> /\ Known(s)
        /\ \A u \in Threads : sessions'[u] \in {0, sessions[u]}
    BY <1>1, <2>1 DEF CloseSession, RestTyped, storeVars, instanceVars
  <2>4. Arrives(c, "close", s, 0, "ok")
    BY <1>1, <2>2, <2>3, RequestWrites DEF Arrives, Bootstrapping
  <2> QED
    BY <2>4
<1>6. CASE \E s \in Threads : DeleteSession(c, s)
  <2>1. PICK s \in Threads : DeleteSession(c, s)
    BY <1>6
  <2>2. PICK i : i = sessions[s]
    OBVIOUS
  <2>3. PICK ph \in {"deleting", "reading"} :
          Begins(c, "delete", s, i, ph) /\ (ph = "deleting" => i = 0)
    <3>1. i \in 0..MaxCalls
      BY <1>1, <2>2 DEF RestTyped
    <3> QED
      BY <2>1, <2>2, <3>1, ThreadRange DEF DeleteSession, Begins, Kinds, PromptKinds, FirstPhases
  <2>4. /\ UNCHANGED <<store, deletedVia, sessions, bound>> /\ Known(s)
        /\ raced \subseteq raced'
        /\ \A d \in Calls : task[d].kind \in {"load", "fork"} /\ task[d].phase \in Bootstrapping
                              /\ Home(d) = s => d \in raced'
    BY <2>1 DEF DeleteSession, storeVars, instanceVars, Home
  <2>5. Arrives(c, "delete", s, i, ph)
    BY <1>1, <2>2, <2>3, <2>4, RequestWrites DEF Arrives, Bootstrapping
  <2> QED
    BY <2>5
<1>7. CASE \E s \in Threads : ForkSession(c, s)
  <2>1. PICK s \in Threads : ForkSession(c, s)
    BY <1>7
  <2>2. PICK i : i = sessions[s]
    OBVIOUS
  <2>3. PICK ph \in {"error", "forking"} : Begins(c, "fork", s, i, ph)
    <3>1. i \in 0..MaxCalls
      BY <1>1, <2>2 DEF RestTyped
    <3> QED
      BY <2>1, <2>2, <3>1, ThreadRange DEF ForkSession, Begins, Kinds, PromptKinds, FirstPhases
  <2>4. UNCHANGED <<store, deletedVia, sessions, bound, raced>> /\ Known(s)
    BY <2>1 DEF ForkSession, storeVars, instanceVars
  <2>5. Arrives(c, "fork", s, i, ph)
    BY <1>1, <2>3, <2>4, RequestWrites DEF Arrives, Bootstrapping
  <2> QED
    BY <2>5
<1>8. CASE \E s \in Threads : \E kind \in PromptKinds : Prompt(c, s, kind)
  <2>1. PICK s \in Threads, kind \in PromptKinds : Prompt(c, s, kind)
    BY <1>8
  <2> DEFINE ph == IF sessions[s] = 0 THEN "error"
                   ELSE CASE kind = "turn" -> "driving"
                          [] kind = "switch" -> "reading"
                          [] OTHER -> "resolving"
  <2>2. PICK i : i = sessions[s]
    OBVIOUS
  <2>3. i \in 0..MaxCalls
    BY <1>1, <2>2 DEF RestTyped
  <2>4. ph \in {"error", "driving", "reading", "resolving"} /\ (ph # "error" => i # 0)
    BY <2>2
  <2>5. /\ Request(c, kind, s, i, ph)
        /\ \A d \in Calls : task[d].kind \in PromptKinds /\ task[d].session = s => ~Busy(d)
        /\ UNCHANGED <<store, deletedVia, sessions, bound, raced>> /\ Known(s)
    BY <2>1, <2>2 DEF Prompt, Busy, storeVars, instanceVars
  <2> HIDE DEF ph
  <2>6. Begins(c, kind, s, i, ph)
    BY <2>2, <2>3, <2>4, <2>5, ThreadRange DEF Begins, Kinds, FirstPhases
  <2>7. Arrives(c, kind, s, i, ph)
    BY <1>1, <2>4, <2>5, <2>6, RequestWrites DEF Arrives, Bootstrapping, PromptKinds
  <2> QED
    BY <2>7
<1> QED
  BY <1>3, <1>4, <1>5, <1>6, <1>7, <1>8 DEF ClientCalls

-----------------------------------------------------------------------------
(* The theorem on deleted sessions.                                        *)

\* A step of a running call keeps the invariant.
LEMMA RunningCallsGhost ==
  ASSUME SessionsInv, SessionsInv', HistoryInv, GhostInv, NEW c \in Calls,
         Continue(c) \/ Pick(c) \/ BootstrapFails(c)
  PROVE  GhostInv'
<1>0. /\ UnusedUnnamed /\ DeletedStays /\ DeletesApart /\ NoGhostSession
      /\ NewPrivateAt(c) /\ FindingAt(c) /\ IntactAt(c) /\ SwitchAt(c) /\ DeleteAt(c)
  BY DEF GhostInv, DeletesApart
<1>1. ASSUME NEW ph, GhostStep(c, ph), NoGhostSession'
      PROVE  GhostInv'
  BY <1>0, <1>1, GhostStepKeeps DEF GhostInv
<1>2. CASE RegisterSession(c)
  BY <1>0, <1>1, <1>2, RegisteringCalls, RegisteringGhost
<1>3. CASE DeleteThread(c)
  BY <1>0, <1>1, <1>3, DeletingCalls, DeletingGhost
<1>4. CASE RemoveSession(c)
  BY <1>0, <1>1, <1>4, DeletingCalls, RemovingGhost
<1>5. CASE SwitchThread(c)
  BY <1>0, <1>1, <1>5, SwitchingCalls, SwitchingGhost
<1>6. CASE \/ BootstrapFails(c) \/ ForkFails(c) \/ RunTurn(c) \/ Resolve(c) \/ Pick(c)
           \/ ArchiveThread(c) \/ Unarchive(c) \/ StartThread(c) \/ StartReplacement(c)
           \/ (\E t \in Threads : ForkThread(c, t) \/ ForkLost(c, t)) \/ ResumeThread(c)
           \/ DiscoverPath(c) \/ ReadThread(c)
  <2>1. PICK ph : GhostStep(c, ph)
    BY <1>0, <1>6, QuietCalls, StartingCalls, FindingCalls, ReadingCalls
  <2> QED
    BY <1>0, <1>1, <1>6, <2>1, CalmCallsGhost
<1> QED
  BY <1>2, <1>3, <1>4, <1>5, <1>6 DEF Continue

\* So does every other.
LEMMA GhostKept ==
  ASSUME SessionsInv, SessionsInv', HistoryInv, GhostInv, [Next]_vars
  PROVE  GhostInv'
<1>1. CASE UNCHANGED <<store, deletedVia, sessions, bound, task, raced>>
  BY <1>1 DEF GhostInv, UnusedUnnamed, DeletedStays, DeletesApart, NoGhostSession, Named, NewPrivateAt,
     FindingAt, OverlapAt, IntactAt, SwitchAt, DeleteAt, Deleting, Opening, Home, IsInstance, Phase
<1>2. ASSUME NEW c \in Calls, ClientCalls(c) PROVE GhostInv'
  BY <1>2, ClientCallsArrive, ArrivesKeeps
<1> QED
  BY <1>1, <1>2, RunningCallsGhost DEF Next, ProcessDies, vars, storeVars, instanceVars

\* Before the first call there is nothing to delete.
LEMMA GhostInitially == Init => GhostInv
<1> SUFFICES ASSUME Init PROVE GhostInv
  OBVIOUS
<1>1. /\ \A t \in Threads : t # 0 /\ deletedVia[t] = 0 /\ sessions[t] = 0
      /\ \A c \in Calls : bound[c] = 0 /\ task[c] = NoTask
  BY SessionsAssumption DEF Init, Threads
<1>2. /\ NoTask.kind = "none" /\ NoTask.phase = "idle"
      /\ NoTask.session = 0 /\ NoTask.next = 0
  BY DEF NoTask
<1>3. UnusedUnnamed /\ DeletedStays
  BY <1>1, <1>2 DEF UnusedUnnamed, DeletedStays, Named
<1>4. DeletesApart
  BY <1>1, <1>2 DEF DeletesApart, NewPrivateAt, FindingAt, Finding, OverlapAt, IntactAt, SwitchAt,
     DeleteAt, Opening
<1>5. NoGhostSession
  BY <1>1 DEF NoGhostSession
<1> QED
  BY <1>3, <1>4, <1>5 DEF GhostInv

\* Once a delete is through, no session shows the thread it deleted, but one
\* that was loaded or forked while the delete was on its way (delete_session
\* and load_and_register_session, codex_agent.rs).
THEOREM DeletedSessionsStayGone == Spec => []NoGhostSession
<1>1. Init => HistoryInv
  BY DEF Init, NoTask, HistoryInv, OnlyInstances, LeavesBehind, LeavesAt
<1>2. SessionsInv /\ HistoryInv /\ GhostInv /\ [Next]_vars => GhostInv'
  BY StepKeeps, GhostKept
<1>3. GhostInv => NoGhostSession
  BY DEF GhostInv
<1> QED
  BY <1>1, <1>2, <1>3, GhostInitially, HistoryKept, Invariant, PTL DEF Spec
=============================================================================
