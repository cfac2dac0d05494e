--------------------------- MODULE SessionsProofs ---------------------------
(***************************************************************************)
(* Type correctness of Sessions and OwnThreadUsable, for every number of   *)
(* calls and threads.                                                      *)
(***************************************************************************)
EXTENDS Sessions, TLAPS

Busy(c) == task[c].phase \notin Returned \cup {"idle"}
IsInstance(i) == i \in Calls /\ task[i].phase = "ok" /\ task[i].kind \in {"new", "load", "fork"}
\* The one session an instance is registered under.
Home(i) == IF task[i].kind = "load" THEN task[i].session ELSE task[i].next

\* Which calls reach a phase.
OnInstance == Leaving \cup {"reading", "removing", "forking", "driving",
                            "resolving", "picking", "archiving", "retiring"}
ShapeAt(c) ==
  /\ task[c].phase \in OnInstance => task[c].inst \in Calls
  /\ task[c].phase \in Bootstrapping => task[c].kind \in {"new", "load", "fork"}
  /\ task[c].phase = "reading" => task[c].kind \in {"delete", "switch"}
  /\ task[c].phase = "forking" => task[c].kind \in {"fork", "switch"}
  /\ task[c].phase = "switching" => task[c].kind \in {"archive", "switch"}
  /\ task[c].phase \in {"archiving", "retiring", "replacing"} => task[c].kind = "archive"
  /\ task[c].phase \in {"resolving", "picking", "restoring"}
       => task[c].kind \in {"archive", "unarchive"}
Shape == \A c \in Calls : ShapeAt(c)

\* A session names an instance whose home it is.
Registered == \A s \in Threads :
  sessions[s] # 0 => IsInstance(sessions[s]) /\ Home(sessions[s]) = s

\* A running prompt works on the instance of its session; no two do.
PromptsAtHome == \A c \in Calls :
  task[c].kind \in PromptKinds /\ Busy(c)
    => IsInstance(Inst(c)) /\ Home(Inst(c)) = task[c].session
OnePrompt == \A c, d \in Calls :
  /\ task[c].kind \in PromptKinds /\ Busy(c)
  /\ task[d].kind \in PromptKinds /\ Busy(d)
  /\ task[c].session = task[d].session
  => c = d

\* Only an instance archives, and only a thread that exists.
Archivers == \A t \in Threads :
  archiver[t] # 0 => IsInstance(archiver[t]) /\ store[t] # "unused"

\* What /archive found out about its target is still so.
TargetAt(c) ==
  /\ task[c].phase = "retiring" => task[c].thread = bound[Inst(c)]
  /\ task[c].phase = "archiving" => task[c].thread # bound[Inst(c)]
ArchiveTarget == \A c \in Calls : TargetAt(c)

\* The instance that is about to move did not archive where it goes.
FreshAt(c) ==
  task[c].phase = "switching" => task[c].next \in Threads /\ archiver[task[c].next] # Inst(c)
FreshSwitch == \A c \in Calls : FreshAt(c)

\* The parts of the invariant beside the types.
Relations ==
  /\ Shape /\ Registered /\ PromptsAtHome /\ OnePrompt
  /\ Archivers /\ ArchiveTarget /\ FreshSwitch /\ OwnThreadUsable

SessionsInv == TypeOK /\ Relations

-----------------------------------------------------------------------------
(* The table of tasks.                                                     *)

TaskRecords == [kind : Kinds, phase : Phases, session : 0..MaxThreads,
                inst : 0..MaxCalls, thread : 0..MaxThreads,
                next : 0..MaxThreads, tries : 0..MaxRetries, shown : SUBSET Threads]
TaskTyped == task \in [Calls -> TaskRecords]

\* Call c goes on: it keeps what it is, and the other calls keep everything.
Moves(c, ph) ==
  /\ TaskTyped'
  /\ \A d \in Calls : d # c => task'[d] = task[d]
  /\ task'[c].kind = task[c].kind /\ task'[c].session = task[c].session
  /\ task'[c].inst = task[c].inst /\ task'[c].phase = ph

\* A step that only changes the phase.
LEMMA GoMoves ==
  ASSUME TaskTyped, NEW c \in Calls, NEW ph \in Phases, Go(c, ph)
  PROVE  /\ Moves(c, ph)
         /\ task'[c].thread = task[c].thread /\ task'[c].next = task[c].next
  BY DEF TaskTyped, TaskRecords, Go, Moves

\* A step that also remembers a thread, or the thread it created.
LEMMA ThreadMoves ==
  ASSUME TaskTyped, NEW c \in Calls, NEW ph \in Phases, NEW t \in 0..MaxThreads,
         task' = [task EXCEPT ![c].thread = t, ![c].phase = ph]
  PROVE  Moves(c, ph) /\ task'[c].thread = t /\ task'[c].next = task[c].next
  BY DEF TaskTyped, TaskRecords, Moves

\* A step that also remembers the thread it created or found.
LEMMA NextMoves ==
  ASSUME TaskTyped, NEW c \in Calls, NEW ph \in Phases, NEW t \in 0..MaxThreads,
         task' = [task EXCEPT ![c].phase = ph, ![c].next = t]
  PROVE  Moves(c, ph) /\ task'[c].next = t /\ task'[c].thread = task[c].thread
  BY DEF TaskTyped, TaskRecords, Moves

\* A retry.
LEMMA TriesMoves ==
  ASSUME TaskTyped, MaxRetries \in Nat, NEW c \in Calls, task[c].tries < MaxRetries,
         task' = [task EXCEPT ![c].tries = @ + 1]
  PROVE  Moves(c, task[c].phase)
  BY DEF TaskTyped, TaskRecords, Moves

\* A dialog opens.
LEMMA ShownMoves ==
  ASSUME TaskTyped, NEW c \in Calls, NEW ph \in Phases, NEW found \in SUBSET Threads,
         task' = [task EXCEPT ![c].shown = found, ![c].phase = ph]
  PROVE  Moves(c, ph) /\ task'[c].thread = task[c].thread
  BY DEF TaskTyped, TaskRecords, Moves

\* A dialog closes without a choice.
LEMMA CloseMoves ==
  ASSUME TaskTyped, NEW c \in Calls, NEW ph \in Phases,
         task' = [task EXCEPT ![c].phase = ph, ![c].shown = {}]
  PROVE  Moves(c, ph)
  BY DEF TaskTyped, TaskRecords, Moves

\* A dialog closes with a choice.
LEMMA ShownPickMoves ==
  ASSUME TaskTyped, NEW c \in Calls, NEW ph \in Phases, NEW t \in 0..MaxThreads,
         task' = [task EXCEPT ![c].thread = t, ![c].phase = ph, ![c].shown = {}]
  PROVE  Moves(c, ph) /\ task'[c].thread = t
  BY ZenonT(60) DEF TaskTyped, TaskRecords, Moves

-----------------------------------------------------------------------------
(* What every step of a running call keeps.                                *)

\* A running call is no instance yet, so its steps leave the instances be.
LEMMA InstanceStable ==
  ASSUME NEW c \in Calls, NEW ph, Moves(c, ph), Busy(c), NEW i, IsInstance(i)
  PROVE  IsInstance(i)' /\ Home(i)' = Home(i)
<1>1. i \in Calls /\ i # c
  BY DEF IsInstance, Busy, Returned
<1>2. task'[i] = task[i]
  BY <1>1 DEF Moves
<1> QED
  BY <1>1, <1>2 DEF IsInstance, Home

\* A running call that goes on disturbs no prompt.
LEMMA PromptsKept ==
  ASSUME PromptsAtHome, OnePrompt, NEW c \in Calls, NEW ph, Moves(c, ph), Busy(c)
  PROVE  PromptsAtHome' /\ OnePrompt'
<1>1. ASSUME NEW d \in Calls, Busy(d)'
      PROVE  /\ Busy(d)
             /\ task'[d].kind = task[d].kind /\ task'[d].session = task[d].session
             /\ Inst(d)' = Inst(d)
  BY <1>1 DEF Busy, Moves, Inst
<1>2. PromptsAtHome'
  <2> SUFFICES ASSUME NEW d \in Calls, task'[d].kind \in PromptKinds, Busy(d)'
               PROVE  IsInstance(Inst(d))' /\ Home(Inst(d))' = task'[d].session
    BY DEF PromptsAtHome
  <2>1. IsInstance(Inst(d)) /\ Home(Inst(d)) = task[d].session
    BY <1>1 DEF PromptsAtHome
  <2>2. PICK i : i = Inst(d)
    OBVIOUS
  <2>3. IsInstance(i)' /\ Home(i)' = Home(i)
    BY <2>1, <2>2, InstanceStable
  <2>4. Inst(d)' = i
    BY <1>1, <2>2
  <2> QED
    BY <1>1, <2>1, <2>2, <2>3, <2>4 DEF IsInstance, Home
<1>3. OnePrompt'
  BY <1>1 DEF OnePrompt
<1> QED
  BY <1>2, <1>3

\* The other calls stay in their phases.
LEMMA ShapeKept ==
  ASSUME Shape, NEW c \in Calls, NEW ph, Moves(c, ph), ShapeAt(c)'
  PROVE  Shape'
  BY DEF Shape, ShapeAt, Moves

\* An entry of the registry stays, or goes.
LEMMA RegisteredKept ==
  ASSUME Registered, NEW c \in Calls, NEW ph, Moves(c, ph), Busy(c),
         \A s \in Threads : sessions'[s] = 0 \/ sessions'[s] = sessions[s]
  PROVE  Registered'
<1> SUFFICES ASSUME NEW s \in Threads, sessions'[s] # 0
             PROVE  IsInstance(sessions[s])' /\ Home(sessions[s])' = s
  BY DEF Registered
<1>1. PICK i : i = sessions[s]
  OBVIOUS
<1>2. sessions'[s] = i /\ IsInstance(i) /\ Home(i) = s
  BY <1>1 DEF Registered
<1>3. IsInstance(i)' /\ Home(i)' = Home(i)
  BY <1>2, InstanceStable
<1> QED
  BY <1>2, <1>3 DEF IsInstance, Home

\* A thread keeps its archiver, or gets an instance for one.
LEMMA ArchiversKept ==
  ASSUME Archivers, NEW c \in Calls, NEW ph, Moves(c, ph), Busy(c),
         \A t \in Threads : store[t] # "unused" => store'[t] # "unused",
         \A t \in Threads : archiver'[t] = archiver[t]
           \/ \E i \in Calls : archiver'[t] = i /\ IsInstance(i) /\ store'[t] # "unused"
  PROVE  Archivers'
<1> SUFFICES ASSUME NEW t \in Threads, archiver'[t] # 0
             PROVE  IsInstance(archiver[t])' /\ store'[t] # "unused"
  BY DEF Archivers
<1>1. PICK i : i = archiver'[t]
  OBVIOUS
<1>2. IsInstance(i) /\ store'[t] # "unused"
  BY <1>1 DEF Archivers
<1>3. IsInstance(i)'
  BY <1>2, InstanceStable
<1> QED
  BY <1>1, <1>2, <1>3 DEF IsInstance

\* The targets of the other calls stand while no session moves.
LEMMA TargetKept ==
  ASSUME ArchiveTarget, NEW c \in Calls, NEW ph, Moves(c, ph), bound' = bound, TargetAt(c)'
  PROVE  ArchiveTarget'
  BY DEF ArchiveTarget, TargetAt, Moves, Inst

\* So do the threads the others are moving to while nothing is archived.
LEMMA FreshKept ==
  ASSUME FreshSwitch, NEW c \in Calls, NEW ph, Moves(c, ph), archiver' = archiver, FreshAt(c)'
  PROVE  FreshSwitch'
  BY DEF FreshSwitch, FreshAt, Moves, Inst

\* No call walks away from a thread it has archived.
StaysWith(c, ph) ==
  task[c].phase \in Leaving
    => /\ task'[c].thread = task[c].thread
       /\ ph \in Leaving \cup {"error"}
            \/ (task[c].thread \in Threads => store'[task[c].thread] # "archived")

\* Whoever accounts for an archived thread still does.
LEMMA OwnKept ==
  ASSUME OwnThreadUsable, NEW c \in Calls, NEW ph, Moves(c, ph), Busy(c), StaysWith(c, ph),
         NEW i \in Calls, NEW t \in Threads, bound[i] = t, store[t] = "archived",
         store'[t] = "archived", archiver[t] = i
  PROVE  \E d \in Calls : /\ task'[d].kind = "archive" /\ task'[d].inst = i
                          /\ task'[d].thread = t
                          /\ task'[d].phase \in Leaving \cup {"error"}
<1>1. PICK d \in Calls : /\ task[d].kind = "archive" /\ task[d].inst = i
                         /\ task[d].thread = t
                         /\ task[d].phase \in Leaving \cup {"error"}
  BY DEF OwnThreadUsable, Inst
<1>2. CASE d # c
  BY <1>1, <1>2 DEF Moves
<1>3. CASE d = c
  <2>1. task[c].phase \in Leaving
    BY <1>1, <1>3 DEF Busy, Returned
  <2> QED
    BY <1>1, <1>3, <2>1 DEF Moves, StaysWith
<1> QED
  BY <1>2, <1>3

\* A step that leaves the registry and the instances where they are and
\* archives nothing.
LEMMA QuietStep ==
  ASSUME SessionsInv, NEW c \in Calls, NEW ph, Moves(c, ph), Busy(c), StaysWith(c, ph),
         UNCHANGED <<archiver, sessions, bound>>,
         \A t \in Threads : store[t] # "unused" => store'[t] # "unused",
         \A t \in Threads : store'[t] = "archived" => store[t] = "archived",
         ShapeAt(c)', TargetAt(c)', FreshAt(c)'
  PROVE  Relations'
<1> USE DEF SessionsInv, Relations
<1>1. Shape'
  BY ShapeKept
<1>2. Registered'
  BY RegisteredKept
<1>3. PromptsAtHome' /\ OnePrompt'
  BY PromptsKept
<1>4. Archivers'
  BY ArchiversKept
<1>5. ArchiveTarget'
  BY TargetKept
<1>6. FreshSwitch'
  BY FreshKept
<1>7. OwnThreadUsable'
  BY OwnKept DEF OwnThreadUsable, Inst
<1> QED
  BY <1>1, <1>2, <1>3, <1>4, <1>5, <1>6, <1>7

-----------------------------------------------------------------------------
(* The steps of a running call.                                            *)

RestTyped ==
  /\ store \in [Threads -> {"unused", "unwritten", "active", "archived", "deleted"}]
  /\ archiver \in [Threads -> 0..MaxCalls]
  /\ deletedVia \in [Threads -> 0..MaxThreads]
  /\ sessions \in [Threads -> 0..MaxCalls]
  /\ bound \in [Calls -> 0..MaxThreads]
  /\ process \in [Calls -> {"none", "up", "down"}]
  /\ innerLock \in [Calls -> 0..MaxCalls]
  /\ bypass \in {"armed", "spent"}
  /\ raced \subseteq Calls

\* The types of the tasks, and those of everything else.
LEMMA TypesSplit == TypeOK <=> TaskTyped /\ RestTyped
  BY DEF TypeOK, TaskTyped, TaskRecords, RestTyped

\* The same after a step.
LEMMA TypesSplitNext == TypeOK' <=> TaskTyped' /\ RestTyped'
  BY DEF TypeOK, TaskTyped, TaskRecords, RestTyped

\* A thread is a thread id.
LEMMA ThreadRange == \A t \in Threads : t \in 0..MaxThreads
  BY SessionsAssumption DEF Threads

\* Steps that move a call on and at most give a thread a life or end it.
StoreStep ==
  \/ UNCHANGED store
  \/ \E t \in 0..MaxThreads : \E what \in {"unwritten", "active", "deleted"} : OnStore(t, what)

\* A step that moves a running call on keeps the invariant.
LEMMA WorkStep ==
  ASSUME SessionsInv, NEW c \in Calls, NEW ph, Moves(c, ph), Busy(c), StaysWith(c, ph),
         StoreStep,
         UNCHANGED <<archiver, sessions, bound, process, bypass, raced>>,
         deletedVia' \in [Threads -> 0..MaxThreads], innerLock' \in [Calls -> 0..MaxCalls],
         ShapeAt(c)', TargetAt(c)', FreshAt(c)'
  PROVE  SessionsInv'
<1>1. RestTyped
  BY TypesSplit DEF SessionsInv
<1>2. store' \in [Threads -> {"unused", "unwritten", "active", "archived", "deleted"}]
  BY <1>1 DEF StoreStep, OnStore, RestTyped
<1>3. TypeOK'
  BY <1>1, <1>2, TypesSplitNext DEF Moves, RestTyped
<1>4. /\ \A t \in Threads : store[t] # "unused" => store'[t] # "unused"
      /\ \A t \in Threads : store'[t] = "archived" => store[t] = "archived"
  BY <1>1 DEF StoreStep, OnStore, RestTyped
<1>5. Relations'
  BY <1>4, QuietStep
<1> QED
  BY <1>3, <1>5 DEF SessionsInv

\* What those steps leave alone is as well typed as it was.
LEMMA RestKept ==
  ASSUME SessionsInv
  PROVE  /\ TaskTyped
         /\ UNCHANGED deletedVia => deletedVia' \in [Threads -> 0..MaxThreads]
         /\ UNCHANGED innerLock => innerLock' \in [Calls -> 0..MaxCalls]
  BY TypesSplit DEF SessionsInv, RestTyped

\* A bootstrap that fails registers nothing.
LEMMA BootstrapFailsKeeps ==
  ASSUME SessionsInv, NEW c \in Calls, BootstrapFails(c)
  PROVE  SessionsInv'
<1>1. Moves(c, "error") /\ Busy(c)
  BY RestKept, GoMoves DEF BootstrapFails, Phases, Returned, Busy, Bootstrapping
<1>2. ShapeAt(c)' /\ TargetAt(c)' /\ FreshAt(c)'
  BY <1>1 DEF Moves, ShapeAt, TargetAt, FreshAt, OnInstance, Leaving, Bootstrapping
<1> QED
  BY <1>1, <1>2, WorkStep, RestKept
  DEF StaysWith, BootstrapFails, Bootstrapping, Leaving, StoreStep, storeVars, instanceVars

\* A fresh thread is known to its call only.
LEMMA StartThreadKeeps ==
  ASSUME SessionsInv, NEW c \in Calls, StartThread(c)
  PROVE  SessionsInv'
<1>1. PICK ph \in {"registering", "error"} : Moves(c, ph)
  BY RestKept, GoMoves, NextMoves, ThreadRange DEF StartThread, Phases, Bootstrapping, Returned
<1>2. Busy(c) /\ task[c].phase \notin Leaving
  BY DEF StartThread, Phase, Busy, Returned, Leaving
<1>3. ShapeAt(c)' /\ TargetAt(c)' /\ FreshAt(c)'
  BY <1>1 DEF StartThread, Phase, Moves, Shape, ShapeAt, TargetAt, FreshAt, OnInstance,
              Leaving, Bootstrapping, SessionsInv, Relations
<1> QED
  BY <1>1, <1>2, <1>3, WorkStep, RestKept, ThreadRange DEF StaysWith, StartThread, StoreStep, instanceVars

\* A resume changes nothing in the store.
LEMMA ResumeThreadKeeps ==
  ASSUME SessionsInv, NEW c \in Calls, ResumeThread(c)
  PROVE  SessionsInv'
<1>1. PICK ph \in {"registering", "resuming", "discovering"} : Moves(c, ph)
  <2>1. TaskTyped /\ Resumes(c) \in 0..MaxThreads
    BY RestKept DEF Resumes, TaskTyped, TaskRecords
  <2> QED
    BY ZenonT(60), <2>1, GoMoves, NextMoves, TriesMoves, SessionsAssumption
    DEF ResumeThread, Phase, Phases, Bootstrapping
<1>2. Busy(c) /\ task[c].phase \notin Leaving
  BY DEF ResumeThread, Phase, Busy, Returned, Leaving
<1>3. ShapeAt(c)' /\ TargetAt(c)' /\ FreshAt(c)'
  BY <1>1 DEF ResumeThread, Phase, Moves, Shape, ShapeAt, TargetAt, FreshAt, OnInstance,
              Leaving, Bootstrapping, SessionsInv, Relations
<1> QED
  BY <1>1, <1>2, <1>3, WorkStep, RestKept DEF StaysWith, ResumeThread, StoreStep, storeVars, instanceVars

\* Nor does a discovered path.
LEMMA DiscoverPathKeeps ==
  ASSUME SessionsInv, NEW c \in Calls, DiscoverPath(c)
  PROVE  SessionsInv'
<1>1. PICK ph \in {"registering", "starting", "error"} : Moves(c, ph)
  <2>1. TaskTyped /\ Resumes(c) \in 0..MaxThreads
    BY RestKept DEF Resumes, TaskTyped, TaskRecords
  <2> QED
    BY <2>1, GoMoves, NextMoves DEF DiscoverPath, OnRestoreFailure, Phases, Bootstrapping, Returned
<1>2. Busy(c) /\ task[c].phase \notin Leaving
  BY DEF DiscoverPath, Phase, Busy, Returned, Leaving
<1>3. ShapeAt(c)' /\ TargetAt(c)' /\ FreshAt(c)'
  BY <1>1 DEF DiscoverPath, Phase, Moves, Shape, ShapeAt, TargetAt, FreshAt, OnInstance,
              Leaving, Bootstrapping, SessionsInv, Relations
<1> QED
  BY <1>1, <1>2, <1>3, WorkStep, RestKept DEF StaysWith, DiscoverPath, StoreStep, storeVars, instanceVars

\* The id that is read is used later, by this call only.
LEMMA ReadThreadKeeps ==
  ASSUME SessionsInv, NEW c \in Calls, ReadThread(c)
  PROVE  SessionsInv'
<1> DEFINE ph == IF task[c].kind = "delete" THEN "deleting" ELSE "forking"
<1>1. task[c].inst \in Calls /\ task[c].kind \in {"delete", "switch"}
  BY DEF ReadThread, Phase, SessionsInv, Relations, Shape, ShapeAt, OnInstance
<1>2. Moves(c, ph)
  <2>1. bound[Inst(c)] \in 0..MaxThreads
    BY <1>1, TypesSplit DEF SessionsInv, RestTyped, Inst
  <2>2. task' = [task EXCEPT ![c].thread = bound[Inst(c)], ![c].phase = ph] /\ ph \in Phases
    BY DEF ReadThread, Phases
  <2> HIDE DEF ph
  <2> QED
    BY <2>1, <2>2, RestKept, ThreadMoves
<1>3. Busy(c) /\ task[c].phase \notin Leaving
  BY DEF ReadThread, Phase, Busy, Returned, Leaving
<1>4. ShapeAt(c)' /\ TargetAt(c)' /\ FreshAt(c)'
  BY <1>1, <1>2 DEF Moves, ShapeAt, TargetAt, FreshAt, OnInstance, Leaving, Bootstrapping
<1> QED
  BY <1>2, <1>3, <1>4, WorkStep, RestKept DEF StaysWith, ReadThread, StoreStep, storeVars, instanceVars

\* A deleted thread is not an archived one.
LEMMA DeleteThreadKeeps ==
  ASSUME SessionsInv, NEW c \in Calls, DeleteThread(c)
  PROVE  SessionsInv'
<1> DEFINE t == DeletesThread(c)
<1>1. TaskTyped /\ t \in 0..MaxThreads /\ task[c].session \in 0..MaxThreads
  BY RestKept DEF DeletesThread, TaskTyped, TaskRecords
<1>2. PICK ph \in {"removing", "ok", "error"} :
        Moves(c, ph) /\ (ph = "removing" => Inst(c) # 0)
  BY <1>1, GoMoves DEF DeleteThread, Phases, Returned
<1>3. Busy(c) /\ task[c].phase \notin Leaving
  BY DEF DeleteThread, Phase, Busy, Returned, Leaving
<1>4. task[c].inst \in 0..MaxCalls
  BY <1>1 DEF TaskTyped, TaskRecords
<1>5. ph = "removing" => task[c].inst \in Calls
  BY <1>2, <1>4, SessionsAssumption DEF Inst, Calls
<1>6. ShapeAt(c)' /\ TargetAt(c)' /\ FreshAt(c)'
  BY <1>2, <1>5 DEF Moves, ShapeAt, TargetAt, FreshAt, OnInstance, Leaving, Bootstrapping
<1>7. StoreStep
  BY <1>1 DEF DeleteThread, StoreStep
<1>8. deletedVia' \in [Threads -> 0..MaxThreads]
  BY <1>1, TypesSplit DEF DeleteThread, SessionsInv, RestTyped
<1> QED
  BY <1>2, <1>3, <1>6, <1>7, <1>8, WorkStep, RestKept DEF StaysWith, DeleteThread, instanceVars

\* The forked thread is new, so nobody archived it.
LEMMA ForkThreadKeeps ==
  ASSUME SessionsInv, NEW c \in Calls, NEW t \in Threads, ForkThread(c, t)
  PROVE  SessionsInv'
<1>1. TaskTyped /\ t \in 0..MaxThreads
  BY RestKept, ThreadRange
<1>2. PICK ph \in {"resuming", "switching"} :
        /\ Moves(c, ph) /\ task'[c].next = t
        /\ ph = IF task[c].kind = "fork" THEN "resuming" ELSE "switching"
  <2> DEFINE ph == IF task[c].kind = "fork" THEN "resuming" ELSE "switching"
  <2>1. task' = [task EXCEPT ![c].phase = ph, ![c].next = t]
    BY DEF ForkThread
  <2>2. ph \in {"resuming", "switching"} /\ ph \in Phases
    BY DEF Phases, Bootstrapping, Leaving
  <2> HIDE DEF ph
  <2>3. Moves(c, ph) /\ task'[c].next = t
    BY <1>1, <2>1, <2>2, NextMoves
  <2> QED
    BY <2>2, <2>3 DEF ph
<1>3. Busy(c) /\ task[c].phase \notin Leaving
  BY DEF ForkThread, Phase, Busy, Returned, Leaving
<1>4. Inst(c) \in Calls /\ task[c].kind \in {"fork", "switch"}
  BY DEF ForkThread, Phase, SessionsInv, Relations, Shape, ShapeAt, OnInstance, Inst
<1>5. archiver[t] = 0
  BY DEF ForkThread, Unused, SessionsInv, Relations, Archivers
<1>6. ShapeAt(c)' /\ TargetAt(c)'
  BY <1>2, <1>4 DEF Moves, ShapeAt, TargetAt, OnInstance, Leaving, Bootstrapping, Inst
<1>7. FreshAt(c)'
  BY <1>2, <1>4, <1>5, SessionsAssumption DEF Moves, FreshAt, ForkThread, Inst, Calls
<1> QED
  BY <1>1, <1>2, <1>3, <1>6, <1>7, WorkStep, RestKept DEF StaysWith, ForkThread, StoreStep, instanceVars

\* A failed fork ends its call.
LEMMA ForkFailsKeeps ==
  ASSUME SessionsInv, NEW c \in Calls, ForkFails(c)
  PROVE  SessionsInv'
<1>1. PICK ph \in Returned : Moves(c, ph)
  BY RestKept, GoMoves DEF ForkFails, Phases, Returned
<1>2. Busy(c) /\ task[c].phase \notin Leaving
  BY DEF ForkFails, Phase, Busy, Returned, Leaving
<1>3. ShapeAt(c)' /\ TargetAt(c)' /\ FreshAt(c)'
  BY <1>1 DEF Moves, ShapeAt, TargetAt, FreshAt, OnInstance, Leaving, Bootstrapping, Returned
<1> QED
  BY <1>1, <1>2, <1>3, WorkStep, RestKept DEF StaysWith, ForkFails, StoreStep, storeVars, instanceVars

\* A fork whose answer is lost leaves a thread that nobody archived.
LEMMA ForkLostKeeps ==
  ASSUME SessionsInv, NEW c \in Calls, NEW t \in Threads, ForkLost(c, t)
  PROVE  SessionsInv'
<1>1. Moves(c, "error") /\ t \in 0..MaxThreads
  BY RestKept, ThreadRange, GoMoves DEF ForkLost, Phases, Returned
<1>2. Busy(c) /\ task[c].phase \notin Leaving
  BY DEF ForkLost, Phase, Busy, Returned, Leaving
<1>3. ShapeAt(c)' /\ TargetAt(c)' /\ FreshAt(c)'
  BY <1>1 DEF Moves, ShapeAt, TargetAt, FreshAt, OnInstance, Leaving, Bootstrapping
<1> QED
  BY <1>1, <1>2, <1>3, WorkStep, RestKept DEF StaysWith, ForkLost, StoreStep, instanceVars

\* A turn writes its thread.
LEMMA RunTurnKeeps ==
  ASSUME SessionsInv, NEW c \in Calls, RunTurn(c)
  PROVE  SessionsInv'
<1>1. PICK ph \in Returned : Moves(c, ph)
  BY RestKept, GoMoves DEF RunTurn, Answered, Phases, Returned
<1>2. Busy(c) /\ task[c].phase \notin Leaving
  BY DEF RunTurn, Phase, Busy, Returned, Leaving
<1>3. ShapeAt(c)' /\ TargetAt(c)' /\ FreshAt(c)'
  BY <1>1 DEF Moves, ShapeAt, TargetAt, FreshAt, OnInstance, Leaving, Bootstrapping, Returned
<1>4. bound[Inst(c)] \in 0..MaxThreads
  BY TypesSplit DEF SessionsInv, RestTyped, RunTurn, Phase, Relations, Shape, ShapeAt,
                    OnInstance, Inst
<1> QED
  BY <1>1, <1>2, <1>3, <1>4, WorkStep, RestKept DEF StaysWith, RunTurn, StoreStep, instanceVars

\* Where a command goes with the thread it chose, it knows whose thread it is.
LEMMA ChosenTarget ==
  ASSUME SessionsInv, NEW c \in Calls, task[c].phase \in {"resolving", "picking"},
         NEW t \in Threads, Moves(c, Chosen(c, t)), task'[c].thread = t, bound' = bound
  PROVE  ShapeAt(c)' /\ TargetAt(c)' /\ FreshAt(c)'
<1>1. task[c].inst \in Calls /\ task[c].kind \in {"archive", "unarchive"}
  BY DEF SessionsInv, Relations, Shape, ShapeAt, OnInstance
<1>2. Inst(c)' = Inst(c)
  BY DEF Moves, Inst
<1> QED
  BY <1>1, <1>2 DEF Moves, Chosen, ShapeAt, TargetAt, FreshAt, OnInstance, Leaving,
                    Bootstrapping

\* What taking and dropping the inner lock writes.
LEMMA LockTyped ==
  ASSUME SessionsInv, NEW c \in Calls
  PROVE  /\ [innerLock EXCEPT ![Inst(c)] = c] \in [Calls -> 0..MaxCalls]
         /\ Unlock(c) => innerLock' \in [Calls -> 0..MaxCalls]
<1>1. innerLock \in [Calls -> 0..MaxCalls] /\ c \in 0..MaxCalls /\ 0 \in 0..MaxCalls
  BY TypesSplit, SessionsAssumption DEF SessionsInv, RestTyped, Calls
<1>2. ASSUME NEW i, NEW v \in 0..MaxCalls
      PROVE  [innerLock EXCEPT ![i] = v] \in [Calls -> 0..MaxCalls]
  BY <1>1
<1>3. CASE innerLock[Inst(c)] = c
  BY <1>1, <1>2, <1>3 DEF Unlock
<1>4. CASE innerLock[Inst(c)] # c
  <2>1. Unlock(c) => innerLock' = innerLock
    BY <1>1, <1>4 DEF Unlock
  <2> QED
    BY <1>1, <1>2, <2>1
<1> QED
  BY <1>3, <1>4

\* The command learns whether its target is the current thread.
LEMMA ResolveKeeps ==
  ASSUME SessionsInv, NEW c \in Calls, Resolve(c)
  PROVE  SessionsInv'
<1>1. Busy(c) /\ task[c].phase \notin Leaving /\ task[c].phase = "resolving"
  BY DEF Resolve, Phase, Busy, Returned, Leaving
<1>2. innerLock' \in [Calls -> 0..MaxCalls]
  BY LockTyped, RestKept DEF Resolve
<1>3. PICK ph \in Phases : Moves(c, ph) /\ ShapeAt(c)' /\ TargetAt(c)' /\ FreshAt(c)'
  <2>1. ASSUME NEW ph \in Returned, Go(c, ph)
        PROVE  Moves(c, ph) /\ ShapeAt(c)' /\ TargetAt(c)' /\ FreshAt(c)'
    <3>1. Moves(c, ph)
      BY <2>1, RestKept, GoMoves DEF Phases
    <3> QED
      BY <3>1, <2>1 DEF Moves, ShapeAt, TargetAt, FreshAt, OnInstance, Leaving, Bootstrapping, Returned
  <2>2. ASSUME NEW t \in Threads,
               task' = [task EXCEPT ![c].thread = t, ![c].phase = Chosen(c, t)]
        PROVE  /\ Chosen(c, t) \in Phases /\ Moves(c, Chosen(c, t))
               /\ ShapeAt(c)' /\ TargetAt(c)' /\ FreshAt(c)'
    <3>1. Chosen(c, t) \in Phases
      BY DEF Chosen, Phases, Leaving
    <3>2. Moves(c, Chosen(c, t)) /\ task'[c].thread = t
      BY <2>2, <3>1, RestKept, ThreadMoves, ThreadRange
    <3> QED
      BY <3>1, <3>2, <1>1, ChosenTarget DEF Resolve
  <2>3. ASSUME NEW found \in SUBSET Threads,
               task' = [task EXCEPT ![c].shown = found, ![c].phase = "picking"]
        PROVE  Moves(c, "picking") /\ ShapeAt(c)' /\ TargetAt(c)' /\ FreshAt(c)'
    <3>1. Moves(c, "picking")
      BY <2>3, RestKept, ShownMoves DEF Phases
    <3>2. task[c].inst \in Calls /\ task[c].kind \in {"archive", "unarchive"}
      BY <1>1 DEF SessionsInv, Relations, Shape, ShapeAt, OnInstance
    <3> QED
      BY <3>1, <3>2 DEF Moves, ShapeAt, TargetAt, FreshAt, OnInstance, Leaving, Bootstrapping
  <2>4. Candidates(c) \subseteq SUBSET Threads
    <3>1. Listed(c) \subseteq Threads
      BY DEF Listed
    <3>2. task[c].kind = "archive" /\ bound[Inst(c)] \in Listed(c) => {bound[Inst(c)]} \subseteq Threads
      BY <3>1
    <3> QED
      BY <3>1, <3>2 DEF Candidates
  <2> QED
    BY <2>1, <2>2, <2>3, <2>4 DEF Resolve, Phases, Returned
<1> QED
  BY <1>1, <1>2, <1>3, WorkStep, RestKept DEF StaysWith, Resolve, StoreStep, storeVars

\* So does the answer to the dialog.
LEMMA PickKeeps ==
  ASSUME SessionsInv, NEW c \in Calls, Pick(c)
  PROVE  SessionsInv'
<1>1. Busy(c) /\ task[c].phase \notin Leaving /\ task[c].phase = "picking"
  BY DEF Pick, Phase, Busy, Returned, Leaving
<1>2. innerLock' \in [Calls -> 0..MaxCalls]
  BY LockTyped, RestKept DEF Pick
<1>3. PICK ph \in Phases : Moves(c, ph) /\ ShapeAt(c)' /\ TargetAt(c)' /\ FreshAt(c)'
  <2>1. ASSUME NEW r \in Returned, task' = [task EXCEPT ![c].phase = r, ![c].shown = {}]
        PROVE  r \in Phases /\ Moves(c, r) /\ ShapeAt(c)' /\ TargetAt(c)' /\ FreshAt(c)'
    <3>1. r \in Phases /\ Moves(c, r)
      BY <2>1, RestKept, CloseMoves DEF Phases
    <3> QED
      BY <3>1 DEF Moves, ShapeAt, TargetAt, FreshAt, OnInstance, Leaving, Bootstrapping, Returned
  <2>2. ASSUME NEW t \in Threads,
               task' = [task EXCEPT ![c].thread = t, ![c].phase = Chosen(c, t), ![c].shown = {}]
        PROVE  /\ Chosen(c, t) \in Phases /\ Moves(c, Chosen(c, t))
               /\ ShapeAt(c)' /\ TargetAt(c)' /\ FreshAt(c)'
    <3>1. Chosen(c, t) \in Phases
      BY DEF Chosen, Phases, Leaving
    <3>2. Moves(c, Chosen(c, t)) /\ task'[c].thread = t
      BY <2>2, <3>1, RestKept, ShownPickMoves, ThreadRange
    <3> QED
      BY <3>1, <3>2, <1>1, ChosenTarget DEF Pick
  <2>3. task[c].shown \subseteq Threads
    BY RestKept DEF TaskTyped, TaskRecords
  <2> QED
    BY <2>1, <2>2, <2>3 DEF Pick
<1> QED
  BY <1>1, <1>2, <1>3, WorkStep, RestKept DEF StaysWith, Pick, StoreStep, storeVars

\* The replacement is new, so nobody archived it.
LEMMA StartReplacementKeeps ==
  ASSUME SessionsInv, NEW c \in Calls, StartReplacement(c)
  PROVE  SessionsInv'
<1>1. Busy(c) /\ task[c].inst \in Calls /\ task[c].kind = "archive"
  BY DEF StartReplacement, Phase, Busy, Returned, SessionsInv, Relations, Shape, ShapeAt,
         OnInstance, Leaving
<1>2. CASE Go(c, "restoring") /\ UNCHANGED store
  <2>1. Moves(c, "restoring") /\ task'[c].thread = task[c].thread
    BY <1>2, RestKept, GoMoves DEF Phases, Leaving
  <2>2. ShapeAt(c)' /\ TargetAt(c)' /\ FreshAt(c)'
    BY <1>1, <2>1 DEF Moves, ShapeAt, TargetAt, FreshAt, OnInstance, Leaving, Bootstrapping
  <2> QED
    BY <1>1, <1>2, <2>1, <2>2, WorkStep, RestKept
    DEF StaysWith, StartReplacement, StoreStep, instanceVars, Leaving
<1>3. ASSUME NEW t \in Threads, Unused(t), OnStore(t, "unwritten"),
             task' = [task EXCEPT ![c].phase = "switching", ![c].next = t]
      PROVE  SessionsInv'
  <2>1. Moves(c, "switching") /\ task'[c].next = t /\ task'[c].thread = task[c].thread
    BY <1>3, RestKept, NextMoves, ThreadRange DEF Phases, Leaving
  <2>2. archiver[t] = 0
    BY <1>3 DEF Unused, SessionsInv, Relations, Archivers
  <2>3. ShapeAt(c)' /\ TargetAt(c)'
    BY <1>1, <2>1 DEF Moves, ShapeAt, TargetAt, OnInstance, Leaving, Bootstrapping
  <2>4. FreshAt(c)'
    BY <1>1, <2>1, <2>2, SessionsAssumption DEF Moves, FreshAt, StartReplacement, Inst, Calls
  <2> QED
    BY <1>1, <1>3, <2>1, <2>3, <2>4, WorkStep, RestKept, ThreadRange
    DEF StaysWith, StartReplacement, StoreStep, instanceVars, Leaving
<1> QED
  BY <1>2, <1>3 DEF StartReplacement

\* A restored thread is no longer archived; a failure is reported.
LEMMA UnarchiveKeeps ==
  ASSUME SessionsInv, NEW c \in Calls, Unarchive(c)
  PROVE  SessionsInv'
<1>1. Busy(c) /\ task[c].thread \in 0..MaxThreads
  BY RestKept DEF Unarchive, Phase, Busy, Returned, TaskTyped, TaskRecords
<1>2. innerLock' \in [Calls -> 0..MaxCalls]
  BY LockTyped DEF Unarchive
<1>3. PICK ph \in Returned :
        /\ Moves(c, ph) /\ task'[c].thread = task[c].thread
        /\ ph = "error" \/ OnStore(task[c].thread, "active")
  BY RestKept, GoMoves DEF Unarchive, Answered, Phases, Returned
<1>4. ShapeAt(c)' /\ TargetAt(c)' /\ FreshAt(c)'
  BY <1>3 DEF Moves, ShapeAt, TargetAt, FreshAt, OnInstance, Leaving, Bootstrapping, Returned
<1>5. ph = "error" \/ (task[c].thread \in Threads => store'[task[c].thread] # "archived")
  BY <1>3, TypesSplit DEF OnStore, SessionsInv, RestTyped
<1>6. StoreStep
  BY <1>1 DEF Unarchive, StoreStep
<1> QED
  BY <1>1, <1>2, <1>3, <1>4, <1>5, <1>6, WorkStep, RestKept DEF StaysWith, Unarchive, Leaving

-----------------------------------------------------------------------------
(* Steps that touch the registry, the instances or the archive.            *)

\* A removed entry names no instance.
LEMMA RemoveSessionKeeps ==
  ASSUME SessionsInv, NEW c \in Calls, RemoveSession(c)
  PROVE  SessionsInv'
<1>1. Moves(c, "ok") /\ Busy(c)
  BY RestKept, GoMoves DEF RemoveSession, Phases, Phase, Busy, Returned
<1>2. sessions' \in [Threads -> 0..MaxCalls]
  <2>1. sessions \in [Threads -> 0..MaxCalls] /\ 0 \in 0..MaxCalls
    BY TypesSplit, SessionsAssumption DEF SessionsInv, RestTyped
  <2>2. PICK s : sessions' = [sessions EXCEPT ![s] = 0]
    BY DEF RemoveSession
  <2> QED
    BY <2>1, <2>2
<1>3. TypeOK'
  BY <1>1, <1>2, TypesSplit, TypesSplitNext
  DEF RemoveSession, SessionsInv, Moves, RestTyped, storeVars, instanceVars
<1>4. \A s \in Threads : sessions'[s] = 0 \/ sessions'[s] = sessions[s]
  BY TypesSplit DEF RemoveSession, SessionsInv, RestTyped
<1>5. ShapeAt(c)' /\ TargetAt(c)' /\ FreshAt(c)'
  BY <1>1 DEF Moves, ShapeAt, TargetAt, FreshAt, OnInstance, Leaving, Bootstrapping
<1>6. StaysWith(c, "ok")
  BY DEF RemoveSession, Phase, StaysWith, Leaving
<1>7. UNCHANGED <<store, archiver, bound>>
  BY DEF RemoveSession, storeVars, instanceVars
<1> HIDE DEF RemoveSession
<1>8. Relations'
  <2> USE DEF SessionsInv, Relations
  <2>1. Shape' /\ PromptsAtHome' /\ OnePrompt'
    BY <1>1, <1>5, ShapeKept, PromptsKept
  <2>2. Registered'
    BY <1>1, <1>4, RegisteredKept
  <2>3. Archivers' /\ ArchiveTarget' /\ FreshSwitch'
    BY <1>1, <1>5, <1>7, ArchiversKept, TargetKept, FreshKept
  <2>4. OwnThreadUsable'
    BY <1>1, <1>6, <1>7, OwnKept DEF OwnThreadUsable, Inst
  <2> QED
    BY <2>1, <2>2, <2>3, <2>4
<1> QED
  BY <1>3, <1>8 DEF SessionsInv

\* Two running prompts are on two instances.
LEMMA OnePromptPerInstance ==
  ASSUME SessionsInv, NEW c \in Calls, NEW d \in Calls,
         task[c].kind \in PromptKinds, Busy(c), task[d].kind \in PromptKinds, Busy(d),
         Inst(c) = Inst(d)
  PROVE  c = d /\ IsInstance(Inst(c))
<1>1. /\ IsInstance(Inst(c)) /\ Home(Inst(c)) = task[c].session
      /\ Home(Inst(d)) = task[d].session
  BY DEF SessionsInv, Relations, PromptsAtHome
<1>2. task[c].session = task[d].session
  BY <1>1
<1> QED
  BY <1>1, <1>2 DEF SessionsInv, Relations, OnePrompt

\* Calls in these phases are prompts, and run.
LEMMA CommandPhases ==
  ASSUME SessionsInv, NEW c \in Calls,
         task[c].phase \in Leaving \cup {"archiving", "retiring"}
  PROVE  task[c].kind \in PromptKinds /\ Busy(c) /\ task[c].inst \in Calls
  BY DEF SessionsInv, Relations, Shape, ShapeAt, OnInstance, Leaving, Busy, Returned, PromptKinds

\* A new instance archived nothing and serves one session.
LEMMA RegisterSessionKeeps ==
  ASSUME SessionsInv, NEW c \in Calls, RegisterSession(c)
  PROVE  SessionsInv'
<1> DEFINE s == IF task[c].kind = "load" THEN task[c].session ELSE task[c].next
<1>1. /\ task[c].phase = "registering" /\ Busy(c) /\ task[c].kind \in {"new", "load", "fork"}
      /\ bound' = [bound EXCEPT ![c] = task[c].next]
      /\ sessions' = [sessions EXCEPT ![s] = c]
      /\ UNCHANGED <<store, archiver>>
  BY DEF RegisterSession, Phase, Busy, Returned, SessionsInv, Relations, Shape, ShapeAt,
         Bootstrapping, storeVars
<1>2. Moves(c, "ok") /\ task'[c].next = task[c].next
  BY RestKept, GoMoves DEF RegisterSession, Phases, Returned
<1>3. TypeOK'
  <2>1. RestTyped /\ TaskTyped /\ c \in 0..MaxCalls
    BY TypesSplit, SessionsAssumption DEF SessionsInv, Calls
  <2>2. task[c].next \in 0..MaxThreads
    BY <2>1 DEF TaskTyped, TaskRecords
  <2>3. sessions' \in [Threads -> 0..MaxCalls] /\ bound' \in [Calls -> 0..MaxThreads]
    <3> HIDE DEF s
    <3> QED
      BY <1>1, <2>1, <2>2 DEF RestTyped
  <2>4. process' \in [Calls -> {"none", "up", "down"}]
    BY <2>1 DEF RegisterSession, RestTyped
  <2> QED
    BY <1>2, <2>1, <2>3, <2>4, TypesSplitNext DEF RegisterSession, RestTyped, Moves, storeVars
<1>4. ~IsInstance(c) /\ IsInstance(c)' /\ Home(c)' = s
  BY <1>1, <1>2 DEF IsInstance, Moves, Home
<1>5. Shape' /\ PromptsAtHome' /\ OnePrompt' /\ Archivers' /\ FreshSwitch'
  <2>1. ShapeAt(c)' /\ FreshAt(c)'
    BY <1>2 DEF Moves, ShapeAt, FreshAt, OnInstance, Leaving, Bootstrapping
  <2> QED
    BY <1>1, <1>2, <2>1, ShapeKept, PromptsKept, ArchiversKept, FreshKept
    DEF SessionsInv, Relations
<1>6. Registered'
  <2> SUFFICES ASSUME NEW u \in Threads, sessions'[u] # 0
               PROVE  \E i : sessions'[u] = i /\ IsInstance(i)' /\ Home(i)' = u
    BY DEF Registered, IsInstance, Home
  <2>1. sessions \in [Threads -> 0..MaxCalls]
    BY TypesSplit DEF SessionsInv, RestTyped
  <2>2. CASE u = s
    <3>1. sessions'[u] = c
      BY <1>1, <2>1, <2>2
    <3> QED
      BY <1>4, <2>2, <3>1
  <2>3. CASE u # s
    <3>1. PICK i : i = sessions[u]
      OBVIOUS
    <3>2. sessions'[u] = i
      BY <1>1, <2>1, <2>3, <3>1
    <3>3. IsInstance(i) /\ Home(i) = u
      BY <3>1, <3>2 DEF SessionsInv, Relations, Registered
    <3>4. IsInstance(i)' /\ Home(i)' = Home(i)
      BY <1>1, <1>2, <3>3, InstanceStable
    <3> QED
      BY <3>2, <3>3, <3>4
  <2> QED
    BY <2>2, <2>3
<1>7. ArchiveTarget'
  <2> SUFFICES ASSUME NEW d \in Calls PROVE TargetAt(d)'
    BY DEF ArchiveTarget
  <2>1. CASE d = c
    BY <1>2, <2>1 DEF Moves, TargetAt
  <2>2. CASE d # c /\ task[d].phase \in {"archiving", "retiring"}
    <3>1. IsInstance(Inst(d)) /\ Inst(d) # c
      BY <1>4, <2>2, CommandPhases, OnePromptPerInstance
    <3>2. bound'[Inst(d)] = bound[Inst(d)]
      BY <1>1, <3>1, TypesSplit DEF SessionsInv, RestTyped, IsInstance
    <3>3. TargetAt(d)
      BY DEF SessionsInv, Relations, ArchiveTarget
    <3>4. task'[d] = task[d]
      BY <1>2, <2>2 DEF Moves
    <3> QED
      BY <3>2, <3>3, <3>4 DEF TargetAt, Inst
  <2>3. CASE d # c /\ task[d].phase \notin {"archiving", "retiring"}
    BY <1>2, <2>3 DEF Moves, TargetAt
  <2> QED
    BY <2>1, <2>2, <2>3
<1>8. OwnThreadUsable'
  <2> SUFFICES ASSUME NEW i \in Calls, NEW t \in Threads, bound'[i] = t,
                      store[t] = "archived", archiver[t] = i
               PROVE  \E d \in Calls : /\ task'[d].kind = "archive" /\ task'[d].inst = i
                                      /\ task'[d].thread = t
                                      /\ task'[d].phase \in Leaving \cup {"error"}
    BY <1>1 DEF OwnThreadUsable, Inst
  <2>1. archiver[t] # 0
    BY SessionsAssumption DEF Calls
  <2>2. i # c
    BY <1>4, <2>1 DEF SessionsInv, Relations, Archivers
  <2>3. bound[i] = t
    BY <1>1, <2>2, TypesSplit DEF SessionsInv, RestTyped
  <2>4. StaysWith(c, "ok")
    BY <1>1 DEF StaysWith, Leaving
  <2> QED
    BY <1>1, <1>2, <2>3, <2>4, OwnKept DEF SessionsInv, Relations
<1> QED
  BY <1>3, <1>5, <1>6, <1>7, <1>8 DEF SessionsInv, Relations

\* Only a call that goes on to replace it archives the current thread.
LEMMA ArchiveThreadKeeps ==
  ASSUME SessionsInv, NEW c \in Calls, ArchiveThread(c)
  PROVE  SessionsInv'
<1> DEFINE t == task[c].thread
<1>1. /\ task[c].phase \in {"archiving", "retiring"} /\ task[c].kind = "archive"
      /\ IsInstance(Inst(c)) /\ Busy(c)
  BY CommandPhases, OnePromptPerInstance
  DEF ArchiveThread, SessionsInv, Relations, Shape, ShapeAt
<1>2. CASE Go(c, "error") /\ UNCHANGED <<store, archiver>>
  <2>1. Moves(c, "error")
    BY <1>2, RestKept, GoMoves DEF Phases, Returned
  <2>2. ShapeAt(c)' /\ TargetAt(c)' /\ FreshAt(c)'
    BY <2>1 DEF Moves, ShapeAt, TargetAt, FreshAt, OnInstance, Leaving, Bootstrapping
  <2> QED
    BY <1>1, <1>2, <2>1, <2>2, WorkStep, RestKept
    DEF ArchiveThread, StaysWith, StoreStep, instanceVars, Leaving
<1>3. ASSUME NEW ph, ph \in {IF task[c].phase = "retiring" THEN "replacing" ELSE "ok", "error"},
             Go(c, ph), OnStore(t, "archived"), archiver' = [archiver EXCEPT ![t] = Inst(c)],
             store[t] = "active", UNCHANGED <<deletedVia, sessions, instanceVars, bypass, raced>>
      PROVE  SessionsInv'
  <2>1. Moves(c, ph) /\ task'[c].thread = t
    <3>1. ph \in Phases
      BY <1>3 DEF Phases, Returned, Leaving
    <3> QED
      BY <1>3, <3>1, RestKept, GoMoves
  <2>2. TaskTyped /\ RestTyped /\ Inst(c) \in 0..MaxCalls
    BY TypesSplit DEF SessionsInv, TaskTyped, TaskRecords, Inst
  <2>3. TypeOK'
    <3>1. store' \in [Threads -> {"unused", "unwritten", "active", "archived", "deleted"}]
      BY <1>3, <2>2 DEF OnStore, RestTyped
    <3>2. archiver' \in [Threads -> 0..MaxCalls]
      BY <1>3, <2>2 DEF RestTyped
    <3> QED
      BY <1>3, <2>1, <2>2, <3>1, <3>2, TypesSplitNext DEF Moves, RestTyped, instanceVars
  <2>4. bound' = bound /\ sessions' = sessions
    BY <1>3 DEF instanceVars
  <2>5. Shape' /\ Registered' /\ PromptsAtHome' /\ OnePrompt' /\ ArchiveTarget'
    <3>1. ShapeAt(c)' /\ TargetAt(c)'
      BY <1>1, <1>3, <2>1 DEF Moves, ShapeAt, TargetAt, OnInstance, Leaving, Bootstrapping,
                              IsInstance, Inst
    <3> QED
      BY <1>1, <2>1, <2>4, <3>1, ShapeKept, RegisteredKept, PromptsKept, TargetKept
      DEF SessionsInv, Relations
  <2>6. Archivers'
    <3>1. /\ \A u \in Threads : store[u] # "unused" => store'[u] # "unused"
          /\ \A u \in Threads : archiver'[u] = archiver[u]
               \/ \E i \in Calls : archiver'[u] = i /\ IsInstance(i) /\ store'[u] # "unused"
      BY <1>1, <1>3, <2>2 DEF OnStore, RestTyped, IsInstance
    <3> QED
      BY <1>1, <2>1, <3>1, ArchiversKept DEF SessionsInv, Relations
  <2>7. FreshSwitch'
    <3> SUFFICES ASSUME NEW d \in Calls PROVE FreshAt(d)'
      BY DEF FreshSwitch
    <3>1. CASE d = c
      BY <1>3, <2>1, <3>1 DEF Moves, FreshAt
    <3>2. CASE d # c /\ task[d].phase = "switching"
      <4>1. Inst(d) # Inst(c)
        BY <1>1, <3>2, CommandPhases, OnePromptPerInstance DEF Leaving
      <4>2. FreshAt(d) /\ task'[d] = task[d]
        BY <2>1, <3>2 DEF Moves, SessionsInv, Relations, FreshSwitch
      <4>3. archiver'[task[d].next] \in {archiver[task[d].next], Inst(c)}
        BY <1>3, <2>2, <3>2, <4>2 DEF RestTyped, FreshAt
      <4> QED
        BY <4>1, <4>2, <4>3 DEF FreshAt, Inst
    <3>3. CASE d # c /\ task[d].phase # "switching"
      BY <2>1, <3>3 DEF Moves, FreshAt
    <3> QED
      BY <3>1, <3>2, <3>3
  <2>8. OwnThreadUsable'
    <3> SUFFICES ASSUME NEW i \in Calls, NEW u \in Threads, bound[i] = u,
                        store'[u] = "archived", archiver'[u] = i
                 PROVE  \E d \in Calls : /\ task'[d].kind = "archive" /\ task'[d].inst = i
                                        /\ task'[d].thread = u
                                        /\ task'[d].phase \in Leaving \cup {"error"}
      BY <2>4 DEF OwnThreadUsable, Inst
    <3>1. CASE u # t
      <4>1. store[u] = "archived" /\ archiver[u] = i
        BY <1>3, <2>2, <3>1 DEF OnStore, RestTyped
      <4>2. StaysWith(c, ph)
        BY <1>1 DEF StaysWith, Leaving
      <4> QED
        BY <1>1, <2>1, <4>1, <4>2, OwnKept DEF SessionsInv, Relations
    <3>2. CASE u = t
      <4>1. i = Inst(c)
        BY <1>3, <2>2, <3>2 DEF RestTyped
      <4>2. task[c].phase = "retiring"
        BY <1>1, <3>2, <4>1 DEF SessionsInv, Relations, ArchiveTarget, TargetAt
      <4> QED
        BY <1>1, <1>3, <2>1, <3>2, <4>1, <4>2 DEF Moves, Inst, Leaving
    <3> QED
      BY <3>1, <3>2
  <2> QED
    BY <2>3, <2>5, <2>6, <2>7, <2>8 DEF SessionsInv, Relations
<1> QED
  BY <1>2, <1>3 DEF ArchiveThread, Answered, Phase

\* The session moves to a thread it did not archive.
LEMMA SwitchThreadKeeps ==
  ASSUME SessionsInv, NEW c \in Calls, SwitchThread(c)
  PROVE  SessionsInv'
<1>1. /\ task[c].phase = "switching" /\ task[c].kind \in PromptKinds /\ Busy(c)
      /\ task[c].kind \in {"archive", "switch"} /\ IsInstance(Inst(c))
      /\ task[c].inst \in Calls
  BY CommandPhases, OnePromptPerInstance
  DEF SwitchThread, Phase, Leaving, SessionsInv, Relations, Shape, ShapeAt
<1>2. CASE /\ ~ProcessUp(c) /\ UNCHANGED bound
           /\ Go(c, IF task[c].kind = "archive" THEN "restoring" ELSE "error")
  <2> DEFINE ph == IF task[c].kind = "archive" THEN "restoring" ELSE "error"
  <2>1. Moves(c, ph) /\ task'[c].thread = task[c].thread
    <3>1. ph \in Phases
      BY DEF Phases, Returned, Leaving
    <3> QED
      BY <1>2, <3>1, RestKept, GoMoves
  <2>2. ShapeAt(c)' /\ TargetAt(c)' /\ FreshAt(c)'
    BY <1>1, <2>1 DEF Moves, ShapeAt, TargetAt, FreshAt, OnInstance, Leaving, Bootstrapping
  <2>3. StaysWith(c, ph)
    BY <2>1 DEF StaysWith, Leaving
  <2> HIDE DEF ph
  <2> QED
    BY <1>1, <1>2, <2>1, <2>2, <2>3, WorkStep, RestKept DEF SwitchThread, StoreStep, storeVars
<1>3. CASE Go(c, "ok") /\ bound' = [bound EXCEPT ![Inst(c)] = task[c].next]
  <2>1. Moves(c, "ok")
    BY <1>3, RestKept, GoMoves DEF Phases, Returned
  <2>2. TaskTyped /\ RestTyped
    BY TypesSplit DEF SessionsInv
  <2>3. TypeOK'
    <3>1. bound' \in [Calls -> 0..MaxThreads]
      BY <1>3, <2>2 DEF TaskTyped, TaskRecords, RestTyped
    <3> QED
      BY <2>1, <2>2, <3>1, TypesSplitNext DEF SwitchThread, RestTyped, Moves, storeVars
  <2>4. UNCHANGED <<store, archiver, sessions>>
    BY DEF SwitchThread, storeVars
  <2>5. /\ Shape' /\ Registered' /\ PromptsAtHome' /\ OnePrompt' /\ Archivers'
        /\ FreshSwitch'
    <3>1. ShapeAt(c)' /\ FreshAt(c)'
      BY <2>1 DEF Moves, ShapeAt, FreshAt, OnInstance, Leaving, Bootstrapping
    <3> QED
      BY <1>1, <2>1, <2>4, <3>1, ShapeKept, RegisteredKept, PromptsKept, ArchiversKept, FreshKept
      DEF SessionsInv, Relations
  <2>6. ArchiveTarget'
    <3> SUFFICES ASSUME NEW d \in Calls PROVE TargetAt(d)'
      BY DEF ArchiveTarget
    <3>1. CASE d = c
      BY <2>1, <3>1 DEF Moves, TargetAt
    <3>2. CASE d # c /\ task[d].phase \in {"archiving", "retiring"}
      <4>1. Inst(d) # Inst(c) /\ Inst(d) \in Calls
        BY <1>1, <3>2, CommandPhases, OnePromptPerInstance DEF Inst
      <4>2. bound'[Inst(d)] = bound[Inst(d)]
        BY <1>3, <2>2, <4>1 DEF RestTyped
      <4>3. TargetAt(d) /\ task'[d] = task[d]
        BY <2>1, <3>2 DEF Moves, SessionsInv, Relations, ArchiveTarget
      <4> QED
        BY <4>2, <4>3 DEF TargetAt, Inst
    <3>3. CASE d # c /\ task[d].phase \notin {"archiving", "retiring"}
      BY <2>1, <3>3 DEF Moves, TargetAt
    <3> QED
      BY <3>1, <3>2, <3>3
  <2>7. OwnThreadUsable'
    <3> SUFFICES ASSUME NEW i \in Calls, NEW t \in Threads, bound'[i] = t,
                        store[t] = "archived", archiver[t] = i
                 PROVE  \E d \in Calls : /\ task'[d].kind = "archive" /\ task'[d].inst = i
                                        /\ task'[d].thread = t
                                        /\ task'[d].phase \in Leaving \cup {"error"}
      BY <2>4 DEF OwnThreadUsable, Inst
    <3>1. i # Inst(c)
      BY <1>1, <1>3, <2>2 DEF SessionsInv, Relations, FreshSwitch, FreshAt, RestTyped, Inst
    <3>2. bound[i] = t
      BY <1>3, <2>2, <3>1 DEF RestTyped
    <3>3. PICK d \in Calls : /\ task[d].kind = "archive" /\ task[d].inst = i
                             /\ task[d].thread = t
                             /\ task[d].phase \in Leaving \cup {"error"}
      BY <3>2 DEF SessionsInv, Relations, OwnThreadUsable, Inst
    <3>4. d # c
      BY <3>1, <3>3 DEF Inst
    <3> QED
      BY <2>1, <3>3, <3>4 DEF Moves
  <2> QED
    BY <2>3, <2>5, <2>6, <2>7 DEF SessionsInv, Relations
<1> QED
  BY <1>2, <1>3 DEF SwitchThread

-----------------------------------------------------------------------------
(* New calls, and a process that dies.                                     *)

\* The phases a call may begin with.
FirstPhases == {"starting", "resuming", "ok", "error", "reading", "deleting",
                "forking", "driving", "resolving"}

\* A new call: a prompt finds its session's instance, and no other prompt.
Begins(c, kind, s, i, ph) ==
  /\ Request(c, kind, s, i, ph)
  /\ kind \in Kinds /\ s \in 0..MaxThreads /\ i \in 0..MaxCalls /\ ph \in FirstPhases
  /\ kind \in PromptKinds /\ ph # "error"
       => /\ s \in Threads /\ i = sessions[s] /\ i # 0
          /\ \A d \in Calls : task[d].kind \in PromptKinds /\ task[d].session = s => ~Busy(d)

\* The task of a call not yet made.
LEMMA NoTaskTyped == NoTask \in TaskRecords
<1>1. 0 \in 0..MaxThreads /\ 0 \in 0..MaxCalls /\ 0 \in 0..MaxRetries
  BY SessionsAssumption
<1> QED
  BY <1>1 DEF NoTask, TaskRecords, Kinds, Phases

\* What a new call writes into the table of tasks.
LEMMA BeginsTyped ==
  ASSUME TaskTyped, NEW c \in Calls, NEW kind, NEW s, NEW i, NEW ph, Begins(c, kind, s, i, ph)
  PROVE  /\ TaskTyped' /\ task[c].phase = "idle"
         /\ \A d \in Calls : d # c => task'[d] = task[d]
         /\ task'[c].kind = kind /\ task'[c].session = s /\ task'[c].inst = i
         /\ task'[c].phase = ph
<1> DEFINE r == [NoTask EXCEPT !.kind = kind, !.session = s, !.inst = i, !.phase = ph]
<1>1. task' = [task EXCEPT ![c] = r] /\ task[c].phase = "idle"
  BY DEF Begins, Request, Phase
<1>2. ph \in Phases
  BY DEF Begins, FirstPhases, Phases, Bootstrapping, Leaving, Returned
<1>3. r \in TaskRecords /\ r.kind = kind /\ r.session = s /\ r.inst = i /\ r.phase = ph
  <2>1. NoTask \in TaskRecords
    BY NoTaskTyped
  <2>2. kind \in Kinds /\ s \in 0..MaxThreads /\ i \in 0..MaxCalls
    BY DEF Begins
  <2> QED
    BY <1>2, <2>1, <2>2 DEF TaskRecords
<1> HIDE DEF r
<1> QED
  BY <1>1, <1>3 DEF TaskTyped

\* A new call touches the registry at most by removing an entry.
LEMMA BeginsKeeps ==
  ASSUME SessionsInv, NEW c \in Calls, NEW kind, NEW s, NEW i, NEW ph,
         Begins(c, kind, s, i, ph), ShapeAt(c)',
         UNCHANGED <<store, archiver, bound>>, RestTyped',
         \A u \in Threads : sessions'[u] = 0 \/ sessions'[u] = sessions[u]
  PROVE  SessionsInv'
<1>1. /\ TaskTyped' /\ task[c].phase = "idle"
      /\ \A d \in Calls : d # c => task'[d] = task[d]
      /\ task'[c].kind = kind /\ task'[c].session = s /\ task'[c].inst = i
      /\ task'[c].phase = ph
  BY BeginsTyped, TypesSplit DEF SessionsInv
<1>2. ASSUME NEW k, IsInstance(k)
      PROVE  IsInstance(k)' /\ Home(k)' = Home(k)
  BY <1>1, <1>2 DEF IsInstance, Home
<1>3. Shape'
  BY <1>1 DEF SessionsInv, Relations, Shape, ShapeAt
<1>4. Registered'
  <2> SUFFICES ASSUME NEW u \in Threads, sessions'[u] # 0
               PROVE  \E k : sessions'[u] = k /\ IsInstance(k)' /\ Home(k)' = u
    BY DEF Registered, IsInstance, Home
  <2>1. PICK k : k = sessions[u]
    OBVIOUS
  <2>2. sessions'[u] = k /\ IsInstance(k) /\ Home(k) = u
    BY <2>1 DEF SessionsInv, Relations, Registered
  <2> QED
    BY <1>2, <2>2
<1>5. ASSUME NEW d \in Calls, task'[d].kind \in PromptKinds, Busy(d)'
      PROVE  \E k : Inst(d)' = k /\ IsInstance(k) /\ Home(k) = task'[d].session
  <2>1. CASE d = c
    <3>1. ph # "error" /\ kind \in PromptKinds
      BY <1>1, <1>5, <2>1 DEF Busy, Returned
    <3>2. IsInstance(i) /\ Home(i) = s
      BY <3>1 DEF Begins, SessionsInv, Relations, Registered
    <3> QED
      BY <1>1, <2>1, <3>2 DEF Inst
  <2>2. CASE d # c
    BY <1>1, <1>5, <2>2 DEF Busy, Inst, SessionsInv, Relations, PromptsAtHome
  <2> QED
    BY <2>1, <2>2
<1>6. PromptsAtHome'
  <2> SUFFICES ASSUME NEW d \in Calls, task'[d].kind \in PromptKinds, Busy(d)'
               PROVE  IsInstance(Inst(d))' /\ Home(Inst(d))' = task'[d].session
    BY DEF PromptsAtHome
  <2>1. PICK k : Inst(d)' = k /\ IsInstance(k) /\ Home(k) = task'[d].session
    BY <1>5
  <2>2. IsInstance(k)' /\ Home(k)' = Home(k)
    BY <1>2, <2>1
  <2> QED
    BY <2>1, <2>2 DEF IsInstance, Home
<1>7. OnePrompt'
  <2>1. ASSUME NEW d \in Calls, d # c, task'[d].kind \in PromptKinds, Busy(d)',
               task'[d].session = s, kind \in PromptKinds, ph # "error"
        PROVE  FALSE
    BY <1>1, <2>1 DEF Begins, Busy
  <2>2. Busy(c)' => ph # "error"
    BY <1>1 DEF Busy, Returned
  <2> QED
    BY <1>1, <2>1, <2>2 DEF OnePrompt, SessionsInv, Relations, Busy
<1>8. Archivers'
  <2> SUFFICES ASSUME NEW t \in Threads, archiver'[t] # 0
               PROVE  \E k : archiver'[t] = k /\ IsInstance(k)' /\ store'[t] # "unused"
    BY DEF Archivers, IsInstance
  <2> QED
    BY <1>2 DEF SessionsInv, Relations, Archivers
<1>9. ArchiveTarget' /\ FreshSwitch'
  <2>1. TargetAt(c)' /\ FreshAt(c)'
    BY <1>1 DEF TargetAt, FreshAt, Begins, FirstPhases
  <2> QED
    BY <1>1, <2>1 DEF ArchiveTarget, FreshSwitch, TargetAt, FreshAt, Inst, SessionsInv, Relations
<1>10. OwnThreadUsable'
  <2> SUFFICES ASSUME NEW k \in Calls, NEW t \in Threads, bound[k] = t,
                      store[t] = "archived", archiver[t] = k
               PROVE  \E d \in Calls : /\ task'[d].kind = "archive" /\ task'[d].inst = k
                                      /\ task'[d].thread = t
                                      /\ task'[d].phase \in Leaving \cup {"error"}
    BY DEF OwnThreadUsable, Inst
  <2>1. PICK d \in Calls : /\ task[d].kind = "archive" /\ task[d].inst = k
                           /\ task[d].thread = t
                           /\ task[d].phase \in Leaving \cup {"error"}
    BY DEF SessionsInv, Relations, OwnThreadUsable, Inst
  <2>2. d # c
    BY <1>1, <2>1 DEF Leaving
  <2> QED
    BY <1>1, <2>1, <2>2
<1>11. TypeOK'
  BY <1>1, TypesSplitNext
<1> QED
  BY <1>3, <1>4, <1>6, <1>7, <1>8, <1>9, <1>10, <1>11 DEF SessionsInv, Relations

\* Every call of the client begins so.
LEMMA ClientCallsKeep ==
  ASSUME SessionsInv, NEW c \in Calls, ClientCalls(c)
  PROVE  SessionsInv'
<1>1. TaskTyped /\ RestTyped
  BY TypesSplit DEF SessionsInv
<1>2. 0 \in 0..MaxThreads /\ 0 \in 0..MaxCalls
  BY SessionsAssumption
<1>3. CASE NewSession(c)
  <2>1. Begins(c, "new", 0, 0, "starting")
    BY <1>2, <1>3 DEF NewSession, Begins, Kinds, PromptKinds, FirstPhases
  <2>2. ShapeAt(c)'
    BY <1>1, <2>1, BeginsTyped DEF ShapeAt, OnInstance, Leaving, Bootstrapping
  <2>3. UNCHANGED <<storeVars, sessions, instanceVars, bypass, raced>>
    BY <1>3 DEF NewSession
  <2> QED
    BY <1>1, <2>1, <2>2, <2>3, BeginsKeeps DEF RestTyped, storeVars, instanceVars
<1>4. CASE \E s \in Threads : LoadSession(c, s)
  <2>1. PICK s \in Threads : LoadSession(c, s)
    BY <1>4
  <2>2. PICK ph \in {"resuming", "starting"} : Begins(c, "load", s, 0, ph)
    BY <1>2, <2>1, ThreadRange DEF LoadSession, Begins, Kinds, PromptKinds, FirstPhases
  <2>3. ShapeAt(c)'
    BY <1>1, <2>2, BeginsTyped DEF ShapeAt, OnInstance, Leaving, Bootstrapping
  <2>4. /\ UNCHANGED <<storeVars, sessions, instanceVars>>
        /\ bypass' \in {"armed", "spent"} /\ raced' \subseteq Calls
    BY <1>1, <2>1 DEF LoadSession, RestTyped
  <2> QED
    BY <1>1, <2>2, <2>3, <2>4, BeginsKeeps DEF RestTyped, storeVars, instanceVars
<1>5. CASE \E s \in Threads : CloseSession(c, s)
  <2>1. PICK s \in Threads : CloseSession(c, s)
    BY <1>5
  <2>2. Begins(c, "close", s, 0, "ok")
    BY <1>2, <2>1, ThreadRange DEF CloseSession, Begins, Kinds, PromptKinds, FirstPhases
  <2>3. ShapeAt(c)'
    BY <1>1, <2>2, BeginsTyped DEF ShapeAt, OnInstance, Leaving, Bootstrapping
  <2>4. /\ UNCHANGED <<storeVars, instanceVars, bypass, raced>>
        /\ sessions' \in [Threads -> 0..MaxCalls]
        /\ \A u \in Threads : sessions'[u] = 0 \/ sessions'[u] = sessions[u]
    BY <1>1, <1>2, <2>1 DEF CloseSession, RestTyped
  <2> QED
    BY <1>1, <2>2, <2>3, <2>4, BeginsKeeps DEF RestTyped, storeVars, instanceVars
<1>6. CASE \E s \in Threads : DeleteSession(c, s)
  <2>1. PICK s \in Threads : DeleteSession(c, s)
    BY <1>6
  <2>2. sessions[s] \in 0..MaxCalls /\ (sessions[s] # 0 => sessions[s] \in Calls)
    BY <1>1, SessionsAssumption DEF RestTyped, Calls
  <2>3. Begins(c, "delete", s, sessions[s], IF sessions[s] = 0 THEN "deleting" ELSE "reading")
    BY <2>1, <2>2, ThreadRange DEF DeleteSession, Begins, Kinds, PromptKinds, FirstPhases
  <2>4. ShapeAt(c)'
    BY <1>1, <2>2, <2>3, BeginsTyped DEF ShapeAt, OnInstance, Leaving, Bootstrapping
  <2>5. UNCHANGED <<storeVars, sessions, instanceVars, bypass>> /\ raced' \subseteq Calls
    BY <1>1, <2>1 DEF DeleteSession, RestTyped
  <2> QED
    BY <1>1, <2>3, <2>4, <2>5, BeginsKeeps DEF RestTyped, storeVars, instanceVars
<1>7. CASE \E s \in Threads : ForkSession(c, s)
  <2>1. PICK s \in Threads : ForkSession(c, s)
    BY <1>7
  <2>2. sessions[s] \in 0..MaxCalls /\ (sessions[s] # 0 => sessions[s] \in Calls)
    BY <1>1, SessionsAssumption DEF RestTyped, Calls
  <2>3. Begins(c, "fork", s, sessions[s], IF sessions[s] = 0 THEN "error" ELSE "forking")
    BY <2>1, <2>2, ThreadRange DEF ForkSession, Begins, Kinds, PromptKinds, FirstPhases
  <2>4. ShapeAt(c)'
    BY <1>1, <2>2, <2>3, BeginsTyped DEF ShapeAt, OnInstance, Leaving, Bootstrapping
  <2>5. UNCHANGED <<storeVars, sessions, instanceVars, bypass, raced>>
    BY <2>1 DEF ForkSession
  <2> QED
    BY <1>1, <2>3, <2>4, <2>5, BeginsKeeps DEF RestTyped, storeVars, instanceVars
<1>8. CASE \E s \in Threads : \E kind \in PromptKinds : Prompt(c, s, kind)
  <2>1. PICK s \in Threads, kind \in PromptKinds : Prompt(c, s, kind)
    BY <1>8
  <2> DEFINE ph == IF sessions[s] = 0 THEN "error"
                   ELSE CASE kind = "turn" -> "driving"
                          [] kind = "switch" -> "reading"
                          [] OTHER -> "resolving"
  <2>2. sessions[s] \in 0..MaxCalls /\ (sessions[s] # 0 => sessions[s] \in Calls)
    BY <1>1, SessionsAssumption DEF RestTyped, Calls
  <2>3. /\ ph \in {"error", "driving", "reading", "resolving"}
        /\ ph # "error" => sessions[s] # 0
        /\ ph = "reading" => kind = "switch"
        /\ ph = "resolving" => kind \in {"archive", "unarchive"}
    BY DEF PromptKinds
  <2>4. /\ Request(c, kind, s, sessions[s], ph)
        /\ \A d \in Calls : task[d].kind \in PromptKinds /\ task[d].session = s => ~Busy(d)
        /\ UNCHANGED <<storeVars, sessions, instanceVars, bypass, raced>>
    BY <2>1 DEF Prompt, Busy
  <2> HIDE DEF ph
  <2>5. Begins(c, kind, s, sessions[s], ph)
    BY <2>2, <2>3, <2>4, ThreadRange DEF Begins, Kinds, FirstPhases
  <2>6. ShapeAt(c)'
    BY <1>1, <2>2, <2>3, <2>5, BeginsTyped DEF ShapeAt, OnInstance, Leaving, Bootstrapping
  <2> QED
    BY <1>1, <2>4, <2>5, <2>6, BeginsKeeps DEF RestTyped, storeVars, instanceVars
<1> QED
  BY <1>3, <1>4, <1>5, <1>6, <1>7, <1>8 DEF ClientCalls

\* A process that dies changes nothing else.
LEMMA ProcessDiesKeeps ==
  ASSUME SessionsInv, NEW i \in Calls, ProcessDies(i)
  PROVE  SessionsInv'
<1>1. TypeOK'
  BY DEF SessionsInv, TypeOK, ProcessDies, storeVars
<1>2. UNCHANGED <<store, archiver, sessions, bound, task>>
  BY DEF ProcessDies, storeVars
<1>3. Relations'
  BY <1>2 DEF SessionsInv, Relations, Shape, ShapeAt, Registered, IsInstance, Home, PromptsAtHome,
              OnePrompt, Busy, Inst, Archivers, ArchiveTarget, TargetAt, FreshSwitch, FreshAt,
              OwnThreadUsable
<1> QED
  BY <1>1, <1>3 DEF SessionsInv

-----------------------------------------------------------------------------
(* The theorems.                                                           *)

\* The adapter starts in a state of the invariant.
LEMMA InitInv == Init => SessionsInv
<1> SUFFICES ASSUME Init PROVE SessionsInv
  OBVIOUS
<1>1. 0 \in 0..MaxThreads /\ 0 \in 0..MaxCalls
  BY SessionsAssumption
<1>2. RestTyped
  BY <1>1 DEF Init, RestTyped
<1>3. TaskTyped
  BY NoTaskTyped DEF Init, TaskTyped
<1>4. \A c \in Calls : task[c].phase = "idle" /\ task[c].kind = "none"
  BY DEF Init, NoTask
<1>5. Shape /\ PromptsAtHome /\ OnePrompt /\ ArchiveTarget /\ FreshSwitch
  BY <1>4 DEF Shape, ShapeAt, PromptsAtHome, OnePrompt, Busy, ArchiveTarget, TargetAt,
              FreshSwitch, FreshAt, OnInstance, Leaving, Bootstrapping, PromptKinds
<1>6. Registered /\ Archivers
  BY DEF Init, Registered, Archivers
<1>7. OwnThreadUsable
  BY SessionsAssumption DEF Init, OwnThreadUsable, Threads
<1> QED
  BY <1>2, <1>3, <1>5, <1>6, <1>7, TypesSplit DEF SessionsInv, Relations

\* Every step keeps it.
LEMMA StepKeeps == SessionsInv /\ [Next]_vars => SessionsInv'
<1> SUFFICES ASSUME SessionsInv, [Next]_vars PROVE SessionsInv'
  OBVIOUS
<1>1. CASE UNCHANGED vars
  <2>1. UNCHANGED <<store, archiver, deletedVia, sessions, bound, process, innerLock,
                    bypass, task, raced>>
    BY <1>1 DEF vars, storeVars, instanceVars
  <2>2. TypeOK'
    BY <2>1 DEF SessionsInv, TypeOK
  <2>3. Relations'
    BY <2>1 DEF SessionsInv, Relations, Shape, ShapeAt, Registered, IsInstance, Home, PromptsAtHome,
                OnePrompt, Busy, Inst, Archivers, ArchiveTarget, TargetAt, FreshSwitch, FreshAt,
                OwnThreadUsable
  <2> QED
    BY <2>2, <2>3 DEF SessionsInv
<1>2. ASSUME NEW c \in Calls, ClientCalls(c)
      PROVE  SessionsInv'
  BY <1>2, ClientCallsKeep
<1>3. ASSUME NEW c \in Calls, Continue(c)
      PROVE  SessionsInv'
  <2>1. CASE StartThread(c) \/ ResumeThread(c) \/ DiscoverPath(c) \/ RegisterSession(c)
    BY <2>1, StartThreadKeeps, ResumeThreadKeeps, DiscoverPathKeeps, RegisterSessionKeeps
  <2>2. CASE ReadThread(c) \/ DeleteThread(c) \/ RemoveSession(c)
    BY <2>2, ReadThreadKeeps, DeleteThreadKeeps, RemoveSessionKeeps
  <2>3. CASE (\E t \in Threads : ForkThread(c, t) \/ ForkLost(c, t)) \/ ForkFails(c)
    BY <2>3, ForkThreadKeeps, ForkLostKeeps, ForkFailsKeeps
  <2>4. CASE RunTurn(c) \/ Resolve(c) \/ ArchiveThread(c)
    BY <2>4, RunTurnKeeps, ResolveKeeps, ArchiveThreadKeeps
  <2>5. CASE StartReplacement(c) \/ SwitchThread(c) \/ Unarchive(c)
    BY <2>5, StartReplacementKeeps, SwitchThreadKeeps, UnarchiveKeeps
  <2> QED
    BY <1>3, <2>1, <2>2, <2>3, <2>4, <2>5 DEF Continue
<1>4. ASSUME NEW c \in Calls, Pick(c) \/ BootstrapFails(c)
      PROVE  SessionsInv'
  BY <1>4, PickKeeps, BootstrapFailsKeeps
<1>5. ASSUME NEW i \in Calls, ProcessDies(i)
      PROVE  SessionsInv'
  BY <1>5, ProcessDiesKeeps
<1> QED
  BY <1>1, <1>2, <1>3, <1>4, <1>5 DEF Next

\* The invariant holds in every state.
LEMMA Invariant == Spec => []SessionsInv
  BY InitInv, StepKeeps, PTL DEF Spec

\* Every variable keeps its type: instances, threads and calls stay in range.
THEOREM TypeCorrect == Spec => []TypeOK
<1>1. SessionsInv => TypeOK
  BY DEF SessionsInv
<1> QED
  BY <1>1, Invariant, PTL

\* No /archive leaves its session on the thread it archived, unless it
\* reported an error: handle_archive_command_ext (controls.rs), whatever
\* other calls and the processes do.
THEOREM ArchiveKeepsThreadUsable == Spec => []OwnThreadUsable
<1>1. SessionsInv => OwnThreadUsable
  BY DEF SessionsInv, Relations
<1> QED
  BY <1>1, Invariant, PTL
=============================================================================
