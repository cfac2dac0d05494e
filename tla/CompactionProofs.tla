-------------------------- MODULE CompactionProofs --------------------------
(***************************************************************************)
(* Proofs about Compaction: whoever is told to wait for a compaction waits *)
(* for something, however many compactions are asked for.                  *)
(***************************************************************************)
EXTENDS Compaction, TLAPS

Lowering == {"compacted", "error"}

(* A request that is out raised the flag, and no other can be out.          *)
AskedAlone ==
  \A r, s \in Starters : starter[r] = "asked" /\ starter[s] = "asked" => flag = "running" /\ r = s

(* The flag is up for an accepted compaction, and a drain watches it.       *)
Held ==
  /\ flag = "running"
  /\ \E s \in Starters : watcher[s] = "watching"
  /\ \A s \in Starters : starter[s] # "asked"

AcceptedHeld == queued > 0 \/ job = "compacting" => Held

(* What a compaction item announces is held, or is lifted again by a        *)
(* message behind it or by the turn it belongs to.                          *)
LiftedAfter(n) ==
  job = "turnCompacting" \/ \E m \in DOMAIN inbox : m > n /\ inbox[m] \in Lowering

AnnouncedLifted ==
  \A n \in DOMAIN inbox : inbox[n] = "itemStarted" => Held \/ LiftedAfter(n)

(* A raised flag is somebody's concern.                                     *)
FlagWatched ==
  flag = "running" =>
    \/ \E s \in Starters : starter[s] = "asked" \/ watcher[s] = "watching"
    \/ job \in {"compacting", "turnCompacting"}
    \/ \E n \in DOMAIN inbox : inbox[n] \in Lowering

Undisturbed == AskedAlone /\ AcceptedHeld /\ AnnouncedLifted /\ FlagWatched

(* The inductive invariant.                                                 *)
CompactionInv == TypeOK /\ (mishaps = {} => Undisturbed)

-----------------------------------------------------------------------------
(* The inbox.                                                               *)

(* Taking the first message moves the others one place ahead.               *)
LEMMA TailShifts ==
  ASSUME NEW S, NEW q \in Seq(S), q # << >>
  PROVE  /\ Tail(q) \in Seq(S) /\ Head(q) = q[1] /\ 1 \in DOMAIN q /\ q[1] \in S
         /\ \A n \in DOMAIN Tail(q) : n + 1 \in DOMAIN q /\ Tail(q)[n] = q[n + 1]
         /\ \A n \in DOMAIN q : n # 1 => n - 1 \in DOMAIN Tail(q) /\ Tail(q)[n - 1] = q[n]
  OBVIOUS

(* A message that arrives leaves the others where they are.                 *)
LEMMA AppendExtends ==
  ASSUME NEW S, NEW q \in Seq(S), NEW m \in S
  PROVE  /\ Append(q, m) \in Seq(S)
         /\ \A n \in DOMAIN q : n \in DOMAIN Append(q, m) /\ Append(q, m)[n] = q[n] /\ n < Len(q) + 1
         /\ Len(q) + 1 \in DOMAIN Append(q, m) /\ Append(q, m)[Len(q) + 1] = m
         /\ \A n \in DOMAIN Append(q, m) : n \in DOMAIN q \/ n = Len(q) + 1
  OBVIOUS

(* And so do two that arrive together.                                      *)
LEMMA PairExtends ==
  ASSUME NEW S, NEW q \in Seq(S), NEW a \in S, NEW b \in S
  PROVE  /\ q \o <<a, b>> \in Seq(S)
         /\ \A n \in DOMAIN q : n \in DOMAIN (q \o <<a, b>>) /\ (q \o <<a, b>>)[n] = q[n] /\ n < Len(q) + 1
         /\ Len(q) + 1 \in DOMAIN (q \o <<a, b>>) /\ (q \o <<a, b>>)[Len(q) + 1] = a
         /\ \A n \in DOMAIN (q \o <<a, b>>) :
              n \in DOMAIN q \/ (q \o <<a, b>>)[n] = a \/ (q \o <<a, b>>)[n] = b
  OBVIOUS

-----------------------------------------------------------------------------
(* Types.                                                                   *)

LEMMA CompactionTypesInitially == Init => TypeOK
  BY DEF Init, TypeOK, Jobs

(* Handling a message of the inbox keeps the types.                         *)
LEMMA DrainTypes ==
  ASSUME TypeOK, inbox # << >>, NEW next \in {"running", "idle"}, SetFlag(next),
         inbox' = Tail(inbox), UNCHANGED <<starter, watcher, serverVars>>,
         prompt' \in {prompt, "flushing"}
  PROVE  TypeOK'
<1>1. inbox' \in Seq(Notes)
  BY TailShifts DEF TypeOK
<1> QED
  BY <1>1 DEF TypeOK, SetFlag, serverVars

LEMMA CompactionTypesInductive == TypeOK /\ [Next]_vars => TypeOK'
<1> SUFFICES ASSUME TypeOK, [Next]_vars PROVE TypeOK'
  OBVIOUS
<1>1. ASSUME NEW s \in Starters, StarterStep(s) PROVE TypeOK'
  <2>1. CASE JoinCompaction(s)
    BY <2>1 DEF JoinCompaction, TypeOK, serverVars
  <2>2. CASE RequestCompaction(s)
    BY <2>2 DEF RequestCompaction, TypeOK, serverVars
  <2>3. CASE CompactionAccepted(s)
    BY <2>3 DEF CompactionAccepted, TypeOK
  <2>4. CASE CompactionRefused(s)
    BY <2>4 DEF CompactionRefused, TypeOK, serverVars
  <2>5. CASE CompactionTimesOut(s)
    BY <2>5 DEF CompactionTimesOut, TypeOK
  <2> QED
    BY <1>1, <2>1, <2>2, <2>3, <2>4, <2>5 DEF StarterStep
<1>2. ASSUME Drain, prompt' = prompt, UNCHANGED <<starter, watcher, serverVars>> PROVE TypeOK'
  BY <1>2, DrainTypes DEF Drain, FlagAfter
<1>3. ASSUME NEW s \in Starters, WatcherStep(s) PROVE TypeOK'
  <2>1. CASE WatcherDrains(s)
    BY <1>2, <2>1 DEF WatcherDrains, Drain
  <2>2. CASE WatcherEnds(s) \/ WatchdogFires(s)
    BY <2>2 DEF WatcherEnds, WatchdogFires, SetFlag, TypeOK, serverVars
  <2> QED
    BY <1>3, <2>1, <2>2 DEF WatcherStep
<1>4. CASE PromptStep
  <2>1. CASE Prompt \/ Decide \/ StartFails \/ EndFlush
    BY <2>1 DEF Prompt, Decide, StartFails, EndFlush, TypeOK, serverVars
  <2>4. CASE StartTurn
    BY <2>4 DEF StartTurn, TypeOK, Jobs
  <2>5. CASE StartTimesOut
    BY <2>5 DEF StartTimesOut, TypeOK
  <2>2. CASE DriverReceives
    <3>1. PICK next \in {"running", "idle"} : SetFlag(next)
      BY <2>2 DEF DriverReceives, FlagAfter, TypeOK
    <3> QED
      BY <2>2, <3>1, DrainTypes DEF DriverReceives
  <2>3. CASE PromptDrains
    BY <1>2, <2>3 DEF PromptDrains, Drain
  <2> QED
    BY <1>4, <2>1, <2>2, <2>3, <2>4, <2>5 DEF PromptStep
<1>5. ASSUME NEW m \in Notes, ServerSays(m) PROVE inbox' \in Seq(Notes)
  BY <1>5, AppendExtends DEF ServerSays, TypeOK
<1>6. CASE ServerStep
  <2>1. CASE ServerEndsCompaction
    <3>1. inbox' \in Seq(Notes)
      <4>1. PICK a \in Notes : inbox' = inbox \o <<a, "otherEnded">>
        BY <2>1 DEF ServerEndsCompaction, Notes
      <4> QED
        BY <4>1, PairExtends DEF TypeOK, Notes
    <3> QED
      BY <2>1, <3>1 DEF ServerEndsCompaction, TypeOK, Jobs
  <2>2. CASE ServerHangs
    BY <2>2 DEF ServerHangs, TypeOK, Jobs
  <2>3. CASE ServerBeginsCompaction \/ ServerCompactsTurn \/ ServerResumesTurn \/ ServerEndsTurn
    <3>1. PICK m \in Notes : ServerSays(m)
      BY <2>3 DEF ServerBeginsCompaction, ServerCompactsTurn, ServerResumesTurn, ServerEndsTurn, Notes
    <3>2. inbox' \in Seq(Notes)
      BY <1>5, <3>1
    <3>3. UNCHANGED <<flag, starter, watcher, prompt, turns>>
      BY <3>1 DEF ServerSays
    <3>4. /\ job' \in Jobs /\ queued' \in Nat /\ late' \in Nat /\ autos' \in Nat
          /\ mishaps' \subseteq {"abandoned", "early", "timedOut"}
      <4>1. CASE ServerBeginsCompaction
        BY <4>1 DEF ServerBeginsCompaction, TypeOK, Jobs
      <4>2. CASE ServerCompactsTurn
        BY <4>2 DEF ServerCompactsTurn, TypeOK, Jobs
      <4>3. CASE ServerResumesTurn \/ ServerEndsTurn
        BY <4>3 DEF ServerResumesTurn, ServerEndsTurn, TypeOK, Jobs
      <4> QED
        BY <2>3, <4>1, <4>2, <4>3
    <3> QED
      BY <3>2, <3>3, <3>4 DEF TypeOK
  <2>4. CASE ServerStartsLate
    BY <2>4 DEF ServerStartsLate, TypeOK, Jobs
  <2> QED
    BY <1>6, <2>1, <2>2, <2>3, <2>4 DEF ServerStep
<1>7. CASE UNCHANGED vars
  BY <1>7 DEF vars, TypeOK, serverVars
<1> QED
  BY <1>1, <1>3, <1>4, <1>6, <1>7 DEF Next

(* Variables keep their types.                                              *)
THEOREM CompactionTypes == Spec => []TypeOK
  BY CompactionTypesInitially, CompactionTypesInductive, PTL DEF Spec

-----------------------------------------------------------------------------
(* The flag.                                                                *)

(* Whether a step that sets the flag is a mishap.                           *)
LEMMA NoMishap ==
  ASSUME NEW next, SetFlag(next), mishaps' = {}
  PROVE  /\ mishaps = {} /\ flag' = next
         /\ flag = "running" /\ next = "idle" => ~Outstanding
  BY DEF SetFlag

(* The flag goes down, or stays there, and the inbox may lose its head.    *)
LEMMA FlagDownKeeps ==
  ASSUME TypeOK, Undisturbed, flag' = "idle", UNCHANGED <<starter, job, queued>>,
         inbox' = inbox \/ (inbox # << >> /\ inbox' = Tail(inbox)),
         flag = "running" => ~Outstanding
  PROVE  Undisturbed'
<1>1. \A s \in Starters : starter'[s] # "asked"
  BY DEF Undisturbed, AskedAlone, Outstanding, TypeOK
<1>2. ~(queued' > 0 \/ job' = "compacting")
  BY DEF Undisturbed, AcceptedHeld, Held, Outstanding, TypeOK
<1>3. AskedAlone' /\ AcceptedHeld' /\ FlagWatched'
  BY <1>1, <1>2 DEF AskedAlone, AcceptedHeld, FlagWatched
<1>4. AnnouncedLifted'
  <2>1. CASE flag = "running"
    <3>1. \A n \in DOMAIN inbox : inbox[n] # "itemStarted"
      BY <2>1 DEF Outstanding
    <3>2. \A n \in DOMAIN inbox' : inbox'[n] # "itemStarted"
      BY <3>1, TailShifts DEF TypeOK
    <3> QED
      BY <3>2 DEF AnnouncedLifted
  <2>2. CASE flag # "running"
    <3>1. \A n \in DOMAIN inbox : inbox[n] = "itemStarted" => LiftedAfter(n)
      BY <2>2 DEF Undisturbed, AnnouncedLifted, Held
    <3>2. CASE inbox' = inbox
      BY <3>1, <3>2 DEF AnnouncedLifted, LiftedAfter
    <3>3. CASE inbox # << >> /\ inbox' = Tail(inbox)
      <4> SUFFICES ASSUME NEW n \in DOMAIN inbox', inbox'[n] = "itemStarted" PROVE LiftedAfter(n)'
        BY DEF AnnouncedLifted
      <4>1. n + 1 \in DOMAIN inbox /\ inbox[n + 1] = "itemStarted" /\ n \in Nat /\ n > 0
        BY <3>3, TailShifts DEF TypeOK
      <4>2. CASE job = "turnCompacting"
        BY <4>2 DEF LiftedAfter
      <4>3. CASE \E m \in DOMAIN inbox : m > n + 1 /\ inbox[m] \in Lowering
        <5>1. PICK m \in DOMAIN inbox : m > n + 1 /\ inbox[m] \in Lowering
          BY <4>3
        <5>2. m - 1 \in DOMAIN inbox' /\ inbox'[m - 1] = inbox[m] /\ m - 1 > n
          BY <3>3, <4>1, <5>1, TailShifts DEF TypeOK
        <5> QED
          BY <5>1, <5>2 DEF LiftedAfter
      <4> QED
        BY <3>1, <4>1, <4>2, <4>3 DEF LiftedAfter
    <3> QED
      BY <3>2, <3>3
  <2> QED
    BY <2>1, <2>2
<1> QED
  BY <1>3, <1>4 DEF Undisturbed

(* The flag stays up, or goes up for a compaction that begins.              *)
LEMMA FlagUpKeeps ==
  ASSUME TypeOK, Undisturbed, flag' = "running", UNCHANGED <<starter, watcher, job, queued>>,
         inbox # << >>, inbox' = Tail(inbox), Head(inbox) \notin Lowering,
         flag = "running" \/ Head(inbox) = "itemStarted"
  PROVE  Undisturbed'
<1>1. /\ Head(inbox) = inbox[1] /\ 1 \in DOMAIN inbox
      /\ \A n \in DOMAIN inbox' : n + 1 \in DOMAIN inbox /\ inbox'[n] = inbox[n + 1] /\ n \in Nat /\ n > 0
      /\ \A n \in DOMAIN inbox : n # 1 => n - 1 \in DOMAIN inbox' /\ inbox'[n - 1] = inbox[n]
  BY TailShifts DEF TypeOK
<1>2. AskedAlone'
  BY DEF Undisturbed, AskedAlone
<1>3. Held => Held'
  BY DEF Held
<1>4. AcceptedHeld'
  BY <1>3 DEF Undisturbed, AcceptedHeld
<1>5. \A n \in DOMAIN inbox' : LiftedAfter(n + 1) => LiftedAfter(n)'
  <2> SUFFICES ASSUME NEW n \in DOMAIN inbox', NEW m \in DOMAIN inbox, m > n + 1, inbox[m] \in Lowering
               PROVE  \E k \in DOMAIN inbox' : k > n /\ inbox'[k] \in Lowering
    BY DEF LiftedAfter
  <2>1. m - 1 \in DOMAIN inbox' /\ inbox'[m - 1] = inbox[m] /\ m - 1 > n
    BY <1>1 DEF TypeOK
  <2> QED
    BY <2>1
<1>6. AnnouncedLifted'
  BY <1>1, <1>3, <1>5 DEF Undisturbed, AnnouncedLifted
<1>7. FlagWatched'
  <2>1. (\E n \in DOMAIN inbox : inbox[n] \in Lowering) => \E n \in DOMAIN inbox' : inbox'[n] \in Lowering
    BY <1>1
  <2>2. CASE flag = "running"
    BY <2>1, <2>2 DEF Undisturbed, FlagWatched
  <2>3. CASE Head(inbox) = "itemStarted"
    <3>1. Held \/ LiftedAfter(1)
      BY <1>1, <2>3 DEF Undisturbed, AnnouncedLifted
    <3> QED
      BY <2>1, <3>1 DEF Held, LiftedAfter, FlagWatched
  <2> QED
    BY <2>2, <2>3
<1> QED
  BY <1>2, <1>4, <1>6, <1>7 DEF Undisturbed

(* A notification is handled: by the driver, which may pass over it, or by  *)
(* a drain.                                                                 *)
LEMMA DrainKeepsFlag ==
  ASSUME TypeOK, Undisturbed, mishaps' = {}, UNCHANGED <<starter, watcher, serverVars>>,
         inbox # << >>, inbox' = Tail(inbox),
         \/ SetFlag(FlagAfter(Head(inbox)))
         \/ Head(inbox) \notin Lowering /\ SetFlag(flag)
  PROVE  Undisturbed'
<1>1. PICK next \in {"running", "idle"} :
        /\ SetFlag(next)
        /\ next = "running" => Head(inbox) \notin Lowering /\ (flag = "running" \/ Head(inbox) = "itemStarted")
  BY DEF FlagAfter, Lowering, TypeOK
<1>2. flag' = next /\ (flag = "running" /\ next = "idle" => ~Outstanding)
  BY <1>1, NoMishap
<1>3. UNCHANGED <<starter, watcher, job, queued>>
  BY DEF serverVars
<1>4. CASE next = "idle"
  BY <1>2, <1>3, <1>4, FlagDownKeeps
<1>5. CASE next = "running"
  BY <1>1, <1>2, <1>3, <1>5, FlagUpKeeps
<1> QED
  BY <1>1, <1>4, <1>5

(* A request, and what becomes of it.                                       *)
LEMMA StarterKeepsFlag ==
  ASSUME TypeOK, Undisturbed, mishaps' = {}, NEW s \in Starters, StarterStep(s)
  PROVE  Undisturbed'
<1>1. CASE JoinCompaction(s)
  <2>1. /\ starter' = [starter EXCEPT ![s] = "done"] /\ watcher' = [watcher EXCEPT ![s] = "watching"]
        /\ UNCHANGED <<flag, inbox, job, queued>>
    BY <1>1 DEF JoinCompaction, serverVars
  <2>2. \A r \in Starters : /\ starter'[r] = "asked" => starter[r] = "asked"
                            /\ watcher[r] = "watching" => watcher'[r] = "watching"
    BY <2>1 DEF TypeOK
  <2>3. watcher'[s] = "watching"
    BY <2>1 DEF TypeOK
  <2>4. Held => Held'
    BY <2>1, <2>2 DEF Held
  <2>5. AskedAlone' /\ AcceptedHeld'
    BY <2>1, <2>2, <2>4 DEF Undisturbed, AskedAlone, AcceptedHeld
  <2>6. AnnouncedLifted'
    BY <2>1, <2>4 DEF Undisturbed, AnnouncedLifted, LiftedAfter
  <2> QED
    BY <2>3, <2>5, <2>6 DEF Undisturbed, FlagWatched
<1>2. CASE RequestCompaction(s)
  <2>1. /\ starter' = [starter EXCEPT ![s] = "asked"] /\ flag = "idle" /\ flag' = "running"
        /\ UNCHANGED <<watcher, inbox, job, queued>>
    BY <1>2 DEF RequestCompaction, serverVars
  <2>2. ~Held /\ \A r \in Starters : starter[r] # "asked"
    BY <2>1 DEF Undisturbed, AskedAlone, Held
  <2>3. \A r \in Starters : starter'[r] = "asked" <=> r = s
    BY <2>1, <2>2 DEF TypeOK
  <2>4. AskedAlone' /\ AcceptedHeld' /\ FlagWatched'
    BY <2>1, <2>2, <2>3 DEF Undisturbed, AskedAlone, AcceptedHeld, FlagWatched
  <2>5. AnnouncedLifted'
    BY <2>1, <2>2 DEF Undisturbed, AnnouncedLifted, LiftedAfter
  <2> QED
    BY <2>4, <2>5 DEF Undisturbed
<1>3. CASE CompactionAccepted(s)
  <2>1. /\ starter' = [starter EXCEPT ![s] = "done"] /\ watcher' = [watcher EXCEPT ![s] = "watching"]
        /\ starter[s] = "asked" /\ UNCHANGED <<flag, inbox, job>>
    BY <1>3 DEF CompactionAccepted
  <2>2. watcher'[s] = "watching" /\ \A r \in Starters : starter'[r] # "asked"
    BY <2>1 DEF Undisturbed, AskedAlone, TypeOK
  <2>3. Held'
    BY <2>1, <2>2 DEF Undisturbed, AskedAlone, Held
  <2> QED
    BY <2>1, <2>2, <2>3 DEF Undisturbed, AskedAlone, AcceptedHeld, AnnouncedLifted, FlagWatched
<1>4. CASE CompactionRefused(s)
  <2>1. /\ starter' = [starter EXCEPT ![s] = "done"] /\ starter[s] = "asked" /\ flag' = "idle"
        /\ UNCHANGED <<watcher, inbox, job, queued>>
    BY <1>4 DEF CompactionRefused, serverVars
  <2>2. ~Held /\ \A r \in Starters : starter'[r] # "asked"
    BY <2>1 DEF Undisturbed, AskedAlone, Held, TypeOK
  <2>3. AskedAlone' /\ AcceptedHeld' /\ FlagWatched'
    BY <2>1, <2>2 DEF Undisturbed, AskedAlone, AcceptedHeld, FlagWatched
  <2>4. AnnouncedLifted'
    BY <2>1, <2>2 DEF Undisturbed, AnnouncedLifted, LiftedAfter
  <2> QED
    BY <2>3, <2>4 DEF Undisturbed
<1>5. ~CompactionTimesOut(s)
  BY DEF CompactionTimesOut
<1> QED
  BY <1>1, <1>2, <1>3, <1>4, <1>5 DEF StarterStep

(* The server announces, ends or abandons what it does.                     *)
LEMMA ServerKeepsFlag ==
  ASSUME TypeOK, Undisturbed, ServerStep, mishaps' = {}
  PROVE  Undisturbed'
<1>1. UNCHANGED <<flag, starter, watcher>>
  BY DEF ServerStep, ServerBeginsCompaction, ServerEndsCompaction, ServerHangs, ServerCompactsTurn,
         ServerResumesTurn, ServerEndsTurn, ServerStartsLate, ServerSays
<1>2. AskedAlone' /\ (Held => Held')
  BY <1>1 DEF Undisturbed, AskedAlone, Held
<1>3. ASSUME NEW m \in Notes, ServerSays(m)
      PROVE  /\ \A n \in DOMAIN inbox : n \in DOMAIN inbox' /\ inbox'[n] = inbox[n] /\ n < Len(inbox) + 1
             /\ Len(inbox) + 1 \in DOMAIN inbox' /\ inbox'[Len(inbox) + 1] = m
             /\ \A n \in DOMAIN inbox' : n \in DOMAIN inbox \/ n = Len(inbox) + 1
  BY <1>3, AppendExtends DEF ServerSays, TypeOK
<1>4. CASE ServerBeginsCompaction
  <2>1. Held' /\ job' = "compacting"
    BY <1>2, <1>4 DEF ServerBeginsCompaction, Undisturbed, AcceptedHeld
  <2> QED
    BY <1>2, <2>1 DEF Undisturbed, AcceptedHeld, AnnouncedLifted, FlagWatched
<1>5. CASE ServerEndsCompaction
  <2>1. PICK a \in Lowering : inbox' = inbox \o <<a, "otherEnded">>
    BY <1>5 DEF ServerEndsCompaction, Lowering
  <2>2. job = "compacting" /\ job' = "none" /\ queued' = queued
    BY <1>5 DEF ServerEndsCompaction
  <2>3. Held'
    BY <1>2, <2>2 DEF Undisturbed, AcceptedHeld
  <2>4. Len(inbox) + 1 \in DOMAIN inbox' /\ inbox'[Len(inbox) + 1] = a
    BY <2>1, PairExtends DEF TypeOK, Notes, Lowering
  <2> QED
    BY <1>2, <2>3, <2>4 DEF Undisturbed, AcceptedHeld, AnnouncedLifted, FlagWatched
<1>6. CASE ServerHangs
  <2>1. Held'
    BY <1>2, <1>6 DEF ServerHangs, Undisturbed, AcceptedHeld
  <2> QED
    BY <1>2, <2>1 DEF Undisturbed, AcceptedHeld, AnnouncedLifted, FlagWatched, Held
<1>7. CASE ServerCompactsTurn
  <2>1. job = "turn" /\ job' = "turnCompacting" /\ queued' = queued
    BY <1>7 DEF ServerCompactsTurn
  <2> QED
    BY <1>2, <2>1 DEF Undisturbed, AcceptedHeld, AnnouncedLifted, LiftedAfter, FlagWatched
<1>8. CASE ServerResumesTurn
  <2>1. job = "turnCompacting" /\ job' = "turn" /\ queued' = queued
    BY <1>8 DEF ServerResumesTurn
  <2>2. PICK m \in Lowering : ServerSays(m)
    BY <1>8 DEF ServerResumesTurn, Lowering
  <2>3. /\ \A n \in DOMAIN inbox : n < Len(inbox) + 1
        /\ Len(inbox) + 1 \in DOMAIN inbox' /\ inbox'[Len(inbox) + 1] = m
        /\ \A n \in DOMAIN inbox' : inbox'[n] = "itemStarted" => n \in DOMAIN inbox
    BY <1>3, <2>2 DEF Lowering, Notes
  <2> QED
    BY <1>2, <2>1, <2>3 DEF Undisturbed, AcceptedHeld, AnnouncedLifted, LiftedAfter, FlagWatched
<1>9. CASE ServerEndsTurn
  <2>1. /\ job = "turn" /\ job' = "none" /\ queued' = queued
        /\ ServerSays("turnEnded") \/ ServerSays("otherEnded")
    BY <1>9 DEF ServerEndsTurn
  <2>2. /\ \A n \in DOMAIN inbox : n \in DOMAIN inbox' /\ inbox'[n] = inbox[n]
        /\ \A n \in DOMAIN inbox' : inbox'[n] = "itemStarted" => n \in DOMAIN inbox
    BY <1>3, <2>1 DEF Notes
  <2>3. AcceptedHeld' /\ FlagWatched'
    BY <1>1, <1>2, <2>1, <2>2 DEF Undisturbed, AcceptedHeld, FlagWatched
  <2>4. AnnouncedLifted'
    BY <1>2, <2>1, <2>2 DEF Undisturbed, AnnouncedLifted, LiftedAfter
  <2> QED
    BY <1>2, <2>3, <2>4 DEF Undisturbed
<1>10. CASE ServerStartsLate
  <2>1. job = "none" /\ job' = "turn" /\ UNCHANGED <<inbox, queued>>
    BY <1>10 DEF ServerStartsLate
  <2> QED
    BY <1>1, <1>2, <2>1 DEF Undisturbed, AcceptedHeld, AnnouncedLifted, LiftedAfter, FlagWatched
<1> QED
  BY <1>4, <1>5, <1>6, <1>7, <1>8, <1>9, <1>10 DEF ServerStep

(* Mishaps are never forgotten, and without one the flag is watched.        *)
LEMMA CompactionInductive == CompactionInv /\ [Next]_vars => CompactionInv'
<1> SUFFICES ASSUME CompactionInv, [Next]_vars PROVE CompactionInv'
  OBVIOUS
<1>1. TypeOK
  BY DEF CompactionInv
<1>2. TypeOK'
  BY <1>1, CompactionTypesInductive
<1> SUFFICES ASSUME mishaps' = {} PROVE Undisturbed'
  BY <1>2 DEF CompactionInv
<1>3. mishaps = {} => Undisturbed
  BY DEF CompactionInv
<1>4. ASSUME NEW s \in Starters, StarterStep(s) PROVE Undisturbed'
  <2>1. mishaps = {}
    BY <1>4 DEF StarterStep, JoinCompaction, RequestCompaction, CompactionAccepted, CompactionRefused,
                CompactionTimesOut
  <2> QED
    BY <1>1, <1>3, <1>4, <2>1, StarterKeepsFlag
<1>5. ASSUME Drain, UNCHANGED <<starter, watcher, serverVars>> PROVE Undisturbed'
  <2>1. mishaps = {}
    BY <1>5, NoMishap DEF Drain
  <2> QED
    BY <1>1, <1>3, <1>5, <2>1, DrainKeepsFlag DEF Drain
<1>6. ASSUME NEW s \in Starters, WatcherStep(s) PROVE Undisturbed'
  <2>1. CASE WatcherDrains(s)
    BY <1>5, <2>1 DEF WatcherDrains, Drain
  <2>2. CASE WatcherEnds(s)
    <3>1. mishaps = {} /\ flag = "idle" /\ flag' = "idle" /\ UNCHANGED <<starter, job, queued, inbox>>
      BY <2>2 DEF WatcherEnds, serverVars
    <3> QED
      BY <1>1, <1>3, <3>1, FlagDownKeeps
  <2>3. CASE WatchdogFires(s)
    <3>1. mishaps = {} /\ flag' = "idle" /\ (flag = "running" => ~Outstanding)
      BY <2>3, NoMishap DEF WatchdogFires
    <3>2. UNCHANGED <<starter, job, queued, inbox>>
      BY <2>3 DEF WatchdogFires, serverVars
    <3> QED
      BY <1>1, <1>3, <3>1, <3>2, FlagDownKeeps
  <2> QED
    BY <1>6, <2>1, <2>2, <2>3 DEF WatcherStep
<1>7. CASE PromptStep
  <2>1. CASE Prompt \/ Decide \/ StartFails \/ StartTimesOut \/ EndFlush
    <3>1. mishaps = {} /\ UNCHANGED <<flag, starter, watcher, inbox, job, queued>>
      BY <2>1 DEF Prompt, Decide, StartFails, StartTimesOut, EndFlush, serverVars
    <3> QED
      BY <1>3, <3>1 DEF Undisturbed, AskedAlone, AcceptedHeld, AnnouncedLifted, Held, LiftedAfter, FlagWatched
  <2>2. CASE StartTurn
    <3>1. /\ mishaps = {} /\ UNCHANGED <<flag, starter, watcher, inbox, queued>>
          /\ job = "none" /\ job' = "turn"
      BY <2>2 DEF StartTurn
    <3> QED
      BY <1>3, <3>1 DEF Undisturbed, AskedAlone, AcceptedHeld, AnnouncedLifted, Held, LiftedAfter, FlagWatched
  <2>3. CASE DriverReceives
    <3>1. PICK next \in {FlagAfter(Head(inbox)), flag} :
            SetFlag(next) /\ (next = FlagAfter(Head(inbox)) \/ Head(inbox) \notin Lowering)
      BY <2>3 DEF DriverReceives, Lowering
    <3>2. mishaps = {}
      BY <3>1, NoMishap
    <3>3. inbox # << >> /\ inbox' = Tail(inbox) /\ UNCHANGED <<starter, watcher, serverVars>>
      BY <2>3 DEF DriverReceives
    <3> QED
      BY <1>1, <1>3, <3>1, <3>2, <3>3, DrainKeepsFlag
  <2>4. CASE PromptDrains
    BY <1>5, <2>4 DEF PromptDrains, Drain
  <2> QED
    BY <1>7, <2>1, <2>2, <2>3, <2>4 DEF PromptStep
<1>8. CASE ServerStep
  <2>1. mishaps = {}
    BY <1>8 DEF ServerStep, ServerBeginsCompaction, ServerEndsCompaction, ServerHangs, ServerCompactsTurn,
                ServerResumesTurn, ServerEndsTurn, ServerStartsLate, ServerSays
  <2> QED
    BY <1>1, <1>3, <1>8, <2>1, ServerKeepsFlag
<1>9. CASE UNCHANGED vars
  BY <1>3, <1>9 DEF vars, serverVars, Undisturbed, AskedAlone, AcceptedHeld, AnnouncedLifted, Held,
                    LiftedAfter, FlagWatched
<1> QED
  BY <1>4, <1>6, <1>7, <1>8, <1>9 DEF Next

LEMMA CompactionInitially == Init => CompactionInv
<1>1. Init => TypeOK
  BY CompactionTypesInitially
<1>2. Init => DOMAIN inbox = {}
  BY DEF Init
<1> QED
  BY <1>1, <1>2 DEF Init, CompactionInv, Undisturbed, AskedAlone, AcceptedHeld,
                    AnnouncedLifted, FlagWatched

(* Prompts are held back only as long as somebody works on lifting the     *)
(* flag, unless a turn ended in its own compaction, one compaction's end    *)
(* lowered the flag of another (spawn_compaction_drain_task), or the server *)
(* took up a thread/compact/start that had timed out.                       *)
THEOREM CompactionsAreWatched == Spec => []CompactionWatched
<1>1. CompactionInv => CompactionWatched
  <2> SUFFICES ASSUME CompactionInv, flag = "running", prompt # "driving", mishaps = {}
               PROVE  \/ \E s \in Starters : starter[s] = "asked" \/ watcher[s] = "watching"
                      \/ inbox # << >> \/ job \in {"compacting", "turnCompacting"}
    BY DEF CompactionWatched
  <2>1. (\E n \in DOMAIN inbox : inbox[n] \in Lowering) => inbox # << >>
    OBVIOUS
  <2> QED
    BY <2>1 DEF CompactionInv, Undisturbed, FlagWatched
<1> QED
  BY <1>1, CompactionInitially, CompactionInductive, PTL DEF Spec
=============================================================================
