------------------------ MODULE SessionConfigProofs ------------------------
(***************************************************************************)
(* Proofs about SessionConfig: a warning about the limits is always news,  *)
(* and what remains of a limit always has a label; the efforts a session   *)
(* offers are accepted; choices come back when sessions start again; and   *)
(* the usage of the context that is shown is never that of another turn.   *)
(***************************************************************************)
EXTENDS SessionConfig, TLAPS

-----------------------------------------------------------------------------
(* Display maps.                                                           *)

(* A valid configuration labels whatever number the server reports.        *)
LEMMA ValidMapsRender ==
  ASSUME NEW config, ValidMaps(config), NEW remaining \in Int
  PROVE  RendersLimits(config, remaining)
<1>1. ClampPercent(remaining) \in Percents
  BY DEF ClampPercent, Percents
<1>2. ASSUME NEW id \in DOMAIN config.maps
      PROVE  Renders(config.maps[id], ClampPercent(remaining))
  <2>1. ValidMap(config.maps[id])
    BY DEF ValidMaps
  <2>2. 0 \in config.maps[id].labelled => \E min \in config.maps[id].labelled : ClampPercent(remaining) >= min
    BY <1>1 DEF Percents
  <2> QED
    BY <1>1, <2>1, <2>2 DEF ValidMap, Renders
<1>3. config.primary \in DOMAIN config.maps /\ config.secondary \in DOMAIN config.maps
  BY DEF ValidMaps
<1> QED
  BY <1>2, <1>3 DEF RendersLimits

(* Picking one of the offered summaries keeps a configuration valid.       *)
LEMMA SelectKeepsValid ==
  ASSUME NEW config, IsConfig(config), ValidMaps(config), NEW i \in DOMAIN config.options
  PROVE  IsConfig(SelectSummary(config, i)) /\ ValidMaps(SelectSummary(config, i))
<1> DEFINE after == SelectSummary(config, i)
<1>1. /\ after.maps = config.maps /\ after.primary = config.primary
      /\ after.secondary = config.secondary /\ after.options = config.options
      /\ after.summary = config.options[i].summary
      /\ IsConfig(after)
  BY DEF SelectSummary, IsConfig
<1>2. config.options[i].summary # << >>
  BY DEF ValidMaps, ValidOptions
<1> HIDE DEF after
<1>3. ValidOptions(after)
  BY <1>1 DEF ValidMaps, ValidOptions
<1>4. ValidMaps(after)
  BY <1>1, <1>2, <1>3 DEF ValidMaps
<1> QED
  BY <1>1, <1>4 DEF after

(* The maps a session starts with are valid.                                *)
LEMMA DefaultMapsValid == IsConfig(DefaultMaps) /\ ValidMaps(DefaultMaps)
<1>1. IsConfig(DefaultMaps)
  BY DEF IsConfig, DefaultMaps
<1>2. \A id \in DOMAIN DefaultMaps.maps : ValidMap(DefaultMaps.maps[id])
  BY DEF DefaultMaps, ValidMap, PercentMap
<1>3. ValidOptions(DefaultMaps)
  BY DEF DefaultMaps, ValidOptions
<1> QED
  BY <1>1, <1>2, <1>3 DEF ValidMaps, DefaultMaps

(* What a session has is valid; what the file holds need not be.           *)
MapsInv ==
  /\ maps = [s \in Sessions |-> maps[s]]
  /\ \A s \in Sessions : IsConfig(maps[s]) /\ ValidMaps(maps[s])
  /\ mapsFile # << >> => IsConfig(mapsFile[1])

LEMMA MapsInitially == Init => MapsInv
  BY DefaultMapsValid DEF Init, MapsInv

(* One session gets other maps, which the file is given as well.           *)
LEMMA MapsReplaced ==
  ASSUME MapsInv, NEW s \in Sessions, NEW config, IsConfig(config), ValidMaps(config),
         maps' = [maps EXCEPT ![s] = config],
         mapsFile' = <<config>> \/ UNCHANGED mapsFile
  PROVE  MapsInv'
<1>1. maps' = [x \in Sessions |-> IF x = s THEN config ELSE maps[x]]
  BY DEF MapsInv
<1>2. \A x \in Sessions : maps'[x] = IF x = s THEN config ELSE maps[x]
  BY <1>1
<1>3. maps' = [x \in Sessions |-> maps'[x]]
  BY <1>1
<1>4. mapsFile' # << >> => IsConfig(mapsFile'[1])
  BY DEF MapsInv
<1> QED
  BY <1>2, <1>3, <1>4 DEF MapsInv

(* A step that leaves the maps alone keeps them valid.                      *)
LEMMA MapsKept ==
  ASSUME MapsInv, UNCHANGED mapVars
  PROVE  MapsInv'
  BY DEF MapsInv, mapVars

LEMMA MapsInductive == MapsInv /\ [Next]_vars => MapsInv'
<1> SUFFICES ASSUME MapsInv, [Next]_vars PROVE MapsInv'
  OBVIOUS
<1>1. ASSUME NEW s \in Sessions, NEW t \in Threads, NEW resumed \in BOOLEAN, NEW known, NEW given,
             Start(s, t, resumed, known, given)
      PROVE  MapsInv'
  <2> DEFINE config == OrElse(mapsFile, DefaultMaps)
  <2>1. IsConfig(config) /\ ValidMaps(config)
    BY <1>1, DefaultMapsValid DEF Start, OrElse, MapsInv
  <2>2. maps' = [maps EXCEPT ![s] = config] /\ mapsFile' = <<config>>
    BY <1>1 DEF Start
  <2> HIDE DEF config
  <2> QED
    BY <2>1, <2>2, MapsReplaced
<1>2. ASSUME NEW s \in Sessions, End(s) PROVE MapsInv'
  BY <1>2, DefaultMapsValid, MapsReplaced DEF End
<1>3. ASSUME NEW s \in Sessions, NEW i \in DOMAIN maps[s].options, PickSummary(s, i)
      PROVE  MapsInv'
  <2> DEFINE config == SelectSummary(maps[s], i)
  <2>1. IsConfig(config) /\ ValidMaps(config)
    BY SelectKeepsValid DEF MapsInv
  <2>2. maps' = [maps EXCEPT ![s] = config]
    BY <1>3 DEF PickSummary
  <2>3. mapsFile' = <<config>>
    <3>1. mapsFile' = <<maps'[s]>>
      BY <1>3 DEF PickSummary
    <3> HIDE DEF config
    <3> QED
      BY <2>2, <3>1 DEF MapsInv
  <2> HIDE DEF config
  <2> QED
    BY <2>1, <2>2, <2>3, MapsReplaced
<1>4. ASSUME NEW config \in MapEdits, EditMaps(config) PROVE MapsInv'
  BY <1>4, MapEditsAssumption DEF EditMaps, MapsInv
<1>5. ASSUME NEW s \in Sessions, NEW t \in Threads, NEW given, Switch(s, t, given) PROVE MapsInv'
  BY <1>5, MapsKept DEF Switch
<1>6. ASSUME NEW s \in Sessions, ApplyStartup(s) \/ ApplyAfterTurn(s) PROVE MapsInv'
  BY <1>6, MapsKept DEF ApplyStartup, ApplyAfterTurn, OnlyLimits
<1>7. ASSUME NEW s \in Sessions, NEW snap, NEW why,
             UpdateLimits(s, snap) \/ ReadLimits(s, why, snap)
      PROVE  MapsInv'
  BY <1>7, MapsKept DEF UpdateLimits, ReadLimits, OnlyLimits
<1>8. ASSUME NEW t \in Threads, ServerSteps(t) PROVE MapsInv'
  BY <1>8, MapsKept DEF ServerSteps, OnlyUsage
<1>9. ASSUME NEW s \in Sessions, NEW n, NEW tokens, NEW size, NEW readable,
             ReportTokens(s, n, tokens, size, readable)
      PROVE  MapsInv'
  BY <1>9, MapsKept DEF ReportTokens, OnlyUsage
<1>10. ASSUME NEW s \in Sessions, NEW done, WriteCache(s, done) \/ Compact(s) PROVE MapsInv'
  BY <1>10, MapsKept DEF WriteCache, Compact, OnlyUsage
<1>11. ASSUME NEW s \in Sessions, NEW v, PickModel(s, v) \/ PickEffort(s, v) \/ PickTier(s, v)
       PROVE  MapsInv'
  BY <1>11, MapsKept DEF PickModel, PickEffort, PickTier, Pick
<1>12. ASSUME NEW s \in Sessions, NEW done, WriteFile(s, done) \/ LoadModels(s) PROVE MapsInv'
  BY <1>12, MapsKept DEF WriteFile, LoadModels
<1>13. ASSUME NEW contents, EditFile(contents) PROVE MapsInv'
  BY <1>13, MapsKept DEF EditFile
<1>14. CASE UNCHANGED vars
  BY <1>14, MapsKept DEF vars
<1>15. CASE Next
  <2>1. ASSUME NEW s \in Sessions, SessionSteps(s) PROVE MapsInv'
    <3>1. CASE \E t \in Threads, resumed \in BOOLEAN, known \in Known, given \in scene.given :
                 Start(s, t, resumed, known, given)
      BY <3>1, <1>1
    <3>2. CASE \E t \in Threads, given \in scene.given : Switch(s, t, given)
      BY <3>2, <1>5
    <3>3. CASE \/ End(s) \/ ApplyStartup(s) \/ ApplyAfterTurn(s) \/ Compact(s) \/ LoadModels(s)
               \/ \E done \in BOOLEAN : WriteCache(s, done) \/ WriteFile(s, done)
      BY <3>3, <1>2, <1>6, <1>10, <1>12
    <3>4. CASE \/ \E snap \in Snapshots : UpdateLimits(s, snap)
               \/ \E why \in Purposes, snap \in Snapshots : ReadLimits(s, why, snap)
      BY <3>4, <1>7
    <3>5. CASE \E n \in Turns(thread[s][1]), size \in Sizes, readable \in BOOLEAN :
                 \E tokens \in reports[thread[s][1]][n] : ReportTokens(s, n, tokens, size, readable)
      BY <3>5, <1>9
    <3>6. CASE \/ \E model \in ModelNames : PickModel(s, model)
               \/ \E effort \in Efforts : PickEffort(s, effort)
               \/ \E tier \in Tiers : PickTier(s, tier)
      BY <3>6, <1>11
    <3>7. CASE \E i \in DOMAIN maps[s].options : PickSummary(s, i)
      BY <3>7, <1>3
    <3> QED
      BY <2>1, <3>1, <3>2, <3>3, <3>4, <3>5, <3>6, <3>7 DEF SessionSteps
  <2> QED
    BY <1>15, <2>1, <1>4, <1>8, <1>13 DEF Next
<1> QED
  BY <1>14, <1>15

(* Whatever remains of a limit, a session finds a label for it, so that     *)
(* render_limits_summary never panics (display_maps.rs:104-148, 192-241):   *)
(* maps are validated when they are read, and picking a summary keeps them  *)
(* valid, whatever the file has become meanwhile.                           *)
THEOREM LimitsAlwaysRendered ==
  Spec => [](\A s \in Sessions, remaining \in Int : RendersLimits(maps[s], remaining))
<1>1. MapsInv => \A s \in Sessions, remaining \in Int : RendersLimits(maps[s], remaining)
  BY ValidMapsRender DEF MapsInv
<1> QED
  BY <1>1, MapsInitially, MapsInductive, PTL DEF Spec
-----------------------------------------------------------------------------
(* Limits.                                                                 *)

(* A percentage has crossed some number of the thresholds.                 *)
LEMMA CrossedType == \A percent \in Int : Crossed(percent) \in 0 .. 4
<1> SUFFICES ASSUME NEW percent \in Int PROVE Crossed(percent) \in 0 .. 4
  OBVIOUS
<1> DEFINE p == Clamp(percent)
           N(n) == \A i \in 1 .. 4 : p >= Thresholds[i] <=> i <= n
<1>1. p \in Int
  BY DEF Clamp
<1> HIDE DEF p
<1>2. /\ Thresholds[1] = 75 /\ Thresholds[2] = 90 /\ Thresholds[3] = 95 /\ Thresholds[4] = 100
  BY DEF Thresholds
<1>3. \E n \in 0 .. 4 : N(n)
  <2>1. CASE p < 75
    <3> N(0)
      BY <1>1, <1>2, <2>1
    <3> QED
      OBVIOUS
  <2>2. CASE p >= 75 /\ p < 90
    <3> N(1)
      BY <1>1, <1>2, <2>2
    <3> QED
      OBVIOUS
  <2>3. CASE p >= 90 /\ p < 95
    <3> N(2)
      BY <1>1, <1>2, <2>3
    <3> QED
      OBVIOUS
  <2>4. CASE p >= 95 /\ p < 100
    <3> N(3)
      BY <1>1, <1>2, <2>4
    <3> QED
      OBVIOUS
  <2>5. CASE p >= 100
    <3> N(4)
      BY <1>1, <1>2, <2>5
    <3> QED
      OBVIOUS
  <2> QED
    BY <1>1, <2>1, <2>2, <2>3, <2>4, <2>5
<1> QED
  BY <1>3 DEF Crossed, p

(* What a session knows of the windows, or waits to apply.                 *)
Windowed == UNION {[W -> Int] : W \in SUBSET Windows}
Answers == UNION {[P -> Snapshots] : P \in SUBSET Purposes}

(* The thresholds behind a window are at least those it had crossed when   *)
(* it was seen last, and what is read is what the server has sent.         *)
LimitsInv ==
  /\ index \in [Sessions -> [Windows -> 0 .. 4]]
  /\ seen \in [Sessions -> Windowed]
  /\ reading \in [Sessions -> Answers]
  /\ \A s \in Sessions : \A w \in DOMAIN seen[s] : Crossed(seen[s][w]) <= index[s][w]
  /\ WarningsAreNews

LEMMA LimitsInitially == Init => LimitsInv
<1> SUFFICES ASSUME Init PROVE LimitsInv
  OBVIOUS
<1>1. NoLimits \in Windowed /\ DOMAIN NoLimits = {}
  BY DEF NoLimits, Windowed
<1>2. [why \in {} |-> NoLimits] \in Answers
  <2>1. [why \in {} |-> NoLimits] \in [{} -> Snapshots]
    OBVIOUS
  <2> QED
    BY <2>1 DEF Answers
<1>3. /\ index = [s \in Sessions |-> [w \in Windows |-> 0]]
      /\ reading = [s \in Sessions |-> [why \in {} |-> NoLimits]]
      /\ seen = [s \in Sessions |-> NoLimits]
      /\ notice = NoNotice
  BY DEF Init, LimitsInit
<1>4. index \in [Sessions -> [Windows -> 0 .. 4]]
  BY <1>3
<1>5. WarningsAreNews
  BY <1>3 DEF WarningsAreNews, NoNotice
<1> QED
  BY <1>1, <1>2, <1>3, <1>4, <1>5 DEF LimitsInv

\* A step without a notice is one that warns of nothing old.
LEMMA NothingNoticed == notice' = NoNotice => WarningsAreNews'
  BY DEF WarningsAreNews, NoNotice

(* Nothing about limits changes.                                            *)
LEMMA QuietKeeps == ASSUME LimitsInv, Quiet PROVE LimitsInv'
  BY NothingNoticed DEF LimitsInv, Quiet

(* A session that ends forgets what it knew of the limits.                  *)
LEMMA ForgottenKeeps ==
  ASSUME LimitsInv, NEW s \in Sessions, LimitsForgotten(s)
  PROVE  LimitsInv'
<1>1. NoLimits \in Windowed /\ DOMAIN NoLimits = {}
  BY DEF NoLimits, Windowed
<1>2. [why \in {} |-> NoLimits] \in Answers
  <2>1. [why \in {} |-> NoLimits] \in [{} -> Snapshots]
    OBVIOUS
  <2> QED
    BY <2>1 DEF Answers
<1>3. index' \in [Sessions -> [Windows -> 0 .. 4]]
  BY DEF LimitsForgotten, LimitsInv
<1>4. seen' \in [Sessions -> Windowed] /\ reading' \in [Sessions -> Answers]
  BY <1>1, <1>2 DEF LimitsForgotten, LimitsInv
<1>5. ASSUME NEW x \in Sessions, NEW w \in DOMAIN seen'[x]
      PROVE  Crossed(seen'[x][w]) <= index'[x][w]
  <2>1. x # s
    BY <1>1 DEF LimitsForgotten, LimitsInv
  <2> QED
    BY <2>1 DEF LimitsForgotten, LimitsInv
<1> QED
  BY <1>3, <1>4, <1>5, NothingNoticed DEF LimitsInv, LimitsForgotten

(* Seeing a snapshot keeps what a session has seen windows and percentages. *)
LEMMA SeesTyped ==
  ASSUME LimitsInv, NEW s \in Sessions, NEW snap \in Snapshots, Sees(s, snap)
  PROVE  /\ seen' \in [Sessions -> Windowed]
         /\ \A x \in Sessions \ {s} : seen'[x] = seen[x]
         /\ DOMAIN seen'[s] = DOMAIN snap \cup DOMAIN seen[s]
         /\ \A w \in DOMAIN seen'[s] : seen'[s][w] = IF w \in DOMAIN snap THEN snap[w] ELSE seen[s][w]
<1> DEFINE now == [w \in DOMAIN snap \cup DOMAIN seen[s] |->
                     IF w \in DOMAIN snap THEN snap[w] ELSE seen[s][w]]
<1>1. seen[s] \in Windowed
  BY DEF LimitsInv
<1>2. PICK W \in SUBSET Windows : seen[s] \in [W -> Int]
  BY <1>1 DEF Windowed
<1>3. DOMAIN snap \subseteq Windows /\ \A w \in DOMAIN snap : snap[w] \in Int
  BY SnapshotsAssumption
<1>4. now \in [DOMAIN snap \cup W -> Int]
  BY <1>2, <1>3
<1>5. now \in Windowed
  BY <1>2, <1>3, <1>4 DEF Windowed
<1>6. seen' = [seen EXCEPT ![s] = now]
  BY DEF Sees
<1> HIDE DEF now
<1>7. seen' \in [Sessions -> Windowed] /\ seen'[s] = now /\ \A x \in Sessions \ {s} : seen'[x] = seen[x]
  BY <1>5, <1>6 DEF LimitsInv
<1> QED
  BY <1>7 DEF now

(* A live update: every window it warns of had crossed fewer thresholds,   *)
(* since those it had crossed lie behind the index.                        *)
LEMMA UpdatedKeeps ==
  ASSUME LimitsInv, NEW s \in Sessions, NEW snap \in Snapshots, LimitsUpdated(s, snap)
  PROVE  /\ index' \in [Sessions -> [Windows -> 0 .. 4]]
         /\ seen' \in [Sessions -> Windowed]
         /\ \A x \in Sessions : \A w \in DOMAIN seen'[x] : Crossed(seen'[x][w]) <= index'[x][w]
         /\ WarningsAreNews'
<1>1. DOMAIN snap \subseteq Windows /\ \A w \in DOMAIN snap : snap[w] \in Int
  BY SnapshotsAssumption
<1>2. \A w \in DOMAIN seen[s] : w \in Windows /\ seen[s][w] \in Int /\ Crossed(seen[s][w]) \in 0 .. 4
  <2>1. PICK W \in SUBSET Windows : seen[s] \in [W -> Int]
    BY DEF LimitsInv, Windowed
  <2> QED
    BY <2>1, CrossedType
<1>3. \A w \in DOMAIN snap : /\ Crossed(snap[w]) \in 0 .. 4
                             /\ index[s][w] \in 0 .. 4
                             /\ Behind(s, w, snap[w]) \in 0 .. 4
                             /\ IndexAfter(s, w, snap[w]) \in 0 .. 4
                             /\ IndexAfter(s, w, snap[w]) >= Crossed(snap[w])
  BY <1>1, CrossedType DEF LimitsInv, Behind, IndexAfter
<1>4. Sees(s, snap)
  BY DEF LimitsUpdated
<1>5. /\ index'[s] = [w \in Windows |-> IF w \in DOMAIN snap THEN IndexAfter(s, w, snap[w]) ELSE index[s][w]]
      /\ \A x \in Sessions \ {s} : index'[x] = index[x]
      /\ index' \in [Sessions -> [Windows -> 0 .. 4]]
  <2> DEFINE after == [w \in Windows |-> IF w \in DOMAIN snap THEN IndexAfter(s, w, snap[w]) ELSE index[s][w]]
  <2>1. after \in [Windows -> 0 .. 4]
    BY <1>1, <1>3 DEF LimitsInv
  <2>2. index' = [index EXCEPT ![s] = after]
    BY DEF LimitsUpdated
  <2> HIDE DEF after
  <2>3. index' \in [Sessions -> [Windows -> 0 .. 4]] /\ index'[s] = after
        /\ \A x \in Sessions \ {s} : index'[x] = index[x]
    BY <2>1, <2>2 DEF LimitsInv
  <2> QED
    BY <2>3 DEF after
<1>6. ASSUME NEW x \in Sessions, NEW w \in DOMAIN seen'[x]
      PROVE  Crossed(seen'[x][w]) <= index'[x][w]
  <2>1. CASE x # s
    BY <2>1, <1>4, <1>5, SeesTyped DEF LimitsInv
  <2>2. CASE x = s /\ w \in DOMAIN snap
    BY <2>2, <1>1, <1>3, <1>4, <1>5, SeesTyped
  <2>3. CASE x = s /\ w \notin DOMAIN snap
    BY <2>3, <1>2, <1>4, <1>5, SeesTyped DEF LimitsInv
  <2> QED
    BY <2>1, <2>2, <2>3
<1>7. WarningsAreNews'
  <2> SUFFICES ASSUME NEW w \in DOMAIN notice', notice'[w].last # << >>
               PROVE  Crossed(notice'[w].last[1]) < Crossed(notice'[w].now)
    BY DEF WarningsAreNews
  <2>1. /\ w \in Named(s, snap)
        /\ notice'[w] = [last |-> IF w \in DOMAIN seen[s] THEN <<seen[s][w]>> ELSE << >>, now |-> snap[w]]
    BY DEF LimitsUpdated
  <2>2. w \in DOMAIN snap /\ Crossed(snap[w]) > Behind(s, w, snap[w])
    BY <2>1 DEF Named, Warned
  <2>3. w \in DOMAIN seen[s] /\ notice'[w].last[1] = seen[s][w] /\ notice'[w].now = snap[w]
    BY <2>1
  <2>4. Crossed(snap[w]) > index[s][w]
    BY <1>3, <2>2 DEF Behind
  <2>5. Crossed(seen[s][w]) <= index[s][w]
    BY <2>3 DEF LimitsInv
  <2> QED
    BY <1>2, <1>3, <2>2, <2>3, <2>4, <2>5
<1> QED
  BY <1>4, <1>5, <1>6, <1>7, SeesTyped

(* A snapshot that is only observed: the index is what it has crossed.     *)
LEMMA ObservedKeeps ==
  ASSUME LimitsInv, NEW s \in Sessions, NEW snap \in Snapshots, LimitsObserved(s, snap)
  PROVE  /\ index' \in [Sessions -> [Windows -> 0 .. 4]]
         /\ seen' \in [Sessions -> Windowed]
         /\ \A x \in Sessions : \A w \in DOMAIN seen'[x] : Crossed(seen'[x][w]) <= index'[x][w]
         /\ WarningsAreNews'
<1>1. DOMAIN snap \subseteq Windows /\ \A w \in DOMAIN snap : Crossed(snap[w]) \in 0 .. 4
  BY SnapshotsAssumption, CrossedType
<1>2. \A w \in DOMAIN seen[s] : w \in Windows
  BY DEF LimitsInv, Windowed
<1>3. Sees(s, snap)
  BY DEF LimitsObserved
<1>4. /\ index'[s] = [w \in Windows |-> IF w \in DOMAIN snap THEN Crossed(snap[w]) ELSE index[s][w]]
      /\ \A x \in Sessions \ {s} : index'[x] = index[x]
      /\ index' \in [Sessions -> [Windows -> 0 .. 4]]
  <2> DEFINE after == [w \in Windows |-> IF w \in DOMAIN snap THEN Crossed(snap[w]) ELSE index[s][w]]
  <2>1. after \in [Windows -> 0 .. 4]
    BY <1>1 DEF LimitsInv
  <2>2. index' = [index EXCEPT ![s] = after]
    BY DEF LimitsObserved
  <2> HIDE DEF after
  <2>3. index' \in [Sessions -> [Windows -> 0 .. 4]] /\ index'[s] = after
        /\ \A x \in Sessions \ {s} : index'[x] = index[x]
    BY <2>1, <2>2 DEF LimitsInv
  <2> QED
    BY <2>3 DEF after
<1>5. ASSUME NEW x \in Sessions, NEW w \in DOMAIN seen'[x]
      PROVE  Crossed(seen'[x][w]) <= index'[x][w]
  <2>1. CASE x # s
    BY <2>1, <1>3, <1>4, SeesTyped DEF LimitsInv
  <2>2. CASE x = s /\ w \in DOMAIN snap
    BY <2>2, <1>1, <1>3, <1>4, SeesTyped
  <2>3. CASE x = s /\ w \notin DOMAIN snap
    BY <2>3, <1>2, <1>3, <1>4, SeesTyped DEF LimitsInv
  <2> QED
    BY <2>1, <2>2, <2>3
<1> QED
  BY <1>3, <1>4, <1>5, SeesTyped, NothingNoticed DEF LimitsObserved

(* What waits to be applied stays an answer of the server.                 *)
LEMMA AnswerAdded ==
  ASSUME LimitsInv, NEW s \in Sessions, NEW why \in Purposes, NEW snap \in Snapshots,
         ReadsLimits(s, why, snap)
  PROVE  LimitsInv'
<1> DEFINE now == [p \in DOMAIN reading[s] \cup {why} |-> IF p = why THEN snap ELSE reading[s][p]]
<1>1. PICK P \in SUBSET Purposes : reading[s] \in [P -> Snapshots]
  BY DEF LimitsInv, Answers
<1>2. now \in [P \cup {why} -> Snapshots] /\ P \cup {why} \in SUBSET Purposes
  BY <1>1
<1>3. now \in Answers
  BY <1>2 DEF Answers
<1>4. reading' = [reading EXCEPT ![s] = now]
  BY DEF ReadsLimits
<1> HIDE DEF now
<1>5. reading' \in [Sessions -> Answers]
  BY <1>3, <1>4 DEF LimitsInv
<1>6. notice' = NoNotice /\ UNCHANGED <<index, seen>>
  BY DEF ReadsLimits
<1> QED
  BY <1>5, <1>6, NothingNoticed DEF LimitsInv

(* What was waiting to be applied is a snapshot.                            *)
LEMMA AnswerTaken ==
  ASSUME LimitsInv, NEW s \in Sessions, NEW why \in DOMAIN reading[s], Reads(s, why)
  PROVE  reading' \in [Sessions -> Answers] /\ reading[s][why] \in Snapshots
<1> DEFINE now == [p \in DOMAIN reading[s] \ {why} |-> reading[s][p]]
<1>1. PICK P \in SUBSET Purposes : reading[s] \in [P -> Snapshots]
  BY DEF LimitsInv, Answers
<1>2. now \in [P \ {why} -> Snapshots] /\ P \ {why} \in SUBSET Purposes
  BY <1>1
<1>3. now \in Answers
  BY <1>2 DEF Answers
<1>4. reading' = [reading EXCEPT ![s] = now]
  BY DEF Reads
<1> HIDE DEF now
<1>5. reading' \in [Sessions -> Answers]
  BY <1>3, <1>4 DEF LimitsInv
<1> QED
  BY <1>1, <1>5

(* Applying an answer only moves the index ahead.                           *)
LEMMA AppliesObservedKeeps ==
  ASSUME LimitsInv, NEW s \in Sessions, NEW why, AppliesObserved(s, why)
  PROVE  LimitsInv'
<1>1. why \in DOMAIN reading[s] /\ Reads(s, why) /\ LimitsObserved(s, reading[s][why])
  BY DEF AppliesObserved
<1>2. reading' \in [Sessions -> Answers] /\ reading[s][why] \in Snapshots
  BY <1>1, AnswerTaken
<1> QED
  BY <1>1, <1>2, ObservedKeeps DEF LimitsInv

LEMMA LimitsInductive == LimitsInv /\ [Next]_vars => LimitsInv'
<1> SUFFICES ASSUME LimitsInv, [Next]_vars PROVE LimitsInv'
  OBVIOUS
<1>1. ASSUME NEW s \in Sessions, SessionSteps(s) PROVE LimitsInv'
  <2>1. CASE \/ \E t \in Threads, resumed \in BOOLEAN, known \in Known, given \in scene.given :
                  Start(s, t, resumed, known, given)
             \/ End(s)
    BY <2>1, ForgottenKeeps DEF Start, End
  <2>2. CASE \E t \in Threads, given \in scene.given : Switch(s, t, given)
    BY <2>2, AppliesObservedKeeps, QuietKeeps DEF Switch
  <2>3. CASE ApplyStartup(s)
    BY <2>3, AppliesObservedKeeps DEF ApplyStartup
  <2>4. CASE ApplyAfterTurn(s)
    <3>1. "turn" \in DOMAIN reading[s] /\ Reads(s, "turn") /\ LimitsUpdated(s, reading[s]["turn"])
      BY <2>4 DEF ApplyAfterTurn, AppliesAfterTurn
    <3>2. reading' \in [Sessions -> Answers] /\ reading[s]["turn"] \in Snapshots
      BY <3>1, AnswerTaken
    <3> QED
      BY <3>1, <3>2, UpdatedKeeps DEF LimitsInv
  <2>5. CASE \E snap \in Snapshots : UpdateLimits(s, snap)
    <3>1. PICK snap \in Snapshots : LimitsUpdated(s, snap) /\ UNCHANGED reading
      BY <2>5 DEF UpdateLimits
    <3> QED
      BY <3>1, UpdatedKeeps DEF LimitsInv
  <2>6. CASE \E why \in Purposes, snap \in Snapshots : ReadLimits(s, why, snap)
    BY <2>6, AnswerAdded DEF ReadLimits
  <2>7. CASE \/ Compact(s) \/ LoadModels(s)
             \/ \E done \in BOOLEAN : WriteCache(s, done) \/ WriteFile(s, done)
    BY <2>7, QuietKeeps DEF Compact, LoadModels, WriteCache, WriteFile, OnlyUsage
  <2>8. CASE \E n \in Turns(thread[s][1]), size \in Sizes, readable \in BOOLEAN :
               \E tokens \in reports[thread[s][1]][n] : ReportTokens(s, n, tokens, size, readable)
    BY <2>8, QuietKeeps DEF ReportTokens, OnlyUsage
  <2>9. CASE \/ \E model \in ModelNames : PickModel(s, model)
             \/ \E effort \in Efforts : PickEffort(s, effort)
             \/ \E tier \in Tiers : PickTier(s, tier)
    BY <2>9, QuietKeeps DEF PickModel, PickEffort, PickTier, Pick
  <2>10. CASE \E i \in DOMAIN maps[s].options : PickSummary(s, i)
    BY <2>10, QuietKeeps DEF PickSummary
  <2> QED
    BY <1>1, <2>1, <2>2, <2>3, <2>4, <2>5, <2>6, <2>7, <2>8, <2>9, <2>10 DEF SessionSteps
<1>2. CASE \/ \E t \in Threads : ServerSteps(t)
           \/ \E contents \in Edits : EditFile(contents)
           \/ \E config \in MapEdits : EditMaps(config)
  BY <1>2, QuietKeeps DEF ServerSteps, OnlyUsage, EditFile, EditMaps
<1>3. CASE UNCHANGED vars
  BY <1>3 DEF vars, limitVars, LimitsInv, WarningsAreNews
<1> QED
  BY <1>1, <1>2, <1>3 DEF Next

(* A session warns of a window only if it had crossed fewer thresholds     *)
(* when the session saw it last, however live updates, late answers,       *)
(* switches and restarts follow each other (limits.rs:79-157).             *)
THEOREM LimitWarningsAreNews == Spec => []WarningsAreNews
<1>1. LimitsInv => WarningsAreNews
  BY DEF LimitsInv
<1> QED
  BY <1>1, LimitsInitially, LimitsInductive, PTL DEF Spec

-----------------------------------------------------------------------------
(* Choices.                                                                *)

(* At most one of the models a session knows has the name it looks for.    *)
LEMMA FoundOnce ==
  ASSUME NEW known \in SUBSET Catalogue, NEW name,
         NEW m \in Find(known, name), NEW n \in Find(known, name)
  PROVE  m = n
  BY CatalogueAssumption DEF Find

(* An effort made normal for a model is one the model lists, or its default. *)
LEMMA NormalFits ==
  ASSUME NEW known, NEW name, NEW effort
  PROVE  \/ \A m \in Find(known, name) : NormalEffort(known, name, effort) \in m.efforts
         \/ \E m \in Find(known, name) : NormalEffort(known, name, effort) = m.default
<1> DEFINE found == Find(known, name)
<1> HIDE DEF found
<1>1. CASE \E m \in found : effort \notin m.efforts
  <2>1. (CHOOSE m \in found : TRUE) \in found
    BY <1>1
  <2> QED
    BY <1>1, <2>1 DEF NormalEffort, found
<1>2. CASE \A m \in found : effort \in m.efforts
  BY <1>2 DEF NormalEffort, found
<1> QED
  BY <1>1, <1>2

ChoiceKinds == {"model", "effort", "tier"}

IsChoice(c) ==
  /\ c = [k \in {"model", "effort", "tier", "defaults"} |-> c[k]]
  /\ c.defaults = [k \in {"model", "effort", "tier"} |-> c.defaults[k]]

ChoicesShape ==
  /\ open \subseteq Sessions /\ checked \subseteq Sessions
  /\ models \in [Sessions -> SUBSET Catalogue]
  /\ lists = [s \in Sessions |-> lists[s]]
  /\ saving = [s \in Sessions |-> saving[s]]
  /\ choice = [s \in Sessions |-> choice[s]]
  /\ \A s \in Sessions : IsChoice(choice[s])
  /\ chosen = [model |-> chosen.model, effort |-> chosen.effort, tier |-> chosen.tier]
  /\ \A k \in ChoiceKinds : chosen[k] # << >> => chosen[k] = <<chosen[k][1]>>
  /\ chosen.effort # << >> => chosen.effort[1] \in Efforts

\* A session knows its model, and takes the effort it has unless that is the model's default.
Fitted(s) ==
  /\ Find(models[s], choice[s].model) # {}
  /\ \/ Accepts(s, choice[s].effort)
     \/ \E m \in Find(models[s], choice[s].model) : choice[s].effort = m.default

(* What fitted the model when it was set still does: a model that is known  *)
(* is not loaded again, and a new one makes the effort normal.             *)
CheckedFits == \A s \in checked : Fitted(s)

Keeps(contents) == \A k \in ChoiceKinds : chosen[k] # << >> => contents[k] = chosen[k]

(* While sessions stay apart, the one that is open has the last choices as *)
(* its defaults, and so has the file, or what is about to be written to it. *)
ChosenKept ==
  apart =>
    /\ \A r \in open, s \in open : r = s
    /\ \A s \in Sessions : saving[s] # << >> => s \in open /\ Keeps(saving[s][1])
    /\ (\A s \in Sessions : saving[s] = << >>) => Keeps(file)
    /\ \A s \in open, k \in ChoiceKinds :
         chosen[k] # << >> => choice[s].defaults[k] = chosen[k][1]

ChoicesInv == ChoicesShape /\ CheckedFits /\ ChosenKept

LEMMA ChoicesInitially == Init => ChoicesInv
<1> SUFFICES ASSUME Init PROVE ChoicesInv
  OBVIOUS
<1>1. ChoicesInit /\ open = {} /\ checked = {} /\ chosen = [model |-> << >>, effort |-> << >>, tier |-> << >>]
  BY DEF Init
<1>2. ChoicesShape
  BY <1>1 DEF ChoicesInit, ChoicesShape, IsChoice, NoChoice, NoDefaults, ChoiceKinds
<1>3. CheckedFits /\ ChosenKept
  BY <1>1 DEF ChoicesInit, CheckedFits, ChosenKept, Keeps, ChoiceKinds
<1> QED
  BY <1>2, <1>3 DEF ChoicesInv

(* Nothing about choices changes.                                           *)
LEMMA ChoicesUntouched ==
  ASSUME ChoicesInv, UNCHANGED <<open, choiceVars, checked, apart, chosen>>
  PROVE  ChoicesInv'
  BY DEF ChoicesInv, ChoicesShape, CheckedFits, Fitted, ChosenKept, Keeps, Accepts, choiceVars

(* The effort of a session that is checked, and its lists, models and model *)
(* when they stay what they are.                                           *)
LEMMA OthersStayFitted ==
  ASSUME NEW s, choice'[s] = choice[s], models'[s] = models[s], lists'[s] = lists[s], Fitted(s)
  PROVE  Fitted(s)'
  BY DEF Fitted, Accepts

(* A session whose effort is made normal for a model it knows is fitted.    *)
LEMMA NormalisedFits ==
  ASSUME NEW s, Find(models'[s], choice'[s].model) # {},
         NEW effort, choice'[s].effort = PreferredEffort(models'[s], choice'[s].model, lists'[s], effort)
  PROVE  Fitted(s)'
<1> DEFINE found == Find(models'[s], choice'[s].model)
           normal == NormalEffort(models'[s], choice'[s].model, effort)
<1>1. (\A m \in found : normal \in m.efforts) \/ (\E m \in found : normal = m.default)
  BY NormalFits
<1>2. choice'[s].effort = (IF effort \in lists'[s].efforts THEN effort ELSE normal)
  BY DEF PreferredEffort
<1> HIDE DEF normal
<1> QED
  BY <1>1, <1>2 DEF Fitted, Accepts

(* What is saved are the defaults of the session.                          *)
LEMMA SavesDefaults ==
  ASSUME ChoicesInv, NEW s \in Sessions, Saves(s)
  PROVE  IF file.state = "invalid" THEN saving'[s] = << >>
         ELSE /\ saving'[s] # << >>
              /\ saving'[s][1].model = <<choice'[s].defaults.model>>
              /\ saving'[s][1].effort = <<choice'[s].defaults.effort>>
              /\ saving'[s][1].tier = <<choice'[s].defaults.tier>>
<1>1. \E configured, groups :
        saving' = [saving EXCEPT ![s] =
          IF file.state = "invalid" THEN << >>
          ELSE <<Contents(<<choice'[s].defaults.model>>, <<choice'[s].defaults.effort>>,
                          <<choice'[s].defaults.tier>>, configured, groups)>>]
  BY DEF Saves
<1>2. PICK configured, groups :
        saving'[s] = IF file.state = "invalid" THEN << >>
                     ELSE <<Contents(<<choice'[s].defaults.model>>, <<choice'[s].defaults.effort>>,
                                     <<choice'[s].defaults.tier>>, configured, groups)>>
  BY <1>1 DEF ChoicesInv, ChoicesShape
<1> QED
  BY <1>2 DEF Contents

(* A session makes a choice, which becomes its default and is to be written. *)
LEMMA ChoiceMade ==
  ASSUME ChoicesInv, NEW s \in Sessions, NEW kind \in ChoiceKinds, NEW value, Pick(s, kind, value),
         kind = "effort" => value \in Efforts,
         NEW c, IsChoice(c), c.defaults = [choice[s].defaults EXCEPT ![kind] = value],
         choice' = [choice EXCEPT ![s] = c], UNCHANGED <<models, lists, layout, file>>, Saves(s),
         s \in checked' => Fitted(s)'
  PROVE  ChoicesInv'
<1> USE DEF ChoiceKinds
<1>1. /\ s \in open /\ open' = open /\ saving[s] = << >>
      /\ chosen' = [chosen EXCEPT ![kind] = <<value>>]
      /\ checked' \subseteq checked \cup {s}
      /\ apart' => apart /\ file.state # "invalid"
  BY DEF Pick, Unlocked, ChecksEffort
<1>2. /\ choice' = [x \in Sessions |-> IF x = s THEN c ELSE choice[x]]
      /\ choice'[s] = c
      /\ \A x \in Sessions \ {s} : choice'[x] = choice[x]
  BY DEF ChoicesInv, ChoicesShape
<1>3. PICK new : saving' = [saving EXCEPT ![s] = new]
  BY DEF Saves
<1>4. /\ saving' = [x \in Sessions |-> IF x = s THEN new ELSE saving[x]]
      /\ saving'[s] = new
      /\ \A x \in Sessions \ {s} : saving'[x] = saving[x]
  BY <1>3 DEF ChoicesInv, ChoicesShape
<1>5. /\ \A k \in ChoiceKinds \ {kind} : chosen'[k] = chosen[k]
      /\ chosen'[kind] = <<value>>
      /\ chosen' = [model |-> chosen'.model, effort |-> chosen'.effort, tier |-> chosen'.tier]
  BY <1>1 DEF ChoicesInv, ChoicesShape
<1>6. ChoicesShape'
  BY <1>1, <1>2, <1>4, <1>5 DEF ChoicesInv, ChoicesShape
<1>7. CheckedFits'
  <2>1. ASSUME NEW x \in checked', x # s PROVE Fitted(x)'
    <3>1. x \in checked /\ x \in Sessions /\ choice'[x] = choice[x] /\ Fitted(x)
      BY <1>1, <1>2, <2>1 DEF ChoicesInv, ChoicesShape, CheckedFits
    <3> QED
      BY <3>1, OthersStayFitted
  <2> QED
    BY <2>1 DEF CheckedFits
<1>8. ASSUME apart' PROVE ChosenKept'
  <2>1. \A x \in open : x = s
    BY <1>1, <1>8 DEF ChoicesInv, ChosenKept
  <2>2. ASSUME NEW k \in ChoiceKinds, chosen'[k] # << >>
        PROVE  chosen'[k] = <<c.defaults[k]>>
    <3>1. CASE k = kind
      BY <3>1, <1>5 DEF IsChoice
    <3>2. CASE k # kind
      <4>1. chosen[k] # << >> /\ chosen'[k] = chosen[k] /\ chosen[k] = <<chosen[k][1]>>
        BY <2>2, <3>2, <1>5 DEF ChoicesInv, ChoicesShape
      <4>2. choice[s].defaults[k] = chosen[k][1]
        BY <4>1, <1>1, <1>8 DEF ChoicesInv, ChosenKept
      <4>3. c.defaults[k] = choice[s].defaults[k]
        BY <3>2 DEF ChoicesInv, ChoicesShape, IsChoice
      <4> QED
        BY <4>1, <4>2, <4>3
    <3> QED
      BY <3>1, <3>2
  <2>3. new # << >> => /\ new[1].model = <<c.defaults.model>>
                       /\ new[1].effort = <<c.defaults.effort>>
                       /\ new[1].tier = <<c.defaults.tier>>
    BY <1>2, <1>4, SavesDefaults
  <2>4. new # << >> /\ \A k \in ChoiceKinds : chosen'[k] # << >> => new[1][k] = chosen'[k]
    <3>1. new # << >>
      BY <1>1, <1>4, <1>8, SavesDefaults
    <3> QED
      BY <2>2, <2>3, <3>1
  <2>5. \A x \in Sessions \ {s} : saving[x] = << >>
    BY <2>1, <1>1, <1>8 DEF ChoicesInv, ChosenKept
  <2>6. \A x \in Sessions : saving'[x] # << >> => x \in open' /\ Keeps(saving[x][1])'
    BY <1>1, <1>4, <2>4, <2>5 DEF Keeps
  <2>7. \A k \in ChoiceKinds : chosen'[k] # << >> => choice'[s].defaults[k] = chosen'[k][1]
    <3>1. \A x : <<x>>[1] = x
      OBVIOUS
    <3> QED
      BY <1>2, <2>2, <3>1
  <2>8. saving'[s] # << >>
    BY <1>4, <2>4
  <2> QED
    BY <1>1, <2>1, <2>6, <2>7, <2>8 DEF ChosenKept
<1> QED
  BY <1>6, <1>7, <1>8 DEF ChoicesInv, ChosenKept

(* A pick of a model keeps the invariant.                                   *)
LEMMA ModelPicked ==
  ASSUME ChoicesInv, NEW s \in Sessions, NEW model, PickModel(s, model)
  PROVE  ChoicesInv'
<1> DEFINE effort == PreferredEffort(models[s], model, lists[s], choice[s].effort)
<1> DEFINE c == [choice[s] EXCEPT !.model = model, !.effort = effort,
                                  !.defaults = [choice[s].defaults EXCEPT !["model"] = model]]
<1>1. Pick(s, "model", model) /\ SetModel(s, model)
  BY DEF PickModel
<1>2. IsChoice(choice[s])
  BY DEF ChoicesInv, ChoicesShape
<1>3. /\ IsChoice(c) /\ c.model = model /\ c.effort = effort
      /\ c.defaults = [choice[s].defaults EXCEPT !["model"] = model]
  BY <1>2 DEF IsChoice
<1>4. choice' = [choice EXCEPT ![s] = c] /\ choice'[s] = c
  BY <1>1, <1>2 DEF SetModel, ChoicesInv, ChoicesShape, IsChoice
<1>5. ASSUME s \in checked' PROVE Fitted(s)'
  <2>1. Find(models'[s], choice'[s].model) # {}
    BY <1>1, <1>5 DEF Pick, ChecksEffort, KnowsModel
  <2>2. lists' = lists /\ models' = models /\ choice'[s].effort = effort /\ choice'[s].model = model
    BY <1>1, <1>3, <1>4 DEF SetModel
  <2> HIDE DEF c
  <2>3. choice'[s].effort = PreferredEffort(models'[s], choice'[s].model, lists'[s], choice[s].effort)
    BY <2>2
  <2> QED
    BY <2>1, <2>3, NormalisedFits
<1> HIDE DEF c
<1> QED
  BY <1>1, <1>3, <1>4, <1>5, ChoiceMade DEF SetModel, ChoiceKinds

(* So does a pick of an effort.                                             *)
LEMMA EffortPicked ==
  ASSUME ChoicesInv, NEW s \in Sessions, NEW effort \in Efforts, PickEffort(s, effort)
  PROVE  ChoicesInv'
<1> DEFINE c == [choice[s] EXCEPT !.effort = effort,
                                  !.defaults = [choice[s].defaults EXCEPT !["effort"] = effort]]
<1>1. Pick(s, "effort", effort) /\ SetEffort(s, effort)
  BY DEF PickEffort
<1>2. IsChoice(choice[s])
  BY DEF ChoicesInv, ChoicesShape
<1>3. /\ IsChoice(c) /\ c.model = choice[s].model /\ c.effort = effort
      /\ c.defaults = [choice[s].defaults EXCEPT !["effort"] = effort]
  BY <1>2 DEF IsChoice
<1>4. choice' = [choice EXCEPT ![s] = c] /\ choice'[s] = c
  BY <1>1, <1>2 DEF SetEffort, ChoicesInv, ChoicesShape, IsChoice
<1> HIDE DEF c
<1>5. ASSUME s \in checked' PROVE Fitted(s)'
  <2>1. Find(models'[s], choice'[s].model) # {}
    BY <1>1, <1>5 DEF Pick, ChecksEffort, KnowsModel
  <2>2. Accepts(s, choice[s].effort)'
    BY <1>1, <1>3, <1>4 DEF SetEffort, Accepts
  <2> QED
    BY <2>1, <2>2 DEF Fitted
<1> QED
  BY <1>1, <1>3, <1>4, <1>5, ChoiceMade DEF SetEffort, ChoiceKinds

(* So does a pick of a tier.                                                *)
LEMMA TierPicked ==
  ASSUME ChoicesInv, NEW s \in Sessions, NEW tier, PickTier(s, tier)
  PROVE  ChoicesInv'
<1> DEFINE c == [choice[s] EXCEPT !.tier = tier,
                                  !.defaults = [choice[s].defaults EXCEPT !["tier"] = tier]]
<1>1. Pick(s, "tier", tier) /\ SetTier(s, tier)
  BY DEF PickTier
<1>2. IsChoice(choice[s])
  BY DEF ChoicesInv, ChoicesShape
<1>3. /\ IsChoice(c) /\ c.model = choice[s].model /\ c.effort = choice[s].effort
      /\ c.defaults = [choice[s].defaults EXCEPT !["tier"] = tier]
  BY <1>2 DEF IsChoice
<1>4. choice' = [choice EXCEPT ![s] = c] /\ choice'[s] = c
  BY <1>1, <1>2 DEF SetTier, ChoicesInv, ChoicesShape, IsChoice
<1> HIDE DEF c
<1>5. ASSUME s \in checked' PROVE Fitted(s)'
  <2>1. Fitted(s)
    BY <1>1, <1>5 DEF Pick, ChoicesInv, CheckedFits
  <2>2. /\ models' = models /\ lists' = lists
        /\ choice'[s].model = choice[s].model /\ choice'[s].effort = choice[s].effort
    BY <1>1, <1>3, <1>4 DEF SetTier
  <2> QED
    BY <2>1, <2>2 DEF Fitted, Accepts
<1> QED
  BY <1>1, <1>3, <1>4, <1>5, ChoiceMade DEF SetTier, ChoiceKinds

(* One session gets other settings without a choice being made.            *)
LEMMA SessionReset ==
  ASSUME ChoicesInv, NEW s \in Sessions,
         NEW c, IsChoice(c), choice' = [choice EXCEPT ![s] = c],
         NEW known \in SUBSET Catalogue, models' = [models EXCEPT ![s] = known],
         NEW configured, lists' = [lists EXCEPT ![s] = configured],
         NEW new, saving' = [saving EXCEPT ![s] = new],
         checked' \subseteq checked \cup {s}, s \in checked' => Fitted(s)',
         open' \in SUBSET Sessions, UNCHANGED chosen
  PROVE  /\ ChoicesShape' /\ CheckedFits'
         /\ choice'[s] = c /\ saving'[s] = new /\ lists'[s] = configured
         /\ \A x \in Sessions \ {s} : choice'[x] = choice[x] /\ saving'[x] = saving[x]
<1>1. /\ choice' = [x \in Sessions |-> IF x = s THEN c ELSE choice[x]]
      /\ models' = [x \in Sessions |-> IF x = s THEN known ELSE models[x]]
      /\ lists' = [x \in Sessions |-> IF x = s THEN configured ELSE lists[x]]
      /\ saving' = [x \in Sessions |-> IF x = s THEN new ELSE saving[x]]
  BY DEF ChoicesInv, ChoicesShape
<1>2. ChoicesShape'
  BY <1>1 DEF ChoicesInv, ChoicesShape
<1>3. CheckedFits'
  <2>1. ASSUME NEW x \in checked', x # s PROVE Fitted(x)'
    <3>1. /\ choice'[x] = choice[x] /\ models'[x] = models[x] /\ lists'[x] = lists[x]
          /\ Fitted(x)
      BY <1>1, <2>1 DEF ChoicesInv, ChoicesShape, CheckedFits
    <3> QED
      BY <3>1, OthersStayFitted
  <2> QED
    BY <2>1 DEF CheckedFits
<1> QED
  BY <1>1, <1>2, <1>3

(* A session that starts while the file is left to it has what the file    *)
(* holds, and the file holds what was chosen last.                         *)
LEMMA StartRemembers ==
  ASSUME ChoicesInv, NEW s \in Sessions, NEW t, NEW resumed, NEW known \in Known, NEW given,
         Start(s, t, resumed, known, given)
  PROVE  ChoicesInv' /\ (apart' => Remembers(s)')
<1> DEFINE configured == OrElse(file.lists, NoLists)
           model == IF file.model # << >> /\ Find(known, Default(file.model)) # {}
                    THEN Default(file.model) ELSE given.model
           effort == IF Default(file.effort) # "null"
                     THEN PreferredEffort(known, model, configured, Default(file.effort))
                     ELSE ResolvedEffort(known, given.model, given.effort)
           tier == OrElse(file.tier, given.tier)
           defaults == [model |-> Default(file.model), effort |-> Default(file.effort),
                        tier |-> Default(file.tier)]
           c == [model |-> model, effort |-> effort, tier |-> tier, defaults |-> defaults]
<1>1. /\ models' = [models EXCEPT ![s] = known]
      /\ lists' = [lists EXCEPT ![s] = configured]
      /\ choice' = [choice EXCEPT ![s] = c]
      /\ IF file.state = "absent" THEN Saves(s) ELSE saving' = [saving EXCEPT ![s] = << >>]
      /\ UNCHANGED file
  BY DEF Start, ChoicesStart
<1>2. /\ open' = open \cup {s} /\ chosen' = chosen
      /\ apart' => apart /\ open = {}
      /\ known \in SUBSET Catalogue
  BY DEF Start, Known
<1>3. IsChoice(c)
  BY DEF IsChoice
<1>4. PICK new : saving' = [saving EXCEPT ![s] = new]
  BY <1>1 DEF Saves
<1>5. /\ c.model = model /\ c.effort = effort /\ c.tier = tier
      /\ c.defaults.model = Default(file.model)
      /\ c.defaults.effort = Default(file.effort)
      /\ c.defaults.tier = Default(file.tier)
  OBVIOUS
<1> HIDE DEF c, configured, defaults, model
<1>6. /\ Default(file.effort) # "null"
             => effort = PreferredEffort(known, model, configured, Default(file.effort))
      /\ Default(file.effort) = "null" => effort = ResolvedEffort(known, given.model, given.effort)
  BY Zenon
<1> HIDE DEF effort
<1>7. models'[s] = known /\ lists'[s] = configured /\ choice'[s] = c
  BY <1>1 DEF ChoicesInv, ChoicesShape
<1>8. checked' \subseteq checked \cup {s} /\ (s \in checked' => Fitted(s)')
  <2>1. \/ checked' = checked \ {s}
        \/ /\ checked' = checked \cup {s}
           /\ Find(models'[s], choice'[s].model) # {}
           /\ \/ Default(file.effort) # "null"
              \/ given.effort = << >> /\ choice'[s].model = given.model
    BY DEF Start, ChecksEffort, KnowsModel
  <2>2. ASSUME s \in checked' PROVE Fitted(s)'
    <3>1. /\ Find(models'[s], choice'[s].model) # {}
          /\ \/ Default(file.effort) # "null"
             \/ given.effort = << >> /\ choice'[s].model = given.model
      BY <2>1, <2>2
    <3>2. CASE Default(file.effort) # "null"
      BY <1>5, <1>7, <1>6, <3>1, <3>2, NormalisedFits
    <3>3. CASE Default(file.effort) = "null"
      <4>1. choice'[s].effort = NormalEffort(models'[s], choice'[s].model, DefaultEffort)
        BY <1>5, <1>7, <1>6, <3>1, <3>3 DEF ResolvedEffort, OrElse
      <4> QED
        BY <3>1, <4>1, NormalFits DEF Fitted, Accepts
    <3> QED
      BY <3>2, <3>3
  <2> QED
    BY <2>1, <2>2
<1>9. open' \in SUBSET Sessions
  BY <1>2 DEF ChoicesInv, ChoicesShape
<1>10. /\ ChoicesShape' /\ CheckedFits'
      /\ choice'[s] = c /\ saving'[s] = new /\ lists'[s] = configured
      /\ \A x \in Sessions \ {s} : choice'[x] = choice[x] /\ saving'[x] = saving[x]
  BY <1>1, <1>2, <1>3, <1>4, <1>9, <1>8, SessionReset
<1>11. ASSUME apart' PROVE ChosenKept' /\ Remembers(s)'
  <2>1. \A x \in Sessions : saving[x] = << >>
    BY <1>2, <1>11 DEF ChoicesInv, ChosenKept
  <2>2. \A k \in ChoiceKinds : chosen[k] # << >> =>
          chosen[k] = <<chosen[k][1]>> /\ file[k] = <<chosen[k][1]>>
    BY <2>1, <1>2, <1>11 DEF ChoicesInv, ChosenKept, ChoicesShape, Keeps
  <2>3. /\ chosen.model # << >> => file.model = <<chosen.model[1]>>
        /\ chosen.effort # << >> => file.effort = <<chosen.effort[1]>> /\ chosen.effort[1] # "null"
        /\ chosen.tier # << >> => file.tier = <<chosen.tier[1]>>
    BY <2>2, EffortsAssumption DEF ChoiceKinds, ChoicesInv, ChoicesShape
  <2>4. /\ chosen.model # << >> => Default(file.model) = chosen.model[1]
        /\ chosen.effort # << >> => Default(file.effort) = chosen.effort[1]
        /\ chosen.tier # << >> => Default(file.tier) = chosen.tier[1] /\ tier = chosen.tier[1]
    BY <2>3 DEF Default, OrElse
  <2>5. Remembers(s)'
    <3>1. chosen.tier # << >> => choice'[s].tier = chosen.tier[1]
      BY <1>5, <1>10, <2>4
    <3>2. chosen.effort # << >> /\ chosen.effort[1] \in configured.efforts
            => choice'[s].effort = chosen.effort[1]
      BY <1>5, <1>10, <1>6, <2>3, <2>4 DEF PreferredEffort
    <3>3. chosen.model # << >> /\ Find(known, chosen.model[1]) # {}
            => choice'[s].model = chosen.model[1]
      <4>1. \A x : <<x>> # << >>
        OBVIOUS
      <4>2. chosen.model # << >> => file.model # << >>
        BY <2>3, <4>1
      <4> QED
        BY <4>2, <1>5, <1>10, <2>4 DEF model
    <3> QED
      BY <3>1, <3>2, <3>3, <1>2, <1>10, <1>7 DEF Remembers
  <2>6. \A k \in ChoiceKinds : chosen[k] # << >> => c.defaults[k] = chosen[k][1]
    BY <1>5, <2>4 DEF ChoiceKinds
  <2>7. new = << >> \/ \A k \in ChoiceKinds : chosen[k] # << >> => new[1][k] = chosen[k]
    <3>1. CASE file.state = "absent"
      <4>1. new # << >> => /\ new[1].model = <<c.defaults.model>>
                           /\ new[1].effort = <<c.defaults.effort>>
                           /\ new[1].tier = <<c.defaults.tier>>
        BY <1>1, <1>10, <3>1, SavesDefaults
      <4> QED
        BY <4>1, <2>2, <2>6 DEF ChoiceKinds
    <3>2. CASE file.state # "absent"
      BY <1>1, <1>10, <3>2 DEF ChoicesInv, ChoicesShape
    <3> QED
      BY <3>1, <3>2
  <2>8. ChosenKept'
    <3>1. open' = {s}
      BY <1>2, <1>11
    <3>2. Keeps(file)'
      BY <1>1, <1>2, <2>2 DEF Keeps
    <3>3. saving'[s] # << >> => Keeps(saving[s][1])'
      BY <1>2, <1>10, <2>7 DEF Keeps
    <3>4. \A k \in ChoiceKinds : chosen'[k] # << >> => choice'[s].defaults[k] = chosen'[k][1]
      BY <1>2, <1>10, <2>6
    <3> QED
      BY <3>1, <3>2, <3>3, <3>4, <1>10, <2>1 DEF ChosenKept
  <2> QED
    BY <2>5, <2>8
<1> QED
  BY <1>10, <1>11 DEF ChoicesInv, ChosenKept

(* A session that ends with its choices written leaves them in the file.   *)
LEMMA EndKeepsChoices == ASSUME ChoicesInv, NEW s \in Sessions, End(s) PROVE ChoicesInv'
<1>1. /\ choice' = [choice EXCEPT ![s] = NoChoice] /\ models' = [models EXCEPT ![s] = {}]
      /\ lists' = [lists EXCEPT ![s] = NoLists] /\ saving' = [saving EXCEPT ![s] = << >>]
      /\ UNCHANGED <<file, chosen>> /\ checked' = checked \ {s} /\ open' = open \ {s} /\ s \in open
      /\ apart' => apart /\ saving[s] = << >>
  BY DEF End, ChoicesEnd
<1>2. IsChoice(NoChoice)
  BY DEF IsChoice, NoChoice, NoDefaults
<1>3. open' \in SUBSET Sessions /\ {} \in SUBSET Catalogue
  BY <1>1 DEF ChoicesInv, ChoicesShape
<1>4. /\ ChoicesShape' /\ CheckedFits' /\ saving'[s] = << >>
      /\ \A x \in Sessions \ {s} : choice'[x] = choice[x] /\ saving'[x] = saving[x]
  BY <1>1, <1>2, <1>3, SessionReset
<1>5. ASSUME apart' PROVE ChosenKept'
  <2>1. open' = {} /\ \A x \in Sessions : saving[x] = << >>
    BY <1>1, <1>5 DEF ChoicesInv, ChosenKept
  <2>2. Keeps(file)'
    BY <2>1, <1>1, <1>5 DEF ChoicesInv, ChosenKept, Keeps
  <2> QED
    BY <2>1, <2>2, <1>4 DEF ChosenKept
<1> QED
  BY <1>4, <1>5 DEF ChoicesInv, ChosenKept

(* A switch of threads takes nothing back.                                  *)
LEMMA SwitchKeepsChoices ==
  ASSUME ChoicesInv, NEW s \in Sessions, NEW t, NEW given, Switch(s, t, given)
  PROVE  ChoicesInv'
<1> DEFINE effort == ResolvedEffort(models[s], given.model, given.effort)
<1> DEFINE c == [choice[s] EXCEPT !.model = given.model, !.tier = given.tier, !.effort = effort]
<1>1. IsChoice(choice[s])
  BY DEF ChoicesInv, ChoicesShape
<1>2. IsChoice(c) /\ c.defaults = choice[s].defaults
  BY <1>1 DEF IsChoice
<1>3. choice' = [choice EXCEPT ![s] = c] /\ UNCHANGED <<models, lists, saving, file>>
  BY <1>1 DEF Switch, ChoicesSwitch, ChoicesInv, ChoicesShape, IsChoice
<1>4. UNCHANGED <<open, apart, chosen>>
  BY DEF Switch
<1>5. c.model = given.model /\ c.effort = effort /\ choice'[s] = c
  BY <1>1, <1>3 DEF IsChoice, ChoicesInv, ChoicesShape
<1> HIDE DEF c
<1>6. checked' \subseteq checked \cup {s} /\ (s \in checked' => Fitted(s)')
  <2>1. ChecksEffort(s, given.effort = << >>)
    BY DEF Switch
  <2>2. ASSUME s \in checked' PROVE Fitted(s)'
    <3>1. Find(models'[s], choice'[s].model) # {} /\ given.effort = << >>
      BY <2>1, <2>2 DEF ChecksEffort, KnowsModel
    <3>2. choice'[s].effort = NormalEffort(models'[s], choice'[s].model, DefaultEffort)
      BY <1>3, <1>5, <3>1 DEF ResolvedEffort, OrElse
    <3> QED
      BY <3>1, <3>2, NormalFits DEF Fitted, Accepts
  <2> QED
    BY <2>1, <2>2 DEF ChecksEffort
<1>7. PICK known, configured, new :
        /\ known \in SUBSET Catalogue
        /\ models' = [models EXCEPT ![s] = known] /\ lists' = [lists EXCEPT ![s] = configured]
        /\ saving' = [saving EXCEPT ![s] = new] /\ open' \in SUBSET Sessions
  <2>1. /\ models' = [models EXCEPT ![s] = models[s]] /\ models[s] \in SUBSET Catalogue
        /\ lists' = [lists EXCEPT ![s] = lists[s]] /\ saving' = [saving EXCEPT ![s] = saving[s]]
        /\ open' \in SUBSET Sessions
    BY <1>3, <1>4 DEF ChoicesInv, ChoicesShape
  <2> QED
    BY <2>1
<1>8. /\ ChoicesShape' /\ CheckedFits' /\ choice'[s] = c
      /\ \A x \in Sessions \ {s} : choice'[x] = choice[x]
  <2>1. choice' = [choice EXCEPT ![s] = c] /\ UNCHANGED chosen
    BY <1>3, <1>4
  <2> QED
    BY <2>1, <1>2, <1>7, <1>6, SessionReset
<1>9. \A x \in Sessions : choice'[x].defaults = choice[x].defaults
  BY <1>2, <1>8
<1>10. ChosenKept'
  <2>1. /\ file' = file /\ saving' = saving /\ open' = open /\ chosen' = chosen /\ apart' = apart
        /\ \A x \in open : choice'[x].defaults = choice[x].defaults
    BY <1>3, <1>4, <1>9 DEF ChoicesInv, ChoicesShape
  <2> QED
    BY <2>1 DEF ChoicesInv, ChosenKept, Keeps
<1> QED
  BY <1>8, <1>10 DEF ChoicesInv

(* Loading the models takes nothing back.                                   *)
LEMMA LoadKeepsChoices == ASSUME ChoicesInv, NEW s \in Sessions, LoadModels(s) PROVE ChoicesInv'
<1>1. /\ models[s] = {} /\ models' = [models EXCEPT ![s] = Catalogue]
      /\ UNCHANGED <<choice, lists, saving, file, open, apart, chosen, checked>>
  BY DEF LoadModels, ModelsLoaded, historyVars
<1>2. models' \in [Sessions -> SUBSET Catalogue] /\ \A x \in Sessions \ {s} : models'[x] = models[x]
  BY <1>1 DEF ChoicesInv, ChoicesShape
<1>3. ChoicesShape'
  BY <1>1, <1>2 DEF ChoicesInv, ChoicesShape
<1>4. CheckedFits'
  <2>1. s \notin checked
    BY <1>1 DEF ChoicesInv, CheckedFits, Fitted, Find
  <2>2. ASSUME NEW x \in checked PROVE Fitted(x)'
    BY <1>1, <1>2, <2>1, OthersStayFitted DEF ChoicesInv, ChoicesShape, CheckedFits
  <2> QED
    BY <1>1, <2>2 DEF CheckedFits
<1>5. ChosenKept'
  BY <1>1 DEF ChoicesInv, ChosenKept, Keeps
<1> QED
  BY <1>3, <1>4, <1>5 DEF ChoicesInv

(* What is written is what the session that picked had saved.               *)
LEMMA WriteKeepsChoices ==
  ASSUME ChoicesInv, NEW s \in Sessions, NEW done \in BOOLEAN, WriteFile(s, done)
  PROVE  ChoicesInv'
<1>1. /\ saving[s] # << >> /\ file' = (IF done THEN saving[s][1] ELSE file)
      /\ saving' = [saving EXCEPT ![s] = << >>]
      /\ apart' = (apart /\ done)
      /\ UNCHANGED <<models, choice, lists, open, checked, chosen>>
  BY DEF WriteFile, FileWritten
<1>2. saving' = [x \in Sessions |-> saving'[x]]
  BY <1>1 DEF ChoicesInv, ChoicesShape
<1>3. ChoicesShape'
  BY <1>1, <1>2 DEF ChoicesInv, ChoicesShape
<1>4. CheckedFits'
  BY <1>1 DEF ChoicesInv, CheckedFits, Fitted, Accepts
<1>5. ASSUME apart' PROVE ChosenKept'
  <2>1. apart /\ done /\ file' = saving[s][1] /\ Keeps(saving[s][1])
    BY <1>1, <1>5 DEF ChoicesInv, ChosenKept
  <2>2. \A x \in Sessions : saving'[x] # << >> => saving'[x] = saving[x]
    BY <1>1 DEF ChoicesInv, ChoicesShape
  <2>3. Keeps(file)'
    BY <1>1, <2>1 DEF Keeps
  <2>4. \A x \in Sessions : saving'[x] # << >> => x \in open' /\ Keeps(saving[x][1])'
    BY <1>1, <2>1, <2>2 DEF ChoicesInv, ChosenKept, Keeps
  <2> QED
    BY <1>1, <2>1, <2>3, <2>4 DEF ChoicesInv, ChosenKept
<1> QED
  BY <1>3, <1>4, <1>5 DEF ChoicesInv, ChosenKept

(* An edit of the file is a choice itself.                                  *)
LEMMA EditKeepsChoices == ASSUME ChoicesInv, NEW contents, EditFile(contents) PROVE ChoicesInv'
<1>1. ~apart' /\ UNCHANGED <<models, choice, lists, saving, open, checked, chosen>>
  BY DEF EditFile, FileEdited
<1> QED
  BY <1>1 DEF ChoicesInv, ChoicesShape, CheckedFits, Fitted, ChosenKept, Accepts

LEMMA ChoicesInductive == ChoicesInv /\ [Next]_vars => ChoicesInv'
<1> SUFFICES ASSUME ChoicesInv, [Next]_vars PROVE ChoicesInv'
  OBVIOUS
<1>1. ASSUME NEW s \in Sessions, SessionSteps(s) PROVE ChoicesInv'
  <2>1. CASE \E t \in Threads, resumed \in BOOLEAN, known \in Known, given \in scene.given :
               Start(s, t, resumed, known, given)
    BY <2>1, StartRemembers
  <2>2. CASE \E t \in Threads, given \in scene.given : Switch(s, t, given)
    BY <2>2, SwitchKeepsChoices
  <2>3. CASE End(s)
    BY <2>3, EndKeepsChoices
  <2>4. CASE ApplyStartup(s) \/ ApplyAfterTurn(s)
    BY <2>4, ChoicesUntouched DEF ApplyStartup, ApplyAfterTurn, OnlyLimits, historyVars
  <2>5. CASE \/ \E snap \in Snapshots : UpdateLimits(s, snap)
             \/ \E why \in Purposes, snap \in Snapshots : ReadLimits(s, why, snap)
    BY <2>5, ChoicesUntouched DEF UpdateLimits, ReadLimits, OnlyLimits, historyVars
  <2>6. CASE Compact(s) \/ \E done \in BOOLEAN : WriteCache(s, done)
    BY <2>6, ChoicesUntouched DEF Compact, WriteCache, OnlyUsage, historyVars
  <2>7. CASE \E n \in Turns(thread[s][1]), size \in Sizes, readable \in BOOLEAN :
               \E tokens \in reports[thread[s][1]][n] : ReportTokens(s, n, tokens, size, readable)
    BY <2>7, ChoicesUntouched DEF ReportTokens, OnlyUsage, historyVars
  <2>8. CASE LoadModels(s) \/ \E done \in BOOLEAN : WriteFile(s, done)
    BY <2>8, LoadKeepsChoices, WriteKeepsChoices
  <2>9. CASE \/ \E model \in ModelNames : PickModel(s, model)
             \/ \E effort \in Efforts : PickEffort(s, effort)
             \/ \E tier \in Tiers : PickTier(s, tier)
    BY <2>9, ModelPicked, EffortPicked, TierPicked
  <2>10. CASE \E i \in DOMAIN maps[s].options : PickSummary(s, i)
    BY <2>10, ChoicesUntouched DEF PickSummary, historyVars
  <2> QED
    BY <1>1, <2>1, <2>2, <2>3, <2>4, <2>5, <2>6, <2>7, <2>8, <2>9, <2>10 DEF SessionSteps
<1>2. ASSUME NEW t \in Threads, ServerSteps(t) PROVE ChoicesInv'
  BY <1>2, ChoicesUntouched DEF ServerSteps, OnlyUsage, historyVars
<1>3. ASSUME NEW contents, EditFile(contents) PROVE ChoicesInv'
  BY <1>3, EditKeepsChoices
<1>4. ASSUME NEW config, EditMaps(config) PROVE ChoicesInv'
  BY <1>4, ChoicesUntouched DEF EditMaps, historyVars
<1>5. CASE UNCHANGED vars
  BY <1>5, ChoicesUntouched DEF vars, historyVars
<1> QED
  BY <1>1, <1>2, <1>3, <1>4, <1>5 DEF Next

(* Every effort the selector offers is one the session takes, but for the   *)
(* one it has, and that one too once it was fitted to a model the session   *)
(* knew and is not the model's default: whatever the catalogue, the lists   *)
(* of the file and the order in which models are loaded and picked and      *)
(* threads switched (settings.rs:93-135, config/model_selector.rs:171-253). *)
THEOREM OfferedEffortsWork == Spec => []OffersAreAccepted
<1>1. ASSUME ChoicesInv, NEW s \in open, NEW effort \in Options(s, "effort")
      PROVE  \/ Accepts(s, effort)
             \/ /\ effort = choice[s].effort
                /\ s \in checked => \E m \in Find(models[s], choice[s].model) : effort = m.default
  <2>1. effort \in EffortOptions(s)
    BY <1>1 DEF Options
  <2>2. models[s] \in SUBSET Catalogue
    BY <1>1 DEF ChoicesInv, ChoicesShape
  <2>3. CASE effort = choice[s].effort
    BY <1>1, <2>3 DEF ChoicesInv, CheckedFits, Fitted
  <2>4. ASSUME NEW m \in Find(models[s], choice[s].model),
               effort \in (IF lists[s].efforts = {} THEN m.efforts ELSE lists[s].efforts)
        PROVE  Accepts(s, effort)
    BY <2>2, <2>4, FoundOnce DEF Accepts
  <2> QED
    BY <2>1, <2>3, <2>4 DEF EffortOptions
<1>2. ChoicesInv => OffersAreAccepted
  BY <1>1 DEF OffersAreAccepted
<1> QED
  BY <1>2, ChoicesInitially, ChoicesInductive, PTL DEF Spec

(* A session that starts after sessions that never overlapped, whose writes *)
(* all succeeded, has the tier, effort and model that were chosen last      *)
(* (selector_preferences.rs:386-461).                                      *)
THEOREM ChoicesComeBack == Spec => ChoicesSurviveRestart
<1>1. ASSUME ChoicesInv, [Next]_vars, NEW s \in open', s \notin open, apart' PROVE Remembers(s)'
  <2>1. s \in Sessions
    BY <1>1, ChoicesInductive DEF ChoicesInv, ChoicesShape
  <2>2. PICK x \in Sessions : \E t \in Threads, resumed \in BOOLEAN, known \in Known, given \in scene.given :
          Start(x, t, resumed, known, given)
    <3>1. ASSUME NEW x \in Sessions, SessionSteps(x)
          PROVE  \/ \E t \in Threads, resumed \in BOOLEAN, known \in Known, given \in scene.given :
                      Start(x, t, resumed, known, given)
                 \/ open' \subseteq open
      BY <3>1 DEF SessionSteps, Switch, End, ApplyStartup, ApplyAfterTurn, Compact, LoadModels,
                  UpdateLimits, ReadLimits, ReportTokens, WriteCache, WriteFile, PickModel, PickEffort,
                  PickTier, Pick, PickSummary, OnlyLimits, OnlyUsage
    <3>2. ~(open' \subseteq open)
      BY <1>1
    <3>3. CASE Next
      BY <3>1, <3>2, <3>3 DEF Next, ServerSteps, OnlyUsage, EditFile, EditMaps
    <3> QED
      BY <1>1, <3>2, <3>3 DEF vars
  <2>3. x = s
    BY <1>1, <2>2 DEF Start
  <2> QED
    BY <1>1, <2>2, <2>3, StartRemembers
<1>2. ChoicesInv /\ [Next]_vars => [\A s \in open' \ open : apart' => Remembers(s)']_vars
  BY <1>1
<1> QED
  BY <1>2, ChoicesInitially, ChoicesInductive, PTL DEF Spec, ChoicesSurviveRestart

-----------------------------------------------------------------------------
(* Usage of the context.                                                   *)

\* The count of an entry was reported for its turn.
Reported(t, entry) ==
  /\ t \in Threads /\ entry.turn \in Turns(t)
  /\ Smaller(entry.used, entry.size) \in CountsOf(t, entry.turn, entry.size)

Honest(entries) == \A t \in DOMAIN entries : Reported(t, entries[t])

ServerShape ==
  /\ issued \in [Threads -> Nat]
  /\ turns \in [Threads -> Seq(Nat)]
  /\ \A t \in Threads, i \in Nat : i \in DOMAIN turns[t] => turns[t][i] \in Turns(t)
  /\ reports = [t \in Threads |-> [n \in Turns(t) |-> reports[t][n]]]

UsageShape ==
  /\ open \subseteq Sessions
  /\ thread = [s \in Sessions |-> thread[s]]
  /\ usage = [s \in Sessions |-> usage[s]]
  /\ caching = [s \in Sessions |-> caching[s]]
  /\ \A s \in open : \E t \in Threads : thread[s] = <<t>>

(* Whatever the cache holds, or is about to hold, was once reported.        *)
UsageInv ==
  /\ ServerShape /\ UsageShape
  /\ Honest(cache)
  /\ \A s \in Sessions : caching[s] # << >> => Honest(caching[s][1])

LEMMA UsageInitially == Init => UsageInv
<1> SUFFICES ASSUME Init PROVE UsageInv
  OBVIOUS
<1>1. UsageInit /\ open = {}
  BY DEF Init
<1>2. ServerShape /\ UsageShape
  BY <1>1 DEF UsageInit, UsageShape, ServerShape
<1> QED
  BY <1>1, <1>2 DEF UsageInit, UsageInv, Honest

(* What the steps do to the usage.                                         *)
UsageStep ==
  \/ \E s \in Sessions, t \in Threads, resumed \in BOOLEAN :
       UsageStarts(s, t, resumed) /\ open' = open \cup {s}
  \/ \E s \in Sessions : UsageEnds(s) /\ open' = open \ {s}
  \/ /\ UNCHANGED open
     /\ \/ \E s \in Sessions, t \in Threads : UsageSwitches(s, t)
        \/ \E s \in Sessions : UsageCompacted(s) \/ UsageForgotten(s)
        \/ \E s \in open, readable \in BOOLEAN : \E n \in Turns(thread[s][1]) :
             \E tokens, size : TokensReported(s, n, tokens, size, readable)
        \/ \E s \in Sessions, done \in BOOLEAN : CacheWritten(s, done)
        \/ \E t \in Threads : TurnRuns(t) \/ RolledBack(t) \/ \E tokens : TurnCounts(t, tokens)
        \/ UNCHANGED usageVars

(* These are all the steps there are.                                       *)
LEMMA UsageSteps == [Next]_vars => UsageStep
<1> SUFFICES ASSUME [Next]_vars PROVE UsageStep
  OBVIOUS
<1>1. ASSUME NEW s \in Sessions, SessionSteps(s) PROVE UsageStep
  <2>1. CASE \E t \in Threads, resumed \in BOOLEAN, known \in Known, given \in scene.given :
               Start(s, t, resumed, known, given)
    BY <2>1 DEF Start, UsageStep
  <2>2. CASE \E t \in Threads, given \in scene.given : Switch(s, t, given)
    BY <2>2 DEF Switch, UsageStep
  <2>3. CASE End(s)
    BY <2>3 DEF End, UsageStep
  <2>4. CASE ApplyStartup(s) \/ ApplyAfterTurn(s)
    BY <2>4 DEF ApplyStartup, ApplyAfterTurn, OnlyLimits, UsageStep
  <2>5. CASE \/ \E snap \in Snapshots : UpdateLimits(s, snap)
             \/ \E why \in Purposes, snap \in Snapshots : ReadLimits(s, why, snap)
    BY <2>5 DEF UpdateLimits, ReadLimits, OnlyLimits, UsageStep
  <2>6. CASE Compact(s) \/ \E done \in BOOLEAN : WriteCache(s, done)
    BY <2>6 DEF Compact, WriteCache, OnlyUsage, UsageStep
  <2>7. CASE /\ s \in open
             /\ \E n \in Turns(thread[s][1]), size \in Sizes, readable \in BOOLEAN :
                  \E tokens \in reports[thread[s][1]][n] : ReportTokens(s, n, tokens, size, readable)
    BY <2>7 DEF ReportTokens, OnlyUsage, UsageStep
  <2>8. CASE LoadModels(s) \/ \E done \in BOOLEAN : WriteFile(s, done)
    BY <2>8 DEF LoadModels, WriteFile, UsageStep
  <2>9. CASE \E model \in ModelNames : PickModel(s, model)
    BY <2>9 DEF PickModel, Pick, UsageStep
  <2>10. CASE \/ \E effort \in Efforts : PickEffort(s, effort)
              \/ \E tier \in Tiers : PickTier(s, tier)
    BY <2>10 DEF PickEffort, PickTier, Pick, UsageStep
  <2>11. CASE \E i \in DOMAIN maps[s].options : PickSummary(s, i)
    BY <2>11 DEF PickSummary, UsageStep
  <2> QED
    BY <1>1, <2>1, <2>2, <2>3, <2>4, <2>5, <2>6, <2>7, <2>8, <2>9, <2>10, <2>11 DEF SessionSteps
<1>2. ASSUME NEW t \in Threads, ServerSteps(t) PROVE UsageStep
  BY <1>2 DEF ServerSteps, OnlyUsage, UsageStep
<1>3. ASSUME NEW contents, EditFile(contents) PROVE UsageStep
  BY <1>3 DEF EditFile, UsageStep
<1>4. ASSUME NEW config, EditMaps(config) PROVE UsageStep
  BY <1>4 DEF EditMaps, UsageStep
<1>5. CASE UNCHANGED vars
  BY <1>5 DEF vars, UsageStep
<1> QED
  BY <1>1, <1>2, <1>3, <1>4, <1>5 DEF Next

(* The thread of a session changes, or what it shows, and the counts stay. *)
LEMMA UsageOfSession ==
  ASSUME UsageInv, NEW s \in Sessions,
         NEW now, usage' = [usage EXCEPT ![s] = now],
         thread' = thread \/ (\E t : thread' = [thread EXCEPT ![s] = t]),
         caching' = caching \/ caching' = [caching EXCEPT ![s] = << >>],
         UNCHANGED <<cache, serverVars>>,
         open' \subseteq open \cup {s},
         s \in open' => \E t \in Threads : thread'[s] = <<t>>
  PROVE  UsageInv'
<1>1. /\ usage' = [x \in Sessions |-> usage'[x]]
      /\ thread' = [x \in Sessions |-> thread'[x]]
      /\ \A x \in Sessions \ {s} : thread'[x] = thread[x]
      /\ caching' = [x \in Sessions |-> caching'[x]]
      /\ \A x \in Sessions : caching'[x] \in {<< >>, caching[x]}
  BY DEF UsageInv, UsageShape
<1>2. ASSUME NEW x \in open' PROVE \E t \in Threads : thread'[x] = <<t>>
  <2>1. x # s => /\ x \in Sessions /\ thread'[x] = thread[x]
                 /\ \E t \in Threads : thread[x] = <<t>>
    BY <1>1 DEF UsageInv, UsageShape
  <2> QED
    BY <2>1
<1>3. UsageShape'
  BY <1>1, <1>2 DEF UsageInv, UsageShape
<1>4. reports' = reports /\ cache' = cache /\ ServerShape'
  BY DEF UsageInv, ServerShape, serverVars, Turns
<1> QED
  BY <1>1, <1>3, <1>4 DEF UsageInv, Honest, Reported, CountsOf, Turns

(* What the server counts and what turns a thread has change.              *)
LEMMA ServerKeepsUsage ==
  ASSUME UsageInv, NEW t \in Threads,
         TurnRuns(t) \/ RolledBack(t) \/ (\E tokens : TurnCounts(t, tokens)), UNCHANGED open
  PROVE  UsageInv'
<1>1. /\ issued[t] \in Nat /\ turns[t] \in Seq(Nat) /\ Counts[t] \in Seq(SUBSET Nat)
      /\ \A i \in DOMAIN turns[t] : turns[t][i] \in Turns(t)
  <2>1. issued[t] \in Nat /\ turns[t] \in Seq(Nat) /\ Counts[t] \in Seq(SUBSET Nat)
    BY CountsAssumption DEF UsageInv, ServerShape
  <2>2. DOMAIN turns[t] \subseteq Nat
    BY <2>1
  <2> QED
    BY <2>1, <2>2 DEF UsageInv, ServerShape
<1>2. UNCHANGED <<thread, usage, cache, caching>>
  BY DEF TurnRuns, RolledBack, TurnCounts
<1>3. UsageShape'
  BY <1>2 DEF UsageInv, UsageShape
<1>4. CASE TurnRuns(t)
  <2> DEFINE more == Append(turns[t], issued[t] + 1)
  <2>1. issued[t] + 1 \in Turns(t) /\ issued[t] + 1 \in Nat
    BY <1>1, <1>4 DEF TurnRuns, Turns
  <2>2. /\ more \in Seq(Nat)
        /\ \A i \in DOMAIN more : more[i] \in Turns(t)
    BY <1>1, <2>1
  <2>3. /\ issued' = [issued EXCEPT ![t] = issued[t] + 1]
        /\ turns' = [turns EXCEPT ![t] = more] /\ reports' = reports
    BY <1>4 DEF TurnRuns
  <2> HIDE DEF more
  <2>4. ServerShape'
    BY <2>1, <2>2, <2>3 DEF UsageInv, ServerShape, Turns
  <2> QED
    BY <2>3, <2>4, <1>2, <1>3 DEF UsageInv, Honest, Reported, CountsOf, Turns
<1>5. CASE RolledBack(t)
  <2> DEFINE less == SubSeq(turns[t], 1, Len(turns[t]) - 1)
  <2>1. /\ less \in Seq(Nat)
        /\ \A i \in DOMAIN less : less[i] = turns[t][i] /\ i \in DOMAIN turns[t]
    BY SMTT(30), <1>1
  <2>2. turns' = [turns EXCEPT ![t] = less] /\ reports' = reports /\ issued' = issued
    BY <1>5 DEF RolledBack
  <2> HIDE DEF less
  <2>3. ServerShape'
    BY <1>1, <2>1, <2>2 DEF UsageInv, ServerShape, Turns
  <2> QED
    BY <2>2, <2>3, <1>2, <1>3 DEF UsageInv, Honest, Reported, CountsOf, Turns
<1>6. ASSUME NEW tokens, TurnCounts(t, tokens) PROVE UsageInv'
  <2>1. /\ reports' = [reports EXCEPT ![t][Last(t)] = @ \cup {tokens}]
        /\ turns' = turns /\ issued' = issued
    BY <1>6 DEF TurnCounts
  <2>2. /\ reports' = [x \in Threads |-> [n \in Turns(x) |-> reports'[x][n]]]
        /\ \A x \in Threads : \A n \in Turns(x) : reports[x][n] \subseteq reports'[x][n]
    BY <2>1 DEF UsageInv, ServerShape, Turns
  <2>3. ServerShape'
    BY <2>1, <2>2 DEF UsageInv, ServerShape, Turns
  <2>4. \A x, entry : Reported(x, entry) => Reported(x, entry)'
    BY <2>2 DEF Reported, CountsOf, Turns
  <2> QED
    BY <2>3, <2>4, <1>2, <1>3 DEF UsageInv, Honest
<1> QED
  BY <1>4, <1>5, <1>6

(* What a session shows after a report is what was reported.               *)
LEMMA ReportIsReported ==
  ASSUME UsageInv, NEW s \in open, NEW t \in Threads, thread[s] = <<t>>,
         NEW n \in Turns(t), NEW tokens, NEW size, NEW readable,
         TokensReported(s, n, tokens, size, readable)
  PROVE  /\ usage'[s].source = "live" /\ tokens \in reports[t][n]
         /\ Smaller(usage'[s].used, usage'[s].size) = Smaller(tokens, usage'[s].size)
         /\ \/ caching' = [caching EXCEPT ![s] = << >>]
            \/ /\ caching' = [caching EXCEPT ![s] =
                    <<Cached(t, [turn |-> n, used |-> usage'[s].used, size |-> usage'[s].size], readable)>>]
         /\ usage' = [usage EXCEPT ![s] = usage'[s]]
<1> DEFINE used == IF size > 0 THEN Smaller(tokens, size) ELSE tokens
           known == IF size > 0 THEN size ELSE usage[s].size
<1>1. thread[s][1] = t
  OBVIOUS
<1>2. usage' = [usage EXCEPT ![s] = [used |-> used, size |-> known, source |-> "live"]]
  BY DEF TokensReported
<1>3. /\ usage'[s] = [used |-> used, size |-> known, source |-> "live"]
      /\ usage' = [usage EXCEPT ![s] = usage'[s]]
  BY <1>2 DEF UsageInv, UsageShape
<1>4. Smaller(used, known) = Smaller(tokens, known)
  BY DEF Smaller
<1>5. tokens \in reports[t][n]
  BY <1>1 DEF TokensReported
<1>6. caching' = [caching EXCEPT ![s] =
        IF known = 0 THEN << >> ELSE <<Cached(t, [turn |-> n, used |-> used, size |-> known], readable)>>]
  BY <1>1 DEF TokensReported
<1> HIDE DEF used, known
<1>7. usage'[s].used = used /\ usage'[s].size = known /\ usage'[s].source = "live"
  BY <1>3
<1>8. known # 0 => caching' = [caching EXCEPT ![s] =
        <<Cached(t, [turn |-> n, used |-> usage'[s].used, size |-> usage'[s].size], readable)>>]
  BY <1>6, <1>7
<1>9. known = 0 => caching' = [caching EXCEPT ![s] = << >>]
  BY <1>6
<1> QED
  BY <1>3, <1>4, <1>5, <1>7, <1>8, <1>9

(* A report of the server is about a turn of the thread.                    *)
LEMMA ReportKeepsUsage ==
  ASSUME UsageInv, NEW s \in open, NEW n \in Turns(thread[s][1]), NEW tokens, NEW size,
         NEW readable \in BOOLEAN, TokensReported(s, n, tokens, size, readable), UNCHANGED open
  PROVE  UsageInv'
<1>1. PICK t \in Threads : thread[s] = <<t>>
  BY DEF UsageInv, UsageShape
<1>2. n \in Turns(t) /\ s \in Sessions
  BY <1>1 DEF UsageInv, UsageShape
<1> DEFINE entry == [turn |-> n, used |-> usage'[s].used, size |-> usage'[s].size]
<1>3. /\ usage' = [usage EXCEPT ![s] = usage'[s]]
      /\ \/ caching' = [caching EXCEPT ![s] = << >>]
         \/ caching' = [caching EXCEPT ![s] = <<Cached(t, entry, readable)>>]
      /\ Smaller(usage'[s].used, usage'[s].size) = Smaller(tokens, usage'[s].size)
      /\ tokens \in reports[t][n]
  BY <1>1, <1>2, ReportIsReported
<1>4. UNCHANGED <<thread, cache, serverVars>>
  BY DEF TokensReported
<1>5. Reported(t, entry)
  BY <1>2, <1>3 DEF Reported, CountsOf
<1> HIDE DEF entry
<1>6. Honest(Cached(t, entry, readable))
  BY <1>5 DEF UsageInv, Honest, Cached
<1>7. ServerShape' /\ reports' = reports /\ cache' = cache
  BY <1>4 DEF UsageInv, ServerShape, serverVars, Turns
<1>8. /\ usage' = [x \in Sessions |-> usage'[x]]
      /\ caching' = [x \in Sessions |-> caching'[x]]
      /\ \A x \in Sessions \ {s} : caching'[x] = caching[x]
      /\ caching'[s] = << >> \/ caching'[s] = <<Cached(t, entry, readable)>>
  BY <1>2, <1>3 DEF UsageInv, UsageShape
<1>9. UsageShape'
  BY <1>4, <1>8 DEF UsageInv, UsageShape
<1>10. \A x \in Sessions : caching'[x] # << >> => Honest(caching'[x][1])
  <2>1. caching'[s] # << >> => caching'[s][1] = Cached(t, entry, readable)
    BY <1>8
  <2> QED
    BY <2>1, <1>6, <1>8 DEF UsageInv
<1>11. \A entries : Honest(entries) => Honest(entries)'
  BY <1>7 DEF Honest, Reported, CountsOf, Turns
<1> QED
  BY <1>7, <1>9, <1>10, <1>11 DEF UsageInv

LEMMA UsageInductive == UsageInv /\ [Next]_vars => UsageInv'
<1> SUFFICES ASSUME UsageInv, UsageStep PROVE UsageInv'
  BY UsageSteps
<1>1. ASSUME NEW s \in Sessions, NEW t \in Threads, NEW resumed,
             UsageStarts(s, t, resumed) /\ open' = open \cup {s}
      PROVE  UsageInv'
  <2>1. PICK now : usage' = [usage EXCEPT ![s] = now]
    BY <1>1 DEF UsageStarts
  <2>2. thread' = [thread EXCEPT ![s] = <<t>>] /\ thread'[s] = <<t>>
    BY <1>1 DEF UsageStarts, UsageInv, UsageShape
  <2> QED
    BY <1>1, <2>1, <2>2, UsageOfSession DEF UsageStarts
<1>2. ASSUME NEW s \in Sessions, UsageEnds(s) /\ open' = open \ {s} PROVE UsageInv'
  BY <1>2, UsageOfSession DEF UsageEnds
<1>3. ASSUME NEW s \in Sessions, NEW t \in Threads, UsageSwitches(s, t), UNCHANGED open PROVE UsageInv'
  <2>1. thread' = [thread EXCEPT ![s] = <<t>>] /\ thread'[s] = <<t>>
    BY <1>3 DEF UsageSwitches, UsageInv, UsageShape
  <2> QED
    BY <1>3, <2>1, UsageOfSession DEF UsageSwitches
<1>4. ASSUME NEW s \in Sessions, UsageCompacted(s) \/ UsageForgotten(s), UNCHANGED open PROVE UsageInv'
  <2>1. PICK now : usage' = [usage EXCEPT ![s] = now]
    BY <1>4 DEF UsageCompacted, UsageForgotten
  <2>2. UNCHANGED <<thread, cache, caching, serverVars>>
    BY <1>4 DEF UsageCompacted, UsageForgotten
  <2>3. s \in open' => \E t \in Threads : thread'[s] = <<t>>
    BY <1>4, <2>2 DEF UsageInv, UsageShape
  <2> QED
    BY <1>4, <2>1, <2>2, <2>3, UsageOfSession
<1>5. ASSUME NEW s \in Sessions, NEW done \in BOOLEAN, CacheWritten(s, done), UNCHANGED open PROVE UsageInv'
  <2>1. /\ caching[s] # << >> /\ caching' = [caching EXCEPT ![s] = << >>]
        /\ cache' = (IF done THEN caching[s][1] ELSE cache)
        /\ UNCHANGED <<thread, usage, reports, turns, issued>>
    BY <1>5 DEF CacheWritten, serverVars
  <2>2. /\ caching' = [x \in Sessions |-> caching'[x]]
        /\ \A x \in Sessions : caching'[x] \in {<< >>, caching[x]}
    BY <2>1 DEF UsageInv, UsageShape
  <2>3. ServerShape'
    BY <2>1 DEF UsageInv, ServerShape, Turns
  <2>6. UsageShape'
    BY <1>5, <2>1, <2>2 DEF UsageInv, UsageShape
  <2>4. Honest(cache')
    BY <2>1 DEF UsageInv
  <2>5. \A entries : Honest(entries) => Honest(entries)'
    BY <2>1 DEF Honest, Reported, CountsOf, Turns
  <2> QED
    BY <2>2, <2>3, <2>4, <2>5, <2>6 DEF UsageInv
<1>6. CASE UNCHANGED <<open, usageVars>>
  <2>1. UsageShape'
    BY <1>6 DEF UsageInv, UsageShape, usageVars
  <2>2. ServerShape'
    BY <1>6 DEF UsageInv, ServerShape, Turns, usageVars, serverVars
  <2>3. reports' = reports /\ cache' = cache /\ caching' = caching
    BY <1>6 DEF usageVars, serverVars
  <2>4. \A entries : Honest(entries) => Honest(entries)'
    BY <2>3 DEF Honest, Reported, CountsOf, Turns
  <2> QED
    BY <2>1, <2>2, <2>3, <2>4 DEF UsageInv
<1> QED
  BY <1>1, <1>2, <1>3, <1>4, <1>5, <1>6, ReportKeepsUsage, ServerKeepsUsage DEF UsageStep

(* A change of what a session shows of its context is a live report for a   *)
(* turn of its thread, or, when it begins, what was reported for the        *)
(* thread's last turn: the cache is read, merged and replaced without a     *)
(* lock, so sessions lose each other's entries, but none is ever shown for  *)
(* another turn (usage_cache.rs:27-36, events/usage.rs:20-22).              *)
THEOREM CachedUsageIsNeverStale == Spec => UsageNeverStale
<1> DEFINE Fresh(s) ==
      IF usage'[s].source = "live" THEN ShowsCountOf(s, Turns(thread[s][1]))'
      ELSE /\ turns[thread'[s][1]] # << >>
           /\ ShowsCountOf(s, {Last(thread[s][1])})'
<1>1. ASSUME UsageInv, [Next]_vars, NEW s \in Sessions,
             ShownUsage(s)' # ShownUsage(s), ShownUsage(s)' # << >>
      PROVE  Fresh(s)
  <2>1. UsageStep
    BY <1>1, UsageSteps
  <2>2. usage'[s] # usage[s] /\ usage'[s].source # "none"
    BY <1>1 DEF ShownUsage
  <2>3. ShownUsage(s)' = <<Smaller(usage'[s].used, usage'[s].size)>>
    BY <1>1 DEF ShownUsage
  <2>4. /\ usage = [x \in Sessions |-> usage[x]] /\ thread = [x \in Sessions |-> thread[x]]
        /\ s \in open => s \in Sessions
    BY <1>1 DEF UsageInv, UsageShape
  <2>5. ASSUME NEW x \in Sessions, NEW t \in Threads, NEW resumed, UsageStarts(x, t, resumed)
        PROVE  Fresh(s)
    <3>1. x = s
      BY <2>2, <2>4, <2>5 DEF UsageStarts
    <3>2. /\ usage'[s] = Restored(t) /\ thread'[s] = <<t>>
          /\ UNCHANGED <<cache, reports, turns>>
      BY <3>1, <2>2, <2>4, <2>5 DEF UsageStarts, serverVars, Unknown
    <3>3. /\ turns[t] # << >> /\ t \in DOMAIN cache /\ cache[t].turn = Last(t)
          /\ usage'[s] = [used |-> cache[t].used, size |-> cache[t].size, source |-> "cached"]
      BY <3>2, <2>2 DEF Restored, Unknown
    <3>4. Smaller(cache[t].used, cache[t].size) \in CountsOf(t, Last(t), cache[t].size)
      BY <3>3, <1>1 DEF UsageInv, Honest, Reported
    <3>5. thread'[s][1] = t /\ ShownUsage(s)'[1] = Smaller(cache[t].used, cache[t].size)
      BY <3>2, <3>3, <2>3
    <3>6. Last(t)' = Last(t) /\ CountsOf(t, Last(t), cache[t].size)' = CountsOf(t, Last(t), cache[t].size)
      BY <3>2 DEF Last, CountsOf
    <3> QED
      BY <3>2, <3>3, <3>4, <3>5, <3>6 DEF ShowsCountOf, CountsOf
  <2>6. ASSUME NEW x \in Sessions, NEW now, usage' = [usage EXCEPT ![x] = now], now.source = "none"
        PROVE  FALSE
    BY <2>2, <2>4, <2>6
  <2>7. ASSUME NEW x \in Sessions, NEW t \in Threads,
               UsageEnds(x) \/ UsageSwitches(x, t) \/ UsageCompacted(x) \/ UsageForgotten(x)
        PROVE  FALSE
    <3>1. \E now : usage' = [usage EXCEPT ![x] = now] /\ now.source = "none"
      BY <2>7 DEF UsageEnds, UsageSwitches, UsageCompacted, UsageForgotten, Unknown
    <3> QED
      BY <3>1, <2>6
  <2>8. ASSUME NEW x \in open, NEW readable \in BOOLEAN, NEW size, NEW n \in Turns(thread[x][1]),
               NEW tokens, TokensReported(x, n, tokens, size, readable)
        PROVE  Fresh(s)
    <3>1. PICK t \in Threads : thread[x] = <<t>>
      BY <1>1 DEF UsageInv, UsageShape
    <3>8. UsageInv /\ x \in open /\ n \in Turns(t) /\ TokensReported(x, n, tokens, size, readable)
      BY <1>1, <2>8, <3>1
    <3>2. /\ usage'[x].source = "live" /\ tokens \in reports[t][n] /\ n \in Turns(t)
          /\ Smaller(usage'[x].used, usage'[x].size) = Smaller(tokens, usage'[x].size)
          /\ usage' = [usage EXCEPT ![x] = usage'[x]]
      BY <3>1, <3>8, ReportIsReported
    <3>3. x = s
      BY <2>2, <2>4, <3>2
    <3>4. thread' = thread /\ reports' = reports
      BY <2>8 DEF TokensReported, serverVars
    <3>5. thread'[s] = <<t>> /\ thread'[s][1] = t
      BY <3>1, <3>3, <3>4
    <3>6. ShownUsage(s)'[1] = Smaller(tokens, usage'[s].size)
      BY <2>3, <3>2, <3>3
    <3>7. ShowsCountOf(s, Turns(thread[s][1]))'
      BY <3>2, <3>4, <3>5, <3>6 DEF ShowsCountOf, CountsOf, Turns
    <3> QED
      BY <3>2, <3>3, <3>7
  <2>9. UNCHANGED usage => FALSE
    BY <2>2
  <2>10. ASSUME NEW t \in Threads, TurnRuns(t) \/ RolledBack(t) \/ \E tokens : TurnCounts(t, tokens)
         PROVE  FALSE
    BY <2>9, <2>10 DEF TurnRuns, RolledBack, TurnCounts
  <2>11. ASSUME NEW x \in Sessions, NEW done \in BOOLEAN, CacheWritten(x, done) PROVE FALSE
    BY <2>9, <2>11 DEF CacheWritten
  <2>12. UNCHANGED usageVars => FALSE
    BY <2>9 DEF usageVars
  <2>13. \A x \in Sessions : UsageEnds(x) \/ UsageCompacted(x) \/ UsageForgotten(x) => FALSE
    BY <2>6 DEF UsageEnds, UsageCompacted, UsageForgotten, Unknown
  <2> HIDE DEF Fresh
  <2> QED
    BY <2>1, <2>5, <2>7, <2>8, <2>10, <2>11, <2>12, <2>13 DEF UsageStep
<1>2. UsageInv /\ [Next]_vars =>
        [\A s \in Sessions : ShownUsage(s)' # ShownUsage(s) /\ ShownUsage(s)' # << >> => Fresh(s)]_usageVars
  BY <1>1
<1> QED
  BY <1>2, UsageInitially, UsageInductive, PTL DEF Spec, UsageNeverStale
=============================================================================
