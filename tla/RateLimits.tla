----------------------------- MODULE RateLimits -----------------------------
(***************************************************************************)
(* The limits of the account as a session follows them                     *)
(* (thread/session/config/limits.rs, features/notification/events).        *)
(*                                                                         *)
(* A live update may warn the user of the highest threshold a window has   *)
(* crossed; a snapshot read at start-up or at a switch of threads only     *)
(* moves the index of the next threshold.  What is read is applied later,  *)
(* under another acquisition of the session's lock.                        *)
(***************************************************************************)
EXTENDS OpenSessions, Integers

CONSTANT
  Snapshots   \* answers and updates of the server: percent used by window

Windows == {"primary", "secondary"}

ASSUME SnapshotsAssumption ==
  \A snap \in Snapshots : DOMAIN snap \subseteq Windows /\ \A w \in DOMAIN snap : snap[w] \in Int

VARIABLES
  index,    \* rate_limit_warning_state: how many thresholds lie behind
  reading,  \* snapshots that were read and not applied yet, by purpose
  seen,     \* history: the percentage of a window the session saw last
  notice    \* what the last step warned of: by window, what was seen before and now

limitVars == <<index, reading, seen, notice>>

Thresholds == <<75, 90, 95, 100>>
Clamp(percent) == IF percent < 0 THEN 0 ELSE IF percent > 100 THEN 100 ELSE percent

\* crossed_threshold_count
Crossed(percent) ==
  CHOOSE n \in 0 .. 4 : \A i \in 1 .. 4 : Clamp(percent) >= Thresholds[i] <=> i <= n

NoLimits == [w \in {} |-> 0]
NoNotice == [w \in {} |-> [last |-> << >>, now |-> 0]]

Sees(s, snap) ==
  seen' = [seen EXCEPT ![s] = [w \in DOMAIN snap \cup DOMAIN @ |->
                                 IF w \in DOMAIN snap THEN snap[w] ELSE @[w]]]

LimitsInit ==
  /\ index = [s \in Sessions |-> [w \in Windows |-> 0]]
  /\ reading = [s \in Sessions |-> [why \in {} |-> NoLimits]]
  /\ seen = [s \in Sessions |-> NoLimits]
  /\ notice = NoNotice

\* A session begins or ends.
LimitsForgotten(s) ==
  /\ index' = [index EXCEPT ![s] = [w \in Windows |-> 0]]
  /\ reading' = [reading EXCEPT ![s] = [why \in {} |-> NoLimits]]
  /\ seen' = [seen EXCEPT ![s] = NoLimits]
  /\ notice' = NoNotice

-----------------------------------------------------------------------------
\* reset_window_warning_index_after_reset
Behind(s, w, percent) == IF Crossed(percent) = 0 THEN 0 ELSE index[s][w]

\* The thresholds behind a window once take_window_warning has walked up.
IndexAfter(s, w, percent) ==
  IF Crossed(percent) > Behind(s, w, percent) THEN Crossed(percent) ELSE Behind(s, w, percent)

Warned(s, snap) == {w \in DOMAIN snap : Crossed(snap[w]) > Behind(s, w, snap[w])}

(* format_account_rate_limit_warning_notice: when a window is exhausted,    *)
(* the warnings of the other one are left out.                             *)
Named(s, snap) ==
  LET exhausted == {w \in Warned(s, snap) : Crossed(snap[w]) = 4}
  IN IF exhausted # {} THEN exhausted ELSE Warned(s, snap)

(* emit_account_rate_limits_updated, for a notification of the server and  *)
(* for what refresh_rate_limits_after_turn has read.                       *)
LimitsUpdated(s, snap) ==
  /\ notice' = [w \in Named(s, snap) |->
                  [last |-> IF w \in DOMAIN seen[s] THEN <<seen[s][w]>> ELSE << >>, now |-> snap[w]]]
  /\ index' = [index EXCEPT ![s] = [w \in Windows |->
                 IF w \in DOMAIN snap THEN IndexAfter(s, w, snap[w]) ELSE @[w]]]
  /\ Sees(s, snap)

Mut_OnlyWarnings(s, snap) == UNCHANGED index /\ Sees(s, snap) /\ notice' = NoNotice

\* observe_rate_limit_snapshot
LimitsObserved(s, snap) ==
  /\ index' = [index EXCEPT ![s] = [w \in Windows |->
                 IF w \in DOMAIN snap THEN Crossed(snap[w]) ELSE @[w]]]
  /\ Sees(s, snap)
  /\ notice' = NoNotice

-----------------------------------------------------------------------------
(* account/rateLimits/read, on its own and long before its answer is used. *)
Purposes == {"startup", "turn", "switch"}

ReadsLimits(s, why, snap) ==
  /\ why \notin DOMAIN reading[s]
  /\ reading' = [reading EXCEPT ![s] = [p \in DOMAIN @ \cup {why} |->
                   IF p = why THEN snap ELSE @[p]]]
  /\ notice' = NoNotice /\ UNCHANGED <<index, seen>>

Reads(s, why) ==
  reading' = [reading EXCEPT ![s] = [p \in DOMAIN @ \ {why} |-> @[p]]]

\* refresh_startup_metadata and apply_thread_switch: only observed
AppliesObserved(s, why) ==
  /\ why \in DOMAIN reading[s] \cap {"startup", "switch"}
  /\ Reads(s, why) /\ LimitsObserved(s, reading[s][why])

\* refresh_rate_limits_after_turn
AppliesAfterTurn(s) ==
  /\ "turn" \in DOMAIN reading[s]
  /\ Reads(s, "turn") /\ LimitsUpdated(s, reading[s]["turn"])

-----------------------------------------------------------------------------
(* A warning is news: when the session saw a window that the notice names   *)
(* the last time, whether in a live update, after a turn, at a switch or    *)
(* at start-up, it had crossed fewer thresholds than now                   *)
(* (limits.rs:109-157, docs/thread-feature-map.md:274).                    *)
WarningsAreNews ==
  \A w \in DOMAIN notice :
    notice[w].last # << >> => Crossed(notice[w].last[1]) < Crossed(notice[w].now)
=============================================================================
