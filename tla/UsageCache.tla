----------------------------- MODULE UsageCache -----------------------------
(***************************************************************************)
(* How full the context of a thread is: what the server reports, what a    *)
(* session shows, and the cache on disk from which a resumed thread is     *)
(* shown at once (thread/session/usage_cache.rs, events/usage.rs).         *)
(*                                                                         *)
(* The file is shared by every session of every adapter process.  It is    *)
(* read and replaced as a whole, and nothing locks it in between.          *)
(***************************************************************************)
EXTENDS OpenSessions, Integers, Sequences

CONSTANTS
  Threads,
  Counts,   \* the token counts a turn may have, for each turn a thread ever has
  Sizes     \* context window sizes of the reports, 0 when there is none

ASSUME CountsAssumption == Counts \in [Threads -> Seq(SUBSET Nat)]

VARIABLES
  thread,    \* thread_id of an open session
  usage,     \* last_used_tokens, context_window_size and context_usage_source
  cache,     \* context-usage-cache.json: an entry by thread
  caching,   \* the contents a session is about to write there, if any
  turns,     \* the turns of every thread, as the server has them
  issued,    \* how many turns a thread ever had: identifiers do not come back
  reports    \* the counts the server reported, by thread and turn

serverVars == <<turns, issued, reports>>
usageVars == <<thread, usage, cache, caching, serverVars>>

Turns(t) == DOMAIN Counts[t]
Last(t) == turns[t][Len(turns[t])]
Smaller(a, b) == IF a < b THEN a ELSE b

\* Without a source there is no count, and a size of 0 is not known.
Unknown == [used |-> 0, size |-> 0, source |-> "none"]

UsageInit ==
  /\ thread = [s \in Sessions |-> << >>]
  /\ usage = [s \in Sessions |-> Unknown]
  /\ cache = [t \in {} |-> << >>]
  /\ caching = [s \in Sessions |-> << >>]
  /\ turns = [t \in Threads |-> << >>]
  /\ issued = [t \in Threads |-> 0]
  /\ reports = [t \in Threads |-> [n \in Turns(t) |-> {}]]

-----------------------------------------------------------------------------
(* The server.                                                             *)
TurnRuns(t) ==
  /\ issued[t] < Len(Counts[t])
  /\ issued' = [issued EXCEPT ![t] = @ + 1]
  /\ turns' = [turns EXCEPT ![t] = Append(@, issued[t] + 1)]
  /\ UNCHANGED <<thread, usage, cache, caching, reports>>

TurnCounts(t, tokens) ==
  /\ turns[t] # << >>
  /\ reports' = [reports EXCEPT ![t][Last(t)] = @ \cup {tokens}]
  /\ UNCHANGED <<thread, usage, cache, caching, turns, issued>>

RolledBack(t) ==
  /\ turns[t] # << >>
  /\ turns' = [turns EXCEPT ![t] = SubSeq(@, 1, Len(@) - 1)]
  /\ UNCHANGED <<thread, usage, cache, caching, issued, reports>>

-----------------------------------------------------------------------------
(* A session.                                                              *)

Mut_AnyTurn(t) ==
  IF turns[t] # << >> /\ t \in DOMAIN cache
  THEN [used |-> cache[t].used, size |-> cache[t].size, source |-> "cached"]
  ELSE Unknown

(* restore_cached_context_usage: the entry counts only if it is of the     *)
(* thread's last turn.                                                     *)
Restored(t) ==
  IF turns[t] # << >> /\ t \in DOMAIN cache /\ cache[t].turn = Last(t)
  THEN [used |-> cache[t].used, size |-> cache[t].size, source |-> "cached"]
  ELSE Unknown

UsageStarts(s, t, resumed) ==
  /\ thread' = [thread EXCEPT ![s] = <<t>>]
  /\ usage' = [usage EXCEPT ![s] = IF resumed THEN Restored(t) ELSE Unknown]
  /\ caching' = [caching EXCEPT ![s] = << >>]
  /\ UNCHANGED <<cache, serverVars>>

\* The session ends; what it was about to write may be lost with it.
UsageEnds(s) ==
  /\ thread' = [thread EXCEPT ![s] = << >>]
  /\ usage' = [usage EXCEPT ![s] = Unknown]
  /\ caching' = [caching EXCEPT ![s] = << >>]
  /\ UNCHANGED <<cache, serverVars>>

\* persist_context_usage: an unreadable cache counts as an empty one.
Cached(t, entry, readable) ==
  LET old == IF readable THEN cache ELSE [x \in {} |-> entry]
  IN [x \in DOMAIN old \cup {t} |-> IF x = t THEN entry ELSE old[x]]

(* emit_thread_token_usage_updated, up to the read of the cache.  The      *)
(* report may be of an old turn; one of another thread changes nothing.    *)
(* Only a file that is there can be unreadable.                            *)
TokensReported(s, n, tokens, size, readable) ==
  LET t     == thread[s][1]
      used  == IF size > 0 THEN Smaller(tokens, size) ELSE tokens
      known == IF size > 0 THEN size ELSE usage[s].size
  IN /\ tokens \in reports[t][n]
     /\ readable \/ DOMAIN cache # {}
     /\ usage' = [usage EXCEPT ![s] = [used |-> used, size |-> known, source |-> "live"]]
     /\ caching' = [caching EXCEPT ![s] =
          IF known = 0 THEN << >>
          ELSE <<Cached(t, [turn |-> n, used |-> used, size |-> known], readable)>>]
     /\ UNCHANGED <<thread, cache, serverVars>>

\* write_context_usage_cache, which may fail
CacheWritten(s, done) ==
  /\ caching[s] # << >>
  /\ cache' = IF done THEN caching[s][1] ELSE cache
  /\ caching' = [caching EXCEPT ![s] = << >>]
  /\ UNCHANGED <<thread, usage, serverVars>>

\* set_model
UsageForgotten(s) ==
  usage' = [usage EXCEPT ![s] = Unknown] /\ UNCHANGED <<thread, cache, caching, serverVars>>

\* A compaction begins or ends: the size of the window stays.
UsageCompacted(s) ==
  /\ usage' = [usage EXCEPT ![s] = [Unknown EXCEPT !.size = usage[s].size]]
  /\ UNCHANGED <<thread, cache, caching, serverVars>>

\* apply_thread_switch
UsageSwitches(s, t) ==
  /\ thread' = [thread EXCEPT ![s] = <<t>>]
  /\ usage' = [usage EXCEPT ![s] = Unknown]
  /\ UNCHANGED <<cache, caching, serverVars>>

\* notify_usage_update: what the client is shown
ShownUsage(s) ==
  IF usage[s].source = "none" \/ usage[s].size = 0 THEN << >>
  ELSE <<Smaller(usage[s].used, usage[s].size)>>

-----------------------------------------------------------------------------
\* What may be shown of a turn: what was reported for it, within the window.
CountsOf(t, n, size) == {Smaller(tokens, size) : tokens \in reports[t][n]}

(* A change of what a session shows is a report for a turn of its thread,   *)
(* and what it shows when it begins was reported for the thread's last      *)
(* turn, whatever other sessions have overwritten in the cache and whatever *)
(* was rolled back (usage_cache.rs:27-36, events/usage.rs:20-22).          *)
ShowsCountOf(s, turnsOfThread) ==
  /\ thread[s] # << >>
  /\ \E n \in turnsOfThread : ShownUsage(s)[1] \in CountsOf(thread[s][1], n, usage[s].size)

UsageNeverStale ==
  [][\A s \in Sessions :
       ShownUsage(s)' # ShownUsage(s) /\ ShownUsage(s)' # << >> =>
         IF usage'[s].source = "live" THEN ShowsCountOf(s, Turns(thread[s][1]))'
         ELSE /\ turns[thread'[s][1]] # << >>
              /\ ShowsCountOf(s, {Last(thread[s][1])})']_usageVars
=============================================================================
