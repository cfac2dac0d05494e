----------------------------- MODULE Compaction -----------------------------
(***************************************************************************)
(* Context compaction: the flag ThreadInner.compaction_in_progress, which  *)
(* turns prompts away (thread/prompt/flow.rs), the requests that raise it  *)
(* (thread/features/session/controls.rs), the notifications that raise and *)
(* lower it (thread/features/notification/mod.rs, session/mod.rs) and the  *)
(* watchers that drain those notifications while no turn is active         *)
(* (thread/notification/dispatch.rs).                                      *)
(*                                                                         *)
(* The flag is one boolean for every compaction: those the user asks for,  *)
(* with /compact or the status selector, and those the server starts by    *)
(* itself inside a turn.  A message reaches it through the driver of a     *)
(* turn, which knows nothing of compaction turns, or through a drain.      *)
(***************************************************************************)
EXTENDS Naturals, Sequences

CONSTANTS
  Starters,     \* requests for a compaction, each with its own task
  MaxTurns,     \* bound: turns started by prompts
  MaxAuto       \* bound: compactions the server starts by itself

ASSUME CompactionAssumption == MaxTurns \in Nat /\ MaxAuto \in Nat

VARIABLES
  flag,       \* compaction_in_progress: "running" or "idle"
  starter,    \* each request: idle, asked, done
  watcher,    \* the drain task each request spawned: none, watching, ended
  prompt,     \* the client's prompt: none, draining, passed, driving, flushing
  inbox,      \* notifications in order
  job,        \* what the server runs: nothing, a turn, a compaction, both
  queued,     \* compactions accepted and not begun
  late,       \* turn/starts that timed out here and are still to be taken up
  turns,      \* turns started
  autos,      \* compactions the server started by itself
  mishaps     \* history: "abandoned", a turn ended in the middle of its
              \* compaction; "early", the flag went down while a compaction
              \* was outstanding; "timedOut", the server took up a request
              \* that had timed out on this side

vars == <<flag, starter, watcher, prompt, inbox, job, queued, late, turns, autos, mishaps>>
serverVars == <<job, queued, late, turns, autos>>

Jobs == {"none", "turn", "turnCompacting", "compacting", "hung"}
Notes == {"itemStarted", "compacted", "error", "otherEnded", "turnEnded"}

Init ==
  /\ flag = "idle"
  /\ starter = [s \in Starters |-> "idle"]
  /\ watcher = [s \in Starters |-> "none"]
  /\ prompt = "none"
  /\ inbox = << >>
  /\ job = "none"
  /\ queued = 0
  /\ late = 0
  /\ turns = 0
  /\ autos = 0
  /\ mishaps = {}

-----------------------------------------------------------------------------
(* Requests, /compact and the selector: request_context_compaction_ext.     *)

\* A compaction is running already: Ok(true), and one more watcher.
JoinCompaction(s) ==
  /\ starter[s] = "idle" /\ flag = "running"
  /\ starter' = [starter EXCEPT ![s] = "done"]
  /\ watcher' = [watcher EXCEPT ![s] = "watching"]
  /\ UNCHANGED <<flag, prompt, inbox, serverVars, mishaps>>

RequestCompaction(s) ==
  /\ starter[s] = "idle" /\ flag = "idle"
  /\ flag' = "running"
  /\ starter' = [starter EXCEPT ![s] = "asked"]
  /\ UNCHANGED <<watcher, prompt, inbox, serverVars, mishaps>>

Mut_NoWatcher(s) ==
  /\ starter[s] = "asked"
  /\ queued' = queued + 1
  /\ starter' = [starter EXCEPT ![s] = "done"]
  /\ UNCHANGED <<flag, watcher, prompt, inbox, job, late, turns, autos, mishaps>>
\* The server accepts thread/compact/start; a watcher is spawned.
CompactionAccepted(s) ==
  /\ starter[s] = "asked"
  /\ queued' = queued + 1
  /\ starter' = [starter EXCEPT ![s] = "done"]
  /\ watcher' = [watcher EXCEPT ![s] = "watching"]
  /\ UNCHANGED <<flag, prompt, inbox, job, late, turns, autos, mishaps>>

CompactionRefused(s) ==
  /\ starter[s] = "asked"
  /\ flag' = "idle"
  /\ starter' = [starter EXCEPT ![s] = "done"]
  /\ UNCHANGED <<watcher, prompt, inbox, serverVars, mishaps>>

\* No answer within request_timeout: an error like a refusal to this side,
\* but the server has the request and compacts in its time.
CompactionTimesOut(s) ==
  /\ starter[s] = "asked"
  /\ flag' = "idle"
  /\ starter' = [starter EXCEPT ![s] = "done"]
  /\ queued' = queued + 1
  /\ mishaps' = mishaps \cup {"timedOut"}
  /\ UNCHANGED <<watcher, prompt, inbox, job, late, turns, autos>>

-----------------------------------------------------------------------------
(* Prompts.                                                                *)

Prompt ==
  /\ prompt = "none"
  /\ prompt' = "draining"
  /\ UNCHANGED <<flag, starter, watcher, inbox, serverVars, mishaps>>

\* The drains before a prompt are over: it is refused, or goes on.
Decide ==
  /\ prompt = "draining"
  /\ prompt' = IF flag = "running" THEN "none" ELSE "passed"
  /\ UNCHANGED <<flag, starter, watcher, inbox, serverVars, mishaps>>

\* turn/start, under a new acquisition of the inner lock.
StartTurn ==
  /\ prompt = "passed"
  /\ turns < MaxTurns /\ job = "none"
  /\ turns' = turns + 1
  /\ job' = "turn"
  /\ prompt' = "driving"
  /\ UNCHANGED <<flag, starter, watcher, inbox, queued, late, autos, mishaps>>

\* turn/start is refused.
StartFails ==
  /\ prompt = "passed"
  /\ prompt' = "none"
  /\ UNCHANGED <<flag, starter, watcher, inbox, serverVars, mishaps>>

\* turn/start times out, and the server starts a turn nobody drives.
StartTimesOut ==
  /\ prompt = "passed"
  /\ turns < MaxTurns
  /\ turns' = turns + 1
  /\ late' = late + 1
  /\ prompt' = "none"
  /\ UNCHANGED <<flag, starter, watcher, inbox, job, queued, autos, mishaps>>

-----------------------------------------------------------------------------
(* Notifications.                                                          *)

\* A compaction has been asked for or announced, and not seen to end.
Outstanding ==
  \/ \E s \in Starters : starter[s] = "asked"
  \/ queued > 0 \/ job = "compacting"
  \/ \E n \in DOMAIN inbox : inbox[n] = "itemStarted"

SetFlag(next) ==
  /\ flag' = next
  /\ mishaps' = IF flag = "running" /\ next = "idle" /\ Outstanding
                THEN mishaps \cup {"early"} ELSE mishaps

Mut_KeepReason(m) == IF m = "itemStarted" THEN "running" ELSE m
\* session::handle_item_started and the arms of handle_notification.
FlagAfter(m) == IF m = "itemStarted" THEN "running" ELSE "idle"

\* The driver of the turn: the end of another turn means nothing to it, and
\* the end of its own leaves the flag alone.
DriverReceives ==
  /\ prompt = "driving" /\ inbox # << >>
  /\ LET m == Head(inbox) IN
       /\ SetFlag(IF m \in {"otherEnded", "turnEnded"} THEN flag ELSE FlagAfter(m))
       /\ prompt' = IF m = "turnEnded" THEN "flushing" ELSE prompt
  /\ inbox' = Tail(inbox)
  /\ UNCHANGED <<starter, watcher, serverVars>>

Drain ==
  /\ inbox # << >>
  /\ SetFlag(FlagAfter(Head(inbox)))
  /\ inbox' = Tail(inbox)
  /\ UNCHANGED <<starter, watcher, prompt, serverVars>>

\* The drains of a prompt, before and after its turn.
PromptDrains == prompt \in {"draining", "flushing"} /\ Drain

\* The inbox is quiet, or the drain is at its limit: the prompt returns.
EndFlush ==
  /\ prompt = "flushing"
  /\ prompt' = "none"
  /\ UNCHANGED <<flag, starter, watcher, inbox, serverVars, mishaps>>

\* The watcher yields to an active turn.
WatcherDrains(s) ==
  /\ watcher[s] = "watching" /\ flag = "running"
  /\ prompt # "driving"
  /\ Drain

Mut_NoBreak(s) == watcher[s] = "ended" /\ UNCHANGED vars
WatcherEnds(s) ==
  /\ watcher[s] = "watching" /\ flag = "idle"
  /\ watcher' = [watcher EXCEPT ![s] = "ended"]
  /\ UNCHANGED <<flag, starter, prompt, inbox, serverVars, mishaps>>

\* Nothing more is coming that could lift the flag.
Silent ==
  /\ inbox = << >> /\ \A s \in Starters : starter[s] # "asked"
  /\ \/ job = "hung"
     \/ queued = 0 /\ job \notin {"compacting", "turnCompacting"}

Mut_DeadlineRestarts(s) == watcher[s] = "ended" /\ UNCHANGED vars
\* COMPACTION_DRAIN_WATCHDOG_TIMEOUT: 15 minutes after the watcher began, at
\* the latest once the server has fallen silent.
WatchdogFires(s) ==
  /\ watcher[s] = "watching" /\ flag = "running"
  /\ SetFlag("idle")
  /\ watcher' = [watcher EXCEPT ![s] = "ended"]
  /\ UNCHANGED <<starter, prompt, inbox, serverVars>>

-----------------------------------------------------------------------------
(* The codex app-server, an external program: it runs the turns and the     *)
(* compactions it accepted one after the other.  The end of a compaction is *)
(* that of a turn of its own, which is not the one a driver waits for.      *)

ServerSays(m) ==
  /\ inbox' = Append(inbox, m)
  /\ UNCHANGED <<flag, starter, watcher, prompt, turns>>

ServerBeginsCompaction ==
  /\ job = "none" /\ queued > 0
  /\ job' = "compacting"
  /\ queued' = queued - 1
  /\ ServerSays("itemStarted")
  /\ UNCHANGED <<late, autos, mishaps>>

ServerStartsLate ==
  /\ job = "none" /\ late > 0
  /\ job' = "turn"
  /\ late' = late - 1
  /\ UNCHANGED <<flag, starter, watcher, prompt, inbox, queued, turns, autos, mishaps>>

\* The compaction item completes, then its turn; or the turn fails.
ServerEndsCompaction ==
  /\ job = "compacting"
  /\ job' = "none"
  /\ \E end \in {<<"compacted", "otherEnded">>, <<"error", "otherEnded">>} :
       inbox' = inbox \o end
  /\ UNCHANGED <<flag, starter, watcher, prompt, turns, queued, late, autos, mishaps>>

ServerHangs ==
  /\ job = "compacting"
  /\ job' = "hung"
  /\ UNCHANGED <<flag, starter, watcher, prompt, inbox, queued, late, turns, autos, mishaps>>

ServerCompactsTurn ==
  /\ job = "turn" /\ autos < MaxAuto
  /\ autos' = autos + 1
  /\ job' = "turnCompacting"
  /\ ServerSays("itemStarted")
  /\ UNCHANGED <<queued, late, mishaps>>

ServerResumesTurn ==
  /\ job = "turnCompacting"
  /\ job' = "turn"
  /\ \E m \in {"compacted", "error"} : ServerSays(m)
  /\ UNCHANGED <<queued, late, autos, mishaps>>

\* The running turn is the one a driver waits for.
Driven == prompt = "driving" /\ \A n \in DOMAIN inbox : inbox[n] # "turnEnded"

\* A turn may be interrupted in the middle of its compaction.
ServerEndsTurn ==
  /\ job \in {"turn", "turnCompacting"}
  /\ mishaps' = IF job = "turn" THEN mishaps ELSE mishaps \cup {"abandoned"}
  /\ job' = "none"
  /\ ServerSays(IF Driven THEN "turnEnded" ELSE "otherEnded")
  /\ UNCHANGED <<queued, late, autos>>

-----------------------------------------------------------------------------
ServerStep ==
  \/ ServerBeginsCompaction \/ ServerEndsCompaction \/ ServerHangs \/ ServerStartsLate
  \/ ServerCompactsTurn \/ ServerResumesTurn \/ ServerEndsTurn

StarterStep(s) ==
  \/ JoinCompaction(s) \/ RequestCompaction(s)
  \/ CompactionAccepted(s) \/ CompactionRefused(s) \/ CompactionTimesOut(s)

WatcherStep(s) == WatcherDrains(s) \/ WatcherEnds(s) \/ WatchdogFires(s)

PromptStep ==
  \/ Prompt \/ Decide \/ StartTurn \/ StartFails \/ StartTimesOut
  \/ DriverReceives \/ PromptDrains \/ EndFlush

Next ==
  \/ \E s \in Starters : StarterStep(s) \/ WatcherStep(s)
  \/ PromptStep
  \/ ServerStep

Spec == Init /\ [][Next]_vars

(* The tasks run, the client tries again after a refusal, and a prompt's    *)
(* drain does not end before the inbox is quiet (it polls twice).  The      *)
(* server goes on with its work, unless it hangs.                          *)
FairSpec ==
  /\ Spec
  /\ \A s \in Starters : /\ WF_vars(CompactionAccepted(s) \/ CompactionRefused(s) \/ CompactionTimesOut(s))
                         /\ SF_vars(WatcherDrains(s) \/ WatcherEnds(s))
                         /\ WF_vars(Silent /\ WatchdogFires(s))
  /\ WF_vars(Prompt) /\ WF_vars(Decide) /\ WF_vars(StartTurn \/ StartFails \/ StartTimesOut)
  /\ WF_vars(DriverReceives) /\ WF_vars(EndFlush) /\ SF_vars(PromptDrains)
  /\ WF_vars(ServerBeginsCompaction) /\ WF_vars(ServerStartsLate)
  /\ WF_vars(ServerEndsCompaction \/ ServerHangs)
  /\ WF_vars(ServerResumesTurn) /\ WF_vars(ServerEndsTurn)

-----------------------------------------------------------------------------
(* Type invariant.                                                         *)
TypeOK ==
  /\ flag \in {"running", "idle"}
  /\ starter \in [Starters -> {"idle", "asked", "done"}]
  /\ watcher \in [Starters -> {"none", "watching", "ended"}]
  /\ prompt \in {"none", "draining", "passed", "driving", "flushing"}
  /\ inbox \in Seq(Notes)
  /\ job \in Jobs
  /\ queued \in Nat /\ late \in Nat /\ turns \in Nat /\ autos \in Nat
  /\ mishaps \subseteq {"abandoned", "early", "timedOut"}

(* While a compaction holds prompts back, somebody works on lifting the    *)
(* flag: the request is out, a watcher is draining, or what lowers it has  *)
(* still to come or to be drained.  The code leaves three holes: a turn     *)
(* that ends in the middle of its own compaction; compactions that overlap, *)
(* of which the first to end lowers the flag and ends the watchers of both *)
(* (spawn_compaction_drain_task); and a thread/compact/start that times     *)
(* out, for which no watcher is spawned although the server may compact     *)
(* (request_context_compaction_ext).                                       *)
CompactionWatched ==
  flag = "running" /\ prompt # "driving" /\ mishaps = {} =>
    \/ \E s \in Starters : starter[s] = "asked" \/ watcher[s] = "watching"
    \/ inbox # << >> \/ job \in {"compacting", "turnCompacting"}

(* Prompts sent again and again are not turned away for ever, although the *)
(* server may hang in a compaction, but for the first two holes of         *)
(* CompactionWatched.  The third one matters only if the server hangs: what *)
(* it still says is drained by the prompts themselves.                     *)
FlagLifted ==
  (flag = "running") ~>
    \/ flag = "idle" \/ mishaps \cap {"abandoned", "early"} # {}
    \/ job = "hung" /\ "timedOut" \in mishaps

(* What prompts are told when they are turned away: "Wait for "Context     *)
(* compacted." and send your prompt again." (flow.rs).                     *)
PromptsLetThrough == (flag = "running") ~> (flag = "idle")

(* Every watcher task ends, also one that joined a compaction or outlived  *)
(* its own (spawn_compaction_drain_task).                                  *)
WatchersEnd ==
  \A s \in Starters : (watcher[s] = "watching") ~> (watcher[s] = "ended")
=============================================================================
