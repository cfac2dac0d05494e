------------------------------ MODULE Sessions ------------------------------
(***************************************************************************)
(* The registry of sessions (codex_agent.rs), how a session gets its       *)
(* backend thread (thread/session/lifecycle.rs) and how a slash command    *)
(* moves it to another one (thread/features/session/controls.rs).          *)
(*                                                                         *)
(* Every loaded session is an instance of Thread with an app-server        *)
(* process of its own; the processes share one store of threads on disk.   *)
(* A thread is written to the store by its first turn: until then only the *)
(* process that started it knows it.  A session keeps the id under which   *)
(* the client opened it, whatever thread it is on.                         *)
(*                                                                         *)
(* The connection runs each call of the client as a task of its own, so    *)
(* calls on one session overlap wherever they await.  An instance is named *)
(* after the call that made it.  Left out: the authorisation check, which  *)
(* refuses a call before it does anything, and the settings of a session.  *)
(***************************************************************************)
EXTENDS Naturals, FiniteSets

CONSTANTS
  MaxCalls,     \* bound: calls the client makes, numbered in their order
  MaxThreads,   \* bound: backend threads
  OldActive,    \* threads in the store when the adapter starts: active ones
  OldArchived,  \* and archived ones
  MaxRetries,   \* RESUME_STARTUP_RETRY_ATTEMPTS
  AutoRestore   \* ACP_DISABLE_AUTO_RESTORE is not set

ASSUME SessionsAssumption ==
  /\ MaxCalls \in Nat /\ MaxThreads \in Nat
  /\ OldActive \in Nat /\ OldArchived \in Nat
  /\ MaxRetries \in Nat /\ AutoRestore \in BOOLEAN

VARIABLES
  store,      \* each backend thread as the processes see it on disk
  archiver,   \* history: the instance that archived a thread last, or 0
  deletedVia, \* history: the session that was told it deleted a thread, or 0
  sessions,   \* CodexAgent.sessions: the instance of each session, or 0
  bound,      \* ThreadInner.thread_id of each instance (0: no instance)
  process,    \* the app-server process of each instance
  innerLock,  \* the call that holds ThreadInner across a dialog, or 0
  bypass,     \* the start-up guard that skips one restore: "armed", "spent"
  task,       \* each call: what it is, where it stands, what it remembers
  raced       \* history: loads that overlapped a delete of the same session

storeVars == <<store, archiver, deletedVia>>
instanceVars == <<bound, process, innerLock>>
vars == <<storeVars, sessions, instanceVars, bypass, task, raced>>

Calls   == 1..MaxCalls
Threads == 1..MaxThreads

PromptKinds == {"turn", "archive", "unarchive", "switch"}
Kinds == PromptKinds \cup {"none", "new", "load", "close", "delete", "fork"}
Bootstrapping == {"starting", "resuming", "discovering", "registering"}
Leaving == {"replacing", "switching", "restoring"}
Returned == {"ok", "error"}
Phases == Bootstrapping \cup Leaving \cup Returned \cup
  {"idle", "reading", "deleting", "removing", "forking", "driving",
   "resolving", "picking", "archiving", "retiring"}

NoTask == [kind |-> "none", phase |-> "idle", session |-> 0, inst |-> 0,
           thread |-> 0, next |-> 0, tries |-> 0, shown |-> {}]

Init ==
  /\ store = [t \in Threads |-> IF t <= OldActive THEN "active"
                               ELSE IF t <= OldActive + OldArchived THEN "archived"
                               ELSE "unused"]
  /\ archiver = [t \in Threads |-> 0]
  /\ deletedVia = [t \in Threads |-> 0]
  /\ sessions = [s \in Threads |-> 0]
  /\ bound = [i \in Calls |-> 0]
  /\ process = [i \in Calls |-> "none"]
  /\ innerLock = [i \in Calls |-> 0]
  /\ bypass = "armed"
  /\ task = [c \in Calls |-> NoTask]
  /\ raced = {}

TypeOK ==
  /\ store \in [Threads -> {"unused", "unwritten", "active", "archived", "deleted"}]
  /\ archiver \in [Threads -> 0..MaxCalls]
  /\ deletedVia \in [Threads -> 0..MaxThreads]
  /\ sessions \in [Threads -> 0..MaxCalls]
  /\ bound \in [Calls -> 0..MaxThreads]
  /\ process \in [Calls -> {"none", "up", "down"}]
  /\ innerLock \in [Calls -> 0..MaxCalls]
  /\ bypass \in {"armed", "spent"}
  /\ task \in [Calls -> [kind : Kinds, phase : Phases, session : 0..MaxThreads,
                         inst : 0..MaxCalls, thread : 0..MaxThreads,
                         next : 0..MaxThreads, tries : 0..MaxRetries,
                         shown : SUBSET Threads]]
  /\ raced \subseteq Calls

-----------------------------------------------------------------------------
(* Pieces of the calls.                                                    *)

Inst(c) == task[c].inst
Phase(c, ph) == task[c].phase = ph
Go(c, ph) == task' = [task EXCEPT ![c].phase = ph]

\* Nobody holds the inner lock of the call's instance.
InnerFree(c) == innerLock[Inst(c)] = 0
\* A request of the call can be answered.
ProcessUp(c) == Inst(c) # 0 => process[Inst(c)] = "up"

\* Threads are created in the order of their numbers.
Unused(t) == store[t] = "unused" /\ \A u \in 1..(t-1) : store[u] # "unused"
\* "no rollout found for thread id": nothing on disk to resume or to fork.
Missing(t) == store[t] # "active"

\* The ids a client can name: those listed and those it was given.
Known(s) ==
  \/ store[s] \in {"active", "archived", "deleted"}
  \/ \E c \in Calls : task[c].kind = "new" /\ Phase(c, "ok") /\ task[c].next = s

OnStore(t, what) == store' = [store EXCEPT ![t] = what]

\* What the server has done it may have done in vain: its answer is an error,
\* or lost with the process.
Answered(c, ph) == Go(c, ph) \/ Go(c, "error")

-----------------------------------------------------------------------------
(* The client's calls up to their first await (CodexAgent).                *)

Request(c, kind, s, i, ph) ==
  /\ Phase(c, "idle")
  /\ \A d \in 1..(c-1) : ~Phase(d, "idle")
  /\ task' = [task EXCEPT ![c] =
       [NoTask EXCEPT !.kind = kind, !.session = s, !.inst = i, !.phase = ph]]

NewSession(c) ==
  /\ Request(c, "new", 0, 0, "starting")
  /\ UNCHANGED <<storeVars, sessions, instanceVars, bypass, raced>>

\* One restore in the first seconds is skipped, when the user asked for it.
BypassesRestore == ~AutoRestore /\ bypass = "armed"

\* session/load and session/resume: resume the thread, or start a fresh one.
LoadSession(c, s) ==
  /\ Known(s)
  /\ \/ /\ Request(c, "load", s, 0, "resuming")
        /\ UNCHANGED bypass
     \/ /\ BypassesRestore
        /\ Request(c, "load", s, 0, "starting")
        /\ bypass' = "spent"
  /\ raced' = IF \E d \in Calls : task[d].kind = "delete" /\ task[d].session = s
                                    /\ task[d].phase \notin Returned
              THEN raced \cup {c} ELSE raced
  /\ UNCHANGED <<storeVars, sessions, instanceVars>>

CloseSession(c, s) ==
  /\ Known(s)
  /\ Request(c, "close", s, 0, "ok")
  /\ sessions' = [sessions EXCEPT ![s] = 0]
  /\ UNCHANGED <<storeVars, instanceVars, bypass, raced>>

\* The thread of a loaded session, or the thread of that id.
DeleteSession(c, s) ==
  /\ Known(s)
  /\ Request(c, "delete", s, sessions[s],
             IF sessions[s] = 0 THEN "deleting" ELSE "reading")
  /\ raced' = raced \cup {d \in Calls : task[d].phase \in Bootstrapping
       /\ \/ task[d].kind = "load" /\ task[d].session = s
          \/ task[d].kind = "fork" /\ task[d].next = s}
  /\ UNCHANGED <<storeVars, sessions, instanceVars, bypass>>

ForkSession(c, s) ==
  /\ Known(s)
  /\ Request(c, "fork", s, sessions[s], IF sessions[s] = 0 THEN "error" ELSE "forking")
  /\ UNCHANGED <<storeVars, sessions, instanceVars, bypass, raced>>

\* A prompt is a turn or a slash command; the client sends one at a time to
\* each session.
Prompt(c, s, kind) ==
  /\ Known(s)
  /\ \A d \in Calls : task[d].kind \in PromptKinds /\ task[d].session = s
                        => task[d].phase \in Returned
  /\ Request(c, kind, s, sessions[s],
       IF sessions[s] = 0 THEN "error"
       ELSE CASE kind = "turn" -> "driving"
              [] kind = "switch" -> "reading"
              [] OTHER -> "resolving")
  /\ UNCHANGED <<storeVars, sessions, instanceVars, bypass, raced>>

-----------------------------------------------------------------------------
(* Bootstrap of an instance: lifecycle.rs and load_and_register_session.    *)

\* The process of the bootstrap or one of its requests fails.
BootstrapFails(c) ==
  /\ task[c].phase \in Bootstrapping
  /\ Go(c, "error")
  /\ UNCHANGED <<storeVars, sessions, instanceVars, bypass, raced>>

\* thread/start; beyond the bound on threads it is refused.  A thread whose
\* answer is lost is unwritten and nobody's: as if it had not been started.
StartThread(c) ==
  /\ Phase(c, "starting")
  /\ \/ \E t \in Threads :
          /\ Unused(t)
          /\ OnStore(t, "unwritten")
          /\ task' = [task EXCEPT ![c].phase = "registering", ![c].next = t]
     \/ /\ \A t \in Threads : ~Unused(t)
        /\ Go(c, "error")
        /\ UNCHANGED store
  /\ UNCHANGED <<archiver, deletedVia, sessions, instanceVars, bypass, raced>>

\* The thread a load or a fork resumes.
Resumes(c) == IF task[c].kind = "load" THEN task[c].session ELSE task[c].next

Mut_RetryForever(c) ==
  /\ Phase(c, "resuming")
  /\ IF ~Missing(Resumes(c))
     THEN task' = [task EXCEPT ![c].phase = "registering", ![c].next = Resumes(c)]
     ELSE Go(c, "resuming")
  /\ UNCHANGED <<storeVars, sessions, instanceVars, bypass, raced>>
Mut_OneRetryMore(c) ==
  /\ Phase(c, "resuming")
  /\ IF ~Missing(Resumes(c))
     THEN task' = [task EXCEPT ![c].phase = "registering", ![c].next = Resumes(c)]
     ELSE IF task[c].tries <= MaxRetries
     THEN task' = [task EXCEPT ![c].tries = @ + 1]
     ELSE Go(c, "discovering")
  /\ UNCHANGED <<storeVars, sessions, instanceVars, bypass, raced>>
ResumeThread(c) ==
  /\ Phase(c, "resuming")
  /\ IF ~Missing(Resumes(c))
     THEN task' = [task EXCEPT ![c].phase = "registering", ![c].next = Resumes(c)]
     ELSE IF task[c].tries < MaxRetries
     THEN task' = [task EXCEPT ![c].tries = @ + 1]
     ELSE Go(c, "discovering")
  /\ UNCHANGED <<storeVars, sessions, instanceVars, bypass, raced>>

\* A missing rollout: a load starts a fresh thread, a fork reports the error.
OnRestoreFailure(c) == IF task[c].kind = "load" THEN "starting" ELSE "error"

\* After the last retry thread/read may know a path to resume from.
DiscoverPath(c) ==
  /\ Phase(c, "discovering")
  /\ \/ /\ store[Resumes(c)] \in {"active", "archived"}
        /\ task' = [task EXCEPT ![c].phase = "registering", ![c].next = Resumes(c)]
     \/ Go(c, OnRestoreFailure(c))
  /\ UNCHANGED <<storeVars, sessions, instanceVars, bypass, raced>>

\* A new and a forked session have the id of their thread.
RegisterSession(c) ==
  LET s == IF task[c].kind = "load" THEN task[c].session ELSE task[c].next IN
  /\ Phase(c, "registering")
  /\ bound' = [bound EXCEPT ![c] = task[c].next]
  /\ process' = [process EXCEPT ![c] = "up"]
  /\ sessions' = [sessions EXCEPT ![s] = c]
  /\ Go(c, "ok")
  /\ UNCHANGED <<storeVars, innerLock, bypass, raced>>

-----------------------------------------------------------------------------
(* Deleting and forking.                                                   *)

\* The thread id is read under the inner lock and used after it.
ReadThread(c) ==
  /\ Phase(c, "reading") /\ InnerFree(c)
  /\ task' = [task EXCEPT ![c].thread = bound[Inst(c)],
                          ![c].phase = IF task[c].kind = "delete" THEN "deleting" ELSE "forking"]
  /\ UNCHANGED <<storeVars, sessions, instanceVars, bypass, raced>>

DeletesThread(c) == IF Inst(c) = 0 THEN task[c].session ELSE task[c].thread

DeleteThread(c) ==
  LET t == DeletesThread(c) IN
  /\ Phase(c, "deleting")
  /\ \/ /\ ProcessUp(c) /\ store[t] # "deleted"
        /\ OnStore(t, "deleted")
        /\ \/ /\ deletedVia' = [deletedVia EXCEPT ![t] = task[c].session]
              /\ Go(c, IF Inst(c) = 0 THEN "ok" ELSE "removing")
           \/ Go(c, "error") /\ UNCHANGED deletedVia
     \/ /\ Go(c, "error")
        /\ UNCHANGED <<store, deletedVia>>
  /\ UNCHANGED <<archiver, sessions, instanceVars, bypass, raced>>

Mut_KeepSession(c) ==
  /\ Phase(c, "removing")
  /\ Go(c, "ok")
  /\ UNCHANGED <<storeVars, sessions, instanceVars, bypass, raced>>
RemoveSession(c) ==
  /\ Phase(c, "removing")
  /\ sessions' = [sessions EXCEPT ![task[c].session] = 0]
  /\ Go(c, "ok")
  /\ UNCHANGED <<storeVars, instanceVars, bypass, raced>>

\* session/fork keeps the inner lock while the server forks the thread.
SourceThread(c) == IF task[c].kind = "fork" THEN bound[Inst(c)] ELSE task[c].thread

Mut_ForkUnwritten(c, t) ==
  /\ Phase(c, "forking") /\ (task[c].kind = "fork" => InnerFree(c))
  /\ ProcessUp(c) /\ Unused(t)
  /\ OnStore(t, "active")
  /\ task' = [task EXCEPT ![c].next = t,
                ![c].phase = IF task[c].kind = "fork" THEN "resuming" ELSE "switching"]
  /\ UNCHANGED <<archiver, deletedVia, sessions, instanceVars, bypass, raced>>
ForkThread(c, t) ==
  /\ Phase(c, "forking") /\ (task[c].kind = "fork" => InnerFree(c))
  /\ ProcessUp(c) /\ ~Missing(SourceThread(c)) /\ Unused(t)
  /\ OnStore(t, "active")
  /\ task' = [task EXCEPT ![c].next = t,
                ![c].phase = IF task[c].kind = "fork" THEN "resuming" ELSE "switching"]
  /\ UNCHANGED <<archiver, deletedVia, sessions, instanceVars, bypass, raced>>

\* The server forks the thread, but its answer is an error or lost.
ForkLost(c, t) ==
  /\ Phase(c, "forking") /\ (task[c].kind = "fork" => InnerFree(c))
  /\ ProcessUp(c) /\ ~Missing(SourceThread(c)) /\ Unused(t)
  /\ OnStore(t, "active")
  /\ Go(c, "error")
  /\ UNCHANGED <<archiver, deletedVia, sessions, instanceVars, bypass, raced>>

\* A thread without a rollout: /fork tells the user and ends its turn.
ForkFails(c) ==
  /\ Phase(c, "forking") /\ (task[c].kind = "fork" => InnerFree(c))
  /\ \/ Go(c, "error")
     \/ ProcessUp(c) /\ Missing(SourceThread(c)) /\ task[c].kind = "switch" /\ Go(c, "ok")
  /\ UNCHANGED <<storeVars, sessions, instanceVars, bypass, raced>>

-----------------------------------------------------------------------------
(* Prompts: a turn, and the commands that archive and unarchive.           *)

\* The first turn writes the thread to the store.
RunTurn(c) ==
  LET t == bound[Inst(c)] IN
  /\ Phase(c, "driving") /\ InnerFree(c)
  /\ \/ /\ ProcessUp(c) /\ store[t] \in {"unwritten", "active"}
        /\ OnStore(t, "active")
        /\ Answered(c, "ok")
     \/ /\ Go(c, "error")
        /\ UNCHANGED store
  /\ UNCHANGED <<archiver, deletedVia, sessions, instanceVars, bypass, raced>>

\* What the command may choose from: without a query the current thread if it
\* is listed, else every listed one; with a query those that match it.
Listed(c) ==
  {t \in Threads : store[t] = (IF task[c].kind = "archive" THEN "active" ELSE "archived")}
Candidates(c) ==
  {IF task[c].kind = "archive" /\ bound[Inst(c)] \in Listed(c)
     THEN {bound[Inst(c)]} ELSE Listed(c)} \cup SUBSET Listed(c)

Chosen(c, t) ==
  IF task[c].kind = "unarchive" THEN "restoring"
  ELSE IF t = bound[Inst(c)] THEN "retiring" ELSE "archiving"

\* A list, and with several candidates a dialog, under the inner lock.
\* /unarchive keeps the lock until it returns.
Resolve(c) ==
  /\ Phase(c, "resolving") /\ InnerFree(c)
  /\ \/ /\ Go(c, "error")
        /\ UNCHANGED innerLock
     \/ /\ ProcessUp(c)
        /\ \E found \in Candidates(c) :
             \/ /\ found = {} /\ Go(c, "ok") /\ UNCHANGED innerLock
             \/ \E t \in found :
                  /\ found = {t}
                  /\ task' = [task EXCEPT ![c].thread = t, ![c].phase = Chosen(c, t)]
                  /\ innerLock' = IF task[c].kind = "unarchive"
                                  THEN [innerLock EXCEPT ![Inst(c)] = c] ELSE innerLock
             \/ /\ Cardinality(found) > 1
                /\ task' = [task EXCEPT ![c].shown = found, ![c].phase = "picking"]
                /\ innerLock' = [innerLock EXCEPT ![Inst(c)] = c]
  /\ UNCHANGED <<storeVars, sessions, bound, process, bypass, raced>>

Unlock(c) == innerLock' = [innerLock EXCEPT ![Inst(c)] = IF @ = c THEN 0 ELSE @]

Pick(c) ==
  /\ Phase(c, "picking")
  /\ \/ \E t \in task[c].shown :
          /\ task' = [task EXCEPT ![c].thread = t, ![c].phase = Chosen(c, t), ![c].shown = {}]
          /\ IF task[c].kind = "archive" THEN Unlock(c) ELSE UNCHANGED innerLock
     \/ \E r \in Returned :
          /\ task' = [task EXCEPT ![c].phase = r, ![c].shown = {}]
          /\ Unlock(c)
  /\ UNCHANGED <<storeVars, sessions, bound, process, bypass, raced>>

\* "retiring" is the session's current thread: a replacement follows.
ArchiveThread(c) ==
  LET t == task[c].thread IN
  /\ task[c].phase \in {"archiving", "retiring"}
  /\ \/ /\ ProcessUp(c) /\ store[t] = "active"
        /\ OnStore(t, "archived")
        /\ archiver' = [archiver EXCEPT ![t] = Inst(c)]
        /\ Answered(c, IF Phase(c, "retiring") THEN "replacing" ELSE "ok")
     \/ /\ Go(c, "error")
        /\ UNCHANGED <<store, archiver>>
  /\ UNCHANGED <<deletedVia, sessions, instanceVars, bypass, raced>>

StartReplacement(c) ==
  /\ Phase(c, "replacing") /\ InnerFree(c)
  /\ \/ \E t \in Threads :
          /\ ProcessUp(c) /\ Unused(t)
          /\ OnStore(t, "unwritten")
          /\ task' = [task EXCEPT ![c].phase = "switching", ![c].next = t]
     \/ /\ Go(c, "restoring")
        /\ UNCHANGED store
  /\ UNCHANGED <<archiver, deletedVia, sessions, instanceVars, bypass, raced>>

Mut_IgnoreFailure(c) ==
  /\ Phase(c, "switching")
  /\ \/ /\ InnerFree(c)
        /\ bound' = [bound EXCEPT ![Inst(c)] = task[c].next]
        /\ Go(c, "ok")
     \/ /\ ~ProcessUp(c)
        /\ Go(c, "ok")
        /\ UNCHANGED bound
  /\ UNCHANGED <<storeVars, sessions, process, innerLock, bypass, raced>>
\* The flush fails with the process; nothing after it does.
SwitchThread(c) ==
  /\ Phase(c, "switching")
  /\ \/ /\ InnerFree(c)
        /\ bound' = [bound EXCEPT ![Inst(c)] = task[c].next]
        /\ Go(c, "ok")
     \/ /\ ~ProcessUp(c)
        /\ Go(c, IF task[c].kind = "archive" THEN "restoring" ELSE "error")
        /\ UNCHANGED bound
  /\ UNCHANGED <<storeVars, sessions, process, innerLock, bypass, raced>>

\* thread/unarchive: of the thread whose replacement failed, or of the one
\* the user chose.
Unarchive(c) ==
  LET t == task[c].thread IN
  /\ Phase(c, "restoring")
  /\ \/ /\ ProcessUp(c) /\ store[t] = "archived"
        /\ OnStore(t, "active")
        /\ Answered(c, "ok")
     \/ /\ Go(c, "error")
        /\ UNCHANGED store
  /\ Unlock(c)
  /\ UNCHANGED <<archiver, deletedVia, sessions, bound, process, bypass, raced>>

ProcessDies(i) ==
  /\ process[i] = "up"
  /\ process' = [process EXCEPT ![i] = "down"]
  /\ UNCHANGED <<storeVars, sessions, bound, innerLock, bypass, task, raced>>

-----------------------------------------------------------------------------
(* Specification.                                                          *)

ClientCalls(c) ==
  \/ NewSession(c)
  \/ \E s \in Threads :
       \/ LoadSession(c, s) \/ CloseSession(c, s) \/ DeleteSession(c, s)
       \/ ForkSession(c, s)
       \/ \E kind \in PromptKinds : Prompt(c, s, kind)

\* What a task does without the user; BootstrapFails needs a failure.
Continue(c) ==
  \/ StartThread(c) \/ ResumeThread(c) \/ DiscoverPath(c) \/ RegisterSession(c)
  \/ ReadThread(c) \/ DeleteThread(c) \/ RemoveSession(c)
  \/ (\E t \in Threads : ForkThread(c, t) \/ ForkLost(c, t)) \/ ForkFails(c)
  \/ RunTurn(c) \/ Resolve(c) \/ ArchiveThread(c)
  \/ StartReplacement(c) \/ SwitchThread(c) \/ Unarchive(c)

Next ==
  \/ \E c \in Calls : ClientCalls(c) \/ Continue(c) \/ Pick(c) \/ BootstrapFails(c)
  \/ \E i \in Calls : ProcessDies(i)

Spec == Init /\ [][Next]_vars

\* The call has sent a request that request_timeout gives no limit (delete,
\* fork, archive, unarchive), or drives a turn: a process that lives and says
\* nothing keeps it waiting for ever.
AwaitsAnswer(c) ==
  \/ task[c].phase \in {"deleting", "archiving", "retiring", "restoring"}
  \/ Phase(c, "driving") /\ InnerFree(c)
  \/ Phase(c, "forking") /\ (task[c].kind = "fork" => InnerFree(c))

\* The runtime polls every task that can go on; all other requests time out.
FairSpec == Spec /\ \A c \in Calls : WF_vars(~AwaitsAnswer(c) /\ Continue(c))

-----------------------------------------------------------------------------
(* Properties.                                                             *)

\* A session is never left, by its own /archive, on a thread it archived,
\* unless the command reported that it could neither replace nor restore it:
\* handle_archive_command_ext with its flush, replacement, switch and restore
\* (controls.rs), whichever of them fails and whatever other sessions do.
OwnThreadUsable ==
  \A i \in Calls : \A t \in Threads :
    bound[i] = t /\ store[t] = "archived" /\ archiver[t] = i
      => \E c \in Calls : /\ task[c].kind = "archive" /\ Inst(c) = i /\ task[c].thread = t
                          /\ task[c].phase \in Leaving \cup {"error"}

\* A session that moves to another thread leaves one behind that can be found
\* again or was deleted, never one that only its process knew: what /fork and
\* /archive may leave, with a delete of the same session overlapping.
SwitchKeepsHistory ==
  [][\A i \in Calls : bound[i] # 0 /\ bound'[i] # bound[i]
        => store[bound[i]] \in {"active", "archived", "deleted"}]_vars

\* Once session/delete has succeeded, no session shows the thread it deleted,
\* unless the client loaded the session while it was being deleted: the entry
\* read before thread/delete is removed by name after it (codex_agent.rs).  A
\* delete that returns an error although the server carried it out keeps the
\* entry, and promises nothing.
NoGhostSession ==
  \A s \in Threads : sessions[s] # 0 /\ sessions[s] \notin raced =>
    LET t == bound[sessions[s]] IN
    t # 0 /\ store[t] = "deleted" /\ deletedVia[t] = s =>
      \E c \in Calls : task[c].kind = "delete" /\ task[c].session = s /\ Phase(c, "removing")

\* A call that waits for the user or the server, which holds up itself and the
\* calls of the same instance.
HoldsUp(d, c) ==
  /\ d = c \/ (Inst(c) # 0 /\ Inst(d) = Inst(c))
  /\ Phase(d, "picking") \/ AwaitsAnswer(d)

\* Every call returns unless the user or the server keeps it, or another call
\* of its instance, waiting for ever: no call waits for the inner lock, a retry
\* or a restore, and none for the child of another session.
CallsReturn ==
  \A c \in Calls : (\A d \in Calls : []<>~HoldsUp(d, c))
    => [](~Phase(c, "idle") => <>(task[c].phase \in Returned))
=============================================================================
