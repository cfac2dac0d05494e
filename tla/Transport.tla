------------------------------ MODULE Transport ------------------------------
(***************************************************************************)
(* The JSON-RPC transport between the adapter and its `codex app-server`   *)
(* child: AppServerProcess (src/src/app_server.rs) and its stdout reader   *)
(* task (src/src/app_server/reader.rs).                                    *)
(*                                                                         *)
(* Every caller reaches the process through one tokio Mutex ("app lock"),  *)
(* installs its request in the single active-request slot, writes one line *)
(* to the child's stdin and waits on a oneshot.  The reader task takes the *)
(* lines of stdout one at a time: it completes the active request, rejects *)
(* the server requests that may not interrupt a startup-sensitive request, *)
(* and forwards everything else to the unbounded inbox that the turn       *)
(* driver and the drains read.                                             *)
(*                                                                         *)
(* Two mutexes, two pipes and a timer interleave here: a timeout may fire  *)
(* before, while or after the request is written and races with a late     *)
(* response; the reader writes rejections to the same stdin as the         *)
(* callers; the child may stop talking, write a line that is not UTF-8, or *)
(* exit at any point.                                                      *)
(***************************************************************************)
EXTENDS Naturals, Sequences

CONSTANTS
  Tasks,              \* the adapter tasks that share the transport
  Reader,             \* the stdout reader task
  None,               \* nobody: an unlocked mutex
  MaxRequests,        \* bound: client requests issued
  MaxServerRequests,  \* bound: requests issued by the server
  MaxNotifications,   \* bound: notifications issued by the server
  MaxUnreadable       \* bound: stdout lines that are not UTF-8

ASSUME TransportAssumption ==
  /\ Reader \notin Tasks /\ None \notin Tasks /\ Reader # None
  /\ MaxRequests \in Nat /\ MaxServerRequests \in Nat /\ MaxNotifications \in Nat
  /\ MaxUnreadable \in Nat

VARIABLES
  appLock,      \* holder of the Mutex<AppServerProcess>, or None
  task,         \* [phase, op, id] of each task's use of the transport
  nextId,       \* AppServerProcess.next_request_id
  slot,         \* the ActiveRequest: its id and reject_startup_requests
  reply,        \* what the oneshot of the installed request holds
  outcome,      \* what each request returned to its caller
  reader,       \* the reader task: running, rejecting one request, or ended
  stdinOwner,   \* holder of the Mutex<ChildStdin>, or None
  pipe,         \* unfinished bytes in stdin: none, one writer's line, torn
  cutShort,     \* history: requests whose write was cancelled in mid-line
  toServer,     \* lines the child has not read yet
  toClient,     \* lines the reader has not read yet
  inbox,        \* the unbounded message inbox
  server,       \* the child: running, mute (stdout closed) or exited
  accepted,     \* client requests the child has read and not answered
  served,       \* history: client requests the child has answered
  asked,        \* server requests issued, in order of their ids 1..asked
  notified,     \* notifications issued
  unreadable,   \* unreadable lines issued
  answers       \* history: answers written for each server request

clientVars == <<appLock, task, nextId, reply, outcome>>
stdinVars  == <<stdinOwner, pipe, cutShort, toServer>>
serverVars == <<server, accepted, served, asked, notified, unreadable>>
vars == <<clientVars, slot, reader, stdinVars, toClient, inbox, serverVars, answers>>

RequestIds       == 1..MaxRequests
ServerRequestIds == 1..MaxServerRequests

NoRequest == [id |-> 0, reject |-> FALSE]
NoReply   == [kind |-> "none", id |-> 0]
Idle      == [phase |-> "idle", op |-> "none", id |-> 0]
Message(kind, id) == [kind |-> kind, id |-> id]

Phases   == {"idle", "waiting", "locked", "writing", "awaiting"}
Ops      == {"none", "timed", "untimed", "answer"}
Outcomes == {"none", "pending", "ok", "timeout", "error", "unexpected", "concurrent"}
TaskRecords == [phase : Phases, op : Ops, id : Nat]
Lines    == [kind : {"request", "answer", "garbled"}, id : Nat]
Messages == [kind : {"response", "notification", "request", "startupRequest",
                     "unreadable", "error"}, id : Nat]

Init ==
  /\ appLock = None
  /\ task = [t \in Tasks |-> Idle]
  /\ nextId = 1
  /\ slot = NoRequest
  /\ reply = NoReply
  /\ outcome = [i \in RequestIds |-> "none"]
  /\ reader = Message("running", 0)
  /\ stdinOwner = None
  /\ pipe = "empty"
  /\ cutShort = {}
  /\ toServer = << >>
  /\ toClient = << >>
  /\ inbox = << >>
  /\ server = "running"
  /\ accepted = {}
  /\ served = {}
  /\ asked = 0
  /\ notified = 0
  /\ unreadable = 0
  /\ answers = [r \in ServerRequestIds |-> 0]
-----------------------------------------------------------------------------
(* Callers: the app lock.                                                  *)

\* A task asks for the Mutex<AppServerProcess> in order to send a request.
WantLock(t) ==
  /\ task[t].phase = "idle"
  /\ nextId \in RequestIds
  /\ task' = [task EXCEPT ![t].phase = "waiting"]
  /\ UNCHANGED <<appLock, nextId, reply, outcome, slot, reader, stdinVars,
                 toClient, inbox, serverVars, answers>>

Lock(t) ==
  /\ task[t].phase = "waiting"
  /\ appLock = None
  /\ appLock' = t
  /\ task' = [task EXCEPT ![t].phase = "locked"]
  /\ UNCHANGED <<nextId, reply, outcome, slot, reader, stdinVars,
                 toClient, inbox, serverVars, answers>>

\* The guard of the app lock goes out of scope.
Unlock(t) ==
  /\ task[t].phase = "locked" /\ task[t].op = "none"
  /\ appLock' = None
  /\ task' = [task EXCEPT ![t] = Idle]
  /\ UNCHANGED <<nextId, reply, outcome, slot, reader, stdinVars,
                 toClient, inbox, serverVars, answers>>

-----------------------------------------------------------------------------
(* Callers: one request.                                                   *)

\* ActiveRequestGuard::install on a busy slot fails, and the request with it.
InstallRefused(t) ==
  /\ slot # NoRequest
  /\ outcome' = [outcome EXCEPT ![nextId] = "concurrent"]
  /\ UNCHANGED <<task, slot, reply>>

\* ActiveRequestGuard::install with a fresh oneshot; write_json comes next.
InstallAccepted(t, op) ==
  /\ slot = NoRequest
  /\ slot' = [id |-> nextId, reject |-> op = "timed"]
  /\ reply' = NoReply
  /\ outcome' = [outcome EXCEPT ![nextId] = "pending"]
  /\ task' = [task EXCEPT ![t] = [phase |-> "writing", op |-> op, id |-> nextId]]

\* AppServerProcess::next_request_id.
Mut_ReuseId == nextId
NextRequestId == nextId + 1

\* next_request_id, then request: a method with a timeout is "timed" and
\* rejects startup requests, every other one is "untimed" and does not.
StartRequest(t, op) ==
  /\ task[t].phase = "locked" /\ task[t].op = "none"
  /\ nextId \in RequestIds
  /\ nextId' = NextRequestId
  /\ InstallRefused(t) \/ InstallAccepted(t, op)
  /\ UNCHANGED <<appLock, reader, stdinVars, toClient, inbox, serverVars, answers>>

\* send_server_request_response / _error: the handler's write_json.
StartAnswer(t) ==
  /\ task[t].phase = "locked" /\ task[t].op = "answer"
  /\ task' = [task EXCEPT ![t].phase = "writing"]
  /\ UNCHANGED <<appLock, nextId, reply, outcome, slot, reader, stdinVars,
                 toClient, inbox, serverVars, answers>>

Mut_DropKeepsSlot(t) == slot
\* ActiveRequestGuard::drop clears the slot only if it is still this request's.
SlotAfterDrop(t) ==
  IF slot # NoRequest /\ slot.id = task[t].id THEN NoRequest ELSE slot

\* The request returns to its caller, who still holds the app lock.
Return(t, result) ==
  /\ outcome' = [outcome EXCEPT ![task[t].id] = result]
  /\ slot' = SlotAfterDrop(t)
  /\ task' = [task EXCEPT ![t] = [phase |-> "locked", op |-> "none", id |-> 0]]

\* request_inner on what the oneshot delivers: it checks the id once more.
ReplyResult(t) ==
  IF reply.kind = "failed" THEN "error"
  ELSE IF reply.id = task[t].id THEN "ok" ELSE "unexpected"

ReceiveReply(t) ==
  /\ task[t].phase = "awaiting"
  /\ reply # NoReply
  /\ Return(t, ReplyResult(t))
  /\ UNCHANGED <<appLock, nextId, reply, reader, stdinVars, toClient, inbox,
                 serverVars, answers>>

Mut_TimerOnWriteOnly(t) == task[t].op = "timed" /\ task[t].phase = "writing"
\* The timer runs around all of request_inner.
TimerRuns(t) == task[t].op = "timed" /\ task[t].phase \in {"writing", "awaiting"}

\* tokio::time::timeout drops request_inner wherever it is suspended: waiting
\* for stdin, in the middle of write_all (some bytes may be in the pipe), or
\* waiting for the response, which may just have been sent.
Timeout(t) ==
  /\ TimerRuns(t)
  /\ Return(t, "timeout")
  /\ IF stdinOwner = t
     THEN /\ stdinOwner' = None
          /\ pipe' \in {"torn"} \cup (IF pipe = "line" THEN {"empty"} ELSE {})
          /\ cutShort' = IF pipe' = "torn" THEN cutShort \cup {task[t].id} ELSE cutShort
     ELSE UNCHANGED <<stdinOwner, pipe, cutShort>>
  /\ UNCHANGED <<appLock, nextId, reply, reader, toServer, toClient, inbox,
                 serverVars, answers>>

-----------------------------------------------------------------------------
(* Lines on the child's stdin, written by callers and by the reader.       *)

Mut_SharedStdin(w) ==
  /\ stdinOwner' = w
  /\ pipe' = IF pipe = "empty" THEN "line" ELSE "torn"
  /\ UNCHANGED <<cutShort, toServer>>
\* The stdin mutex is taken and the first bytes go out, after whatever
\* unfinished bytes are already in the pipe.
TakeStdin(w) ==
  /\ stdinOwner = None
  /\ stdinOwner' = w
  /\ pipe' = IF pipe = "empty" THEN "line" ELSE "torn"
  /\ UNCHANGED <<cutShort, toServer>>

\* The newline is out: the child sees one line, intact if nothing else is in it.
FinishLine(w, line) ==
  /\ stdinOwner = w
  /\ server # "exited"
  /\ toServer' = Append(toServer, IF pipe = "line" THEN line ELSE Message("garbled", 0))
  /\ stdinOwner' = None
  /\ pipe' = "empty"
  /\ UNCHANGED cutShort

BeginWrite(t) ==
  /\ task[t].phase = "writing"
  /\ TakeStdin(t)
  /\ UNCHANGED <<clientVars, slot, reader, toClient, inbox, serverVars, answers>>

EndRequestWrite(t) ==
  /\ task[t].phase = "writing" /\ task[t].op # "answer"
  /\ FinishLine(t, Message("request", task[t].id))
  /\ task' = [task EXCEPT ![t].phase = "awaiting"]
  /\ UNCHANGED <<appLock, nextId, reply, outcome, slot, reader, toClient, inbox,
                 serverVars, answers>>

EndAnswerWrite(t) ==
  /\ task[t].phase = "writing" /\ task[t].op = "answer"
  /\ FinishLine(t, Message("answer", task[t].id))
  /\ answers' = [answers EXCEPT ![task[t].id] = @ + 1]
  /\ task' = [task EXCEPT ![t] = [phase |-> "locked", op |-> "none", id |-> 0]]
  /\ UNCHANGED <<appLock, nextId, reply, outcome, slot, reader, toClient, inbox,
                 serverVars>>

\* The child is gone: write_all or flush fails and `?` returns the error.
WriteFails(t) ==
  /\ task[t].phase = "writing"
  /\ server = "exited"
  /\ stdinOwner \in {None, t}
  /\ stdinOwner' = None
  /\ IF task[t].op = "answer"
     THEN /\ task' = [task EXCEPT ![t] = [phase |-> "locked", op |-> "none", id |-> 0]]
          /\ UNCHANGED <<slot, outcome>>
     ELSE Return(t, "error")
  /\ UNCHANGED <<appLock, nextId, reply, reader, pipe, cutShort, toServer,
                 toClient, inbox, serverVars, answers>>

-----------------------------------------------------------------------------
(* The reader task.                                                        *)

Mut_EndReaderSilently ==
  /\ reader' = Message("ended", 0)
  /\ inbox' = Append(inbox, Message("error", 0))
  /\ UNCHANGED <<slot, reply>>
\* fail_active_request, then the error goes to the inbox and the task returns.
EndReader ==
  /\ reader' = Message("ended", 0)
  /\ inbox' = Append(inbox, Message("error", 0))
  /\ slot' = NoRequest
  /\ reply' = IF slot # NoRequest THEN Message("failed", slot.id) ELSE reply

\* End of file on stdout, or a line that is not UTF-8.
ReadFails ==
  /\ reader.kind = "running"
  /\ \/ toClient = << >> /\ server # "running" /\ UNCHANGED toClient
     \/ /\ toClient # << >> /\ Head(toClient).kind = "unreadable"
        /\ toClient' = Tail(toClient)
  /\ EndReader
  /\ UNCHANGED <<appLock, task, nextId, outcome, stdinVars, serverVars, answers>>

Mut_IgnoreKind(m) == slot.id = m.id
Mut_IgnoreId(m) == m.kind = "response" /\ slot # NoRequest
\* classify_reader_action: the response of the active request.
AnswersActiveRequest(m) == m.kind = "response" /\ slot # NoRequest /\ slot.id = m.id

\* classify_reader_action: a request that may not interrupt a startup request.
MustReject(m) == m.kind = "startupRequest" /\ slot # NoRequest /\ slot.reject

DeliverResponse ==
  /\ reader.kind = "running" /\ toClient # << >>
  /\ AnswersActiveRequest(Head(toClient))
  /\ slot' = NoRequest
  /\ reply' = Head(toClient)
  /\ toClient' = Tail(toClient)
  /\ UNCHANGED <<appLock, task, nextId, outcome, reader, stdinVars, inbox,
                 serverVars, answers>>

Mut_RejectAndForward ==
  /\ reader.kind = "running" /\ toClient # << >>
  /\ MustReject(Head(toClient))
  /\ reader' = Message("rejecting", Head(toClient).id)
  /\ toClient' = Tail(toClient)
  /\ inbox' = Append(inbox, Head(toClient))
  /\ UNCHANGED <<clientVars, slot, stdinVars, serverVars, answers>>
RejectStartupRequest ==
  /\ reader.kind = "running" /\ toClient # << >>
  /\ MustReject(Head(toClient))
  /\ reader' = Message("rejecting", Head(toClient).id)
  /\ toClient' = Tail(toClient)
  /\ UNCHANGED <<clientVars, slot, stdinVars, inbox, serverVars, answers>>

Mut_RejectUnderAppLock ==
  /\ reader.kind = "rejecting"
  /\ appLock = None
  /\ TakeStdin(Reader)
  /\ UNCHANGED <<clientVars, slot, reader, toClient, inbox, serverVars, answers>>
BeginRejection ==
  /\ reader.kind = "rejecting"
  /\ TakeStdin(Reader)
  /\ UNCHANGED <<clientVars, slot, reader, toClient, inbox, serverVars, answers>>

EndRejection ==
  /\ reader.kind = "rejecting"
  /\ FinishLine(Reader, Message("answer", reader.id))
  /\ answers' = [answers EXCEPT ![reader.id] = @ + 1]
  /\ reader' = Message("running", 0)
  /\ UNCHANGED <<clientVars, slot, toClient, inbox, serverVars>>

RejectionFails ==
  /\ reader.kind = "rejecting"
  /\ server = "exited"
  /\ stdinOwner \in {None, Reader}
  /\ stdinOwner' = None
  /\ EndReader
  /\ UNCHANGED <<appLock, task, nextId, outcome, pipe, cutShort, toServer,
                 toClient, serverVars, answers>>

Forward ==
  /\ reader.kind = "running" /\ toClient # << >>
  /\ LET m == Head(toClient) IN
       /\ m.kind # "unreadable" /\ ~AnswersActiveRequest(m) /\ ~MustReject(m)
       /\ inbox' = Append(inbox, m)
  /\ toClient' = Tail(toClient)
  /\ UNCHANGED <<clientVars, slot, reader, stdinVars, serverVars, answers>>

\* recv_message_from_inbox.  The receiver of a request either goes on to
\* answer it or gives up on it when its own prompt to the user fails.
Recv(t) ==
  /\ task[t].phase = "idle"
  /\ inbox # << >>
  /\ inbox' = Tail(inbox)
  /\ \/ UNCHANGED task
     \/ /\ Head(inbox).kind \in {"request", "startupRequest"}
        /\ task' = [task EXCEPT ![t] =
                      [phase |-> "waiting", op |-> "answer", id |-> Head(inbox).id]]
  /\ UNCHANGED <<appLock, nextId, reply, outcome, slot, reader, stdinVars,
                 toClient, serverVars, answers>>

-----------------------------------------------------------------------------
(* The codex app-server, an external program: it reads its stdin in order, *)
(* answers what it read in any order or never, talks on its own, and may   *)
(* close stdout or exit.                                                   *)

ServerRead ==
  /\ server # "exited" /\ toServer # << >>
  /\ accepted' = accepted \cup {m.id : m \in {n \in {Head(toServer)} : n.kind = "request"}}
  /\ toServer' = Tail(toServer)
  /\ UNCHANGED <<clientVars, slot, reader, stdinOwner, pipe, cutShort, toClient,
                 inbox, server, served, asked, notified, unreadable, answers>>

Say(m) ==
  /\ server = "running"
  /\ toClient' = Append(toClient, m)
  /\ UNCHANGED <<clientVars, slot, reader, stdinVars, inbox, server, answers>>

ServerRespond(i) ==
  /\ i \in accepted
  /\ accepted' = accepted \ {i}
  /\ served' = served \cup {i}
  /\ Say(Message("response", i))
  /\ UNCHANGED <<asked, notified, unreadable>>

ServerNotify ==
  /\ notified < MaxNotifications
  /\ notified' = notified + 1
  /\ Say(Message("notification", 0))
  /\ UNCHANGED <<accepted, served, asked, unreadable>>

ServerAsk(kind) ==
  /\ asked < MaxServerRequests
  /\ asked' = asked + 1
  /\ Say(Message(kind, asked + 1))
  /\ UNCHANGED <<accepted, served, notified, unreadable>>

ServerBabble ==
  /\ unreadable < MaxUnreadable
  /\ unreadable' = unreadable + 1
  /\ Say(Message("unreadable", 0))
  /\ UNCHANGED <<accepted, served, asked, notified>>

ServerStops(how) ==
  /\ \/ server = "running"
     \/ server = "mute" /\ how = "exited"
  /\ server' = how
  /\ UNCHANGED <<clientVars, slot, reader, stdinVars, toClient, inbox, accepted,
                 served, asked, notified, unreadable, answers>>

-----------------------------------------------------------------------------
TaskStep(t) ==
  \/ WantLock(t) \/ Lock(t) \/ Unlock(t)
  \/ \E op \in {"timed", "untimed"} : StartRequest(t, op)
  \/ StartAnswer(t) \/ ReceiveReply(t) \/ Timeout(t)
  \/ BeginWrite(t) \/ EndRequestWrite(t) \/ EndAnswerWrite(t) \/ WriteFails(t)
  \/ Recv(t)

ReaderStep ==
  \/ ReadFails \/ DeliverResponse \/ RejectStartupRequest
  \/ BeginRejection \/ EndRejection \/ RejectionFails \/ Forward

ServerStep ==
  \/ ServerRead \/ ServerNotify \/ ServerBabble
  \/ \E i \in RequestIds : ServerRespond(i)
  \/ \E kind \in {"request", "startupRequest"} : ServerAsk(kind)
  \/ \E how \in {"mute", "exited"} : ServerStops(how)

Next == (\E t \in Tasks : TaskStep(t)) \/ ReaderStep \/ ServerStep

Spec == Init /\ [][Next]_vars

(* What a task or the reader does as soon as it is polled, unless it waits *)
(* for a mutex, for the child, or has nothing more to ask.                 *)
TaskProgress(t) ==
  \/ Unlock(t) \/ StartAnswer(t) \/ ReceiveReply(t) \/ Timeout(t)
  \/ EndRequestWrite(t) \/ EndAnswerWrite(t) \/ WriteFails(t)

(* The executor polls a woken task, an elapsed timer wakes its future and   *)
(* tokio mutexes queue their waiters in order.                             *)
AdapterFairness ==
  /\ \A t \in Tasks : /\ WF_vars(TaskProgress(t))
                      /\ SF_vars(Lock(t)) /\ SF_vars(BeginWrite(t))
  /\ WF_vars(ReaderStep) /\ SF_vars(BeginRejection)

(* A responsive child: it reads its stdin and answers what it has read, as  *)
(* long as it talks at all.  The specification does not assume it: it is a *)
(* premise of the properties about untimed requests and rejections.        *)
ServerFairness ==
  /\ WF_vars(ServerRead)
  /\ \A i \in RequestIds : WF_vars(ServerRespond(i))

FairSpec == Spec /\ AdapterFairness

-----------------------------------------------------------------------------
(* Type invariant.                                                         *)
TypeOK ==
  /\ appLock \in Tasks \cup {None}
  /\ task \in [Tasks -> TaskRecords]
  /\ nextId \in Nat \ {0}
  /\ slot \in [id : Nat, reject : BOOLEAN]
  /\ reply \in [kind : {"none", "failed", "response"}, id : Nat]
  /\ outcome \in [RequestIds -> Outcomes]
  /\ reader \in [kind : {"running", "rejecting", "ended"}, id : Nat]
  /\ stdinOwner \in Tasks \cup {Reader, None}
  /\ pipe \in {"empty", "line", "torn"}
  /\ cutShort \subseteq Nat
  /\ toServer \in Seq(Lines)
  /\ toClient \in Seq(Messages) /\ inbox \in Seq(Messages)
  /\ server \in {"running", "mute", "exited"}
  /\ accepted \subseteq Nat /\ served \subseteq Nat
  /\ asked \in Nat /\ notified \in Nat /\ unreadable \in Nat
  /\ answers \in [ServerRequestIds -> Nat]

(* A busy active-request slot always belongs to the request of the task    *)
(* that holds the app lock and is still waiting for it: no timeout, failed *)
(* write or late response leaves a stale request in the slot (reader.rs,   *)
(* ActiveRequestGuard).                                                    *)
SlotBelongsToLockHolder ==
  slot # NoRequest =>
    \E t \in Tasks :
      /\ appLock = t
      /\ task[t].phase \in {"writing", "awaiting"}
      /\ task[t].id = slot.id
      /\ slot.reject <=> task[t].op = "timed"

(* No request fails because of another one: install never finds the slot   *)
(* busy, and the oneshot never carries the response of another request,    *)
(* although the responses of timed-out requests arrive later               *)
(* (app_server.rs, the error branches of request_inner).                   *)
NoSpuriousFailure ==
  \A i \in RequestIds : outcome[i] \notin {"concurrent", "unexpected"}

(* A server request is answered at most once, whether the reader rejects   *)
(* it during a startup-sensitive request or a handler answers it from the  *)
(* inbox (reader.rs, classify_reader_action).                              *)
AnsweredAtMostOnce == \A r \in ServerRequestIds : answers[r] <= 1

(* The child never reads a line mixed from two writers, unless a timeout   *)
(* cancelled a write in the middle of its line (write_line_to_stdin holds  *)
(* the stdin mutex for the whole line).                                    *)
LinesIntact ==
  (\E n \in DOMAIN toServer : toServer[n].kind = "garbled") => cutShort # {}

(* A request with a timeout returns to its caller, whatever the child does *)
(* (app_server.rs, request).                                               *)
TimedRequestReturns ==
  \A t \in Tasks :
    (task[t].op = "timed" /\ task[t].phase \in {"writing", "awaiting"})
      ~> (task[t].phase = "locked")

(* A request without a timeout that waits while the reader runs returns as *)
(* well: with the response, or with an error when stdout closes or becomes *)
(* unreadable under it (fail_active_request).  The code leaves two holes: a *)
(* request sent after the reader has ended, and one sent to a stream that  *)
(* a cancelled write has corrupted.  The child must be responsive.         *)
RequestReturns ==
  ServerFairness => \A t \in Tasks :
    (task[t].phase = "awaiting" /\ reader.kind # "ended")
      ~> (task[t].phase # "awaiting" \/ cutShort # {})

(* A rejection the reader has started reaches the child, or the child is   *)
(* gone and the reader reports that instead of hanging on stdin, provided  *)
(* the child reads what it is sent.                                        *)
RejectionCompletes ==
  ServerFairness => \A r \in ServerRequestIds :
    (reader = Message("rejecting", r))
      ~> (answers[r] = 1 \/ (server = "exited" /\ reader.kind = "ended"))

-----------------------------------------------------------------------------
(* The transport implements the abstract channel.                          *)
StatusOf(result) ==
  CASE result = "none"    -> "unused"
    [] result = "pending" -> "pending"
    [] result = "ok"      -> "ok"
    [] OTHER              -> "failed"

Channel == INSTANCE Rpc WITH
  Requests <- RequestIds,
  status   <- [i \in RequestIds |-> StatusOf(outcome[i])],
  served   <- served

(* Refinement: every request ends once, one at a time, in order, and       *)
(* succeeds only with the server's answer to itself (AppServerProcess      *)
(* against the contract its callers rely on).                              *)
ImplementsRpc == Channel!Spec
=============================================================================
