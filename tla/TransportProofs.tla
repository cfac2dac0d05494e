--------------------------- MODULE TransportProofs ---------------------------
(***************************************************************************)
(* Proofs about Transport: type correctness, the ownership of the active-  *)
(* request slot, the absence of failures caused by other requests, the     *)
(* implementation of the abstract channel Rpc, the lines of the server's   *)
(* stdin, and the answers to its requests.                                 *)
(***************************************************************************)
EXTENDS Transport, TLAPS

(* Taking the first message of a queue leaves a queue, and so does adding  *)
(* one at its end.                                                         *)
LEMMA HeadTail ==
  ASSUME NEW S, NEW q \in Seq(S), q # << >>
  PROVE  Head(q) \in S /\ Tail(q) \in Seq(S)
  OBVIOUS

(* Adding to a queue keeps it a queue.                                      *)
LEMMA AppendType ==
  ASSUME NEW S, NEW q \in Seq(S), NEW e \in S
  PROVE  Append(q, e) \in Seq(S)
  OBVIOUS

(* Updating one task, or only its phase, keeps the table of tasks typed.   *)
LEMMA TaskUpdate ==
  ASSUME task \in [Tasks -> TaskRecords], NEW t \in Tasks,
         NEW p \in Phases, NEW o \in Ops, NEW i \in Nat
  PROVE  [task EXCEPT ![t] = [phase |-> p, op |-> o, id |-> i]] \in [Tasks -> TaskRecords]
  BY DEF TaskRecords

(* And so does updating its phase alone.                                    *)
LEMMA PhaseUpdate ==
  ASSUME task \in [Tasks -> TaskRecords], NEW t \in Tasks, NEW p \in Phases
  PROVE  [task EXCEPT ![t].phase = p] \in [Tasks -> TaskRecords]
  BY DEF TaskRecords

(* Counting one more answer keeps the counts natural numbers.              *)
LEMMA AnswerCount ==
  ASSUME answers \in [ServerRequestIds -> Nat], NEW i
  PROVE  [answers EXCEPT ![i] = @ + 1] \in [ServerRequestIds -> Nat]
<1>1. ASSUME NEW r \in ServerRequestIds
      PROVE  [answers EXCEPT ![i] = @ + 1][r] \in Nat
  <2>1. answers[r] \in Nat
    OBVIOUS
  <2>2. [answers EXCEPT ![i] = @ + 1][r] = IF r = i THEN answers[i] + 1 ELSE answers[r]
    OBVIOUS
  <2> QED
    BY <2>1, <2>2
<1> QED
  BY <1>1

(* What Return leaves behind is well typed.                                *)
LEMMA ReturnType ==
  ASSUME TypeOK, NEW t \in Tasks, NEW result \in Outcomes, Return(t, result)
  PROVE  /\ task' \in [Tasks -> TaskRecords]
         /\ slot' \in [id : Nat, reject : BOOLEAN]
         /\ outcome' \in [RequestIds -> Outcomes]
<1>1. task' \in [Tasks -> TaskRecords]
  BY TaskUpdate DEF Return, TypeOK, Phases, Ops
<1>2. slot' \in [id : Nat, reject : BOOLEAN]
  BY DEF Return, SlotAfterDrop, NoRequest, TypeOK
<1>3. outcome' \in [RequestIds -> Outcomes]
  BY DEF Return, TypeOK
<1> QED
  BY <1>1, <1>2, <1>3

(* What a finished line leaves behind is well typed.                       *)
LEMMA FinishLineType ==
  ASSUME TypeOK, NEW w, NEW k \in {"request", "answer"}, NEW i \in Nat,
         FinishLine(w, Message(k, i))
  PROVE  /\ toServer' \in Seq(Lines)
         /\ stdinOwner' = None /\ pipe' = "empty" /\ cutShort' = cutShort
<1>1. Message(k, i) \in Lines /\ Message("garbled", 0) \in Lines
  BY DEF Message, Lines
<1> QED
  BY <1>1, AppendType DEF FinishLine, TypeOK

(* The initial state is well typed.                                        *)
LEMMA TypeInit == Init => TypeOK
  BY TransportAssumption DEF Init, TypeOK, NoRequest, NoReply, Idle, Message,
     Phases, Ops, TaskRecords, Outcomes

(* Every step of a task keeps the state well typed.                        *)
LEMMA TypeTask ==
  ASSUME TypeOK, NEW t \in Tasks, TaskStep(t)
  PROVE  TypeOK'
<1>1. CASE WantLock(t)
  BY ZenonT(60), <1>1, PhaseUpdate DEF WantLock, TypeOK, Phases, stdinVars, serverVars
<1>2. CASE Lock(t)
  BY <1>2, PhaseUpdate DEF Lock, TypeOK, Phases, stdinVars, serverVars
<1>3. CASE Unlock(t)
  BY <1>3, TaskUpdate DEF Unlock, Idle, TypeOK, Phases, Ops, stdinVars, serverVars
<1>4. ASSUME NEW op \in {"timed", "untimed"}, StartRequest(t, op)
      PROVE  TypeOK'
  <2>1. nextId' \in Nat \ {0}
    BY <1>4, TransportAssumption DEF StartRequest, NextRequestId, TypeOK
  <2>2. outcome' \in [RequestIds -> Outcomes]
    BY <1>4 DEF StartRequest, InstallRefused, InstallAccepted, TypeOK, Outcomes
  <2>3. CASE InstallRefused(t)
    BY <1>4, <2>1, <2>2, <2>3 DEF StartRequest, InstallRefused, TypeOK, stdinVars, serverVars
  <2>4. CASE InstallAccepted(t, op)
    <3>1. task' \in [Tasks -> TaskRecords]
      BY <2>4, TaskUpdate DEF InstallAccepted, Phases, Ops, TypeOK
    <3>2. slot' \in [id : Nat, reject : BOOLEAN]
          /\ reply' \in [kind : {"none", "failed", "response"}, id : Nat]
      BY <2>4 DEF InstallAccepted, NoReply, TypeOK
    <3> QED
      BY <1>4, <2>1, <2>2, <3>1, <3>2 DEF StartRequest, TypeOK, stdinVars, serverVars
  <2> QED
    BY <1>4, <2>3, <2>4 DEF StartRequest
<1>5. CASE StartAnswer(t)
  BY ZenonT(60), <1>5, PhaseUpdate DEF StartAnswer, TypeOK, Phases, stdinVars, serverVars
<1>6. CASE ReceiveReply(t)
  <2>1. ReplyResult(t) \in Outcomes
    BY DEF ReplyResult, Outcomes
  <2> QED
    BY <1>6, <2>1, ReturnType DEF ReceiveReply, TypeOK, stdinVars, serverVars
<1>7. CASE Timeout(t)
  <2>1. task' \in [Tasks -> TaskRecords] /\ slot' \in [id : Nat, reject : BOOLEAN]
        /\ outcome' \in [RequestIds -> Outcomes]
    BY <1>7, ReturnType DEF Timeout, Outcomes
  <2>2. task[t].id \in Nat
    BY DEF TypeOK, TaskRecords
  <2>3. stdinOwner' \in Tasks \cup {Reader, None} /\ pipe' \in {"empty", "line", "torn"}
        /\ cutShort' \subseteq Nat
    BY <1>7, <2>2 DEF Timeout, TypeOK
  <2> QED
    BY <1>7, <2>1, <2>3 DEF Timeout, TypeOK, serverVars
<1>8. CASE BeginWrite(t)
  BY <1>8 DEF BeginWrite, TakeStdin, TypeOK, clientVars, serverVars
<1>9. CASE EndRequestWrite(t)
  <2>1. task[t].id \in Nat
    BY DEF TypeOK, TaskRecords
  <2>2. task' \in [Tasks -> TaskRecords]
    BY <1>9, PhaseUpdate DEF EndRequestWrite, TypeOK, Phases
  <2>3. toServer' \in Seq(Lines) /\ stdinOwner' = None /\ pipe' = "empty" /\ cutShort' = cutShort
    BY <1>9, <2>1, FinishLineType DEF EndRequestWrite
  <2> QED
    BY <1>9, <2>2, <2>3 DEF EndRequestWrite, TypeOK, serverVars
<1>10. CASE EndAnswerWrite(t)
  <2>1. task[t].id \in Nat
    BY DEF TypeOK, TaskRecords
  <2>2. task' \in [Tasks -> TaskRecords]
    BY <1>10, TaskUpdate DEF EndAnswerWrite, TypeOK, Phases, Ops
  <2>3. toServer' \in Seq(Lines) /\ stdinOwner' = None /\ pipe' = "empty" /\ cutShort' = cutShort
    BY <1>10, <2>1, FinishLineType DEF EndAnswerWrite
  <2>4. answers' \in [ServerRequestIds -> Nat]
    BY <1>10, AnswerCount DEF EndAnswerWrite, TypeOK
  <2> QED
    BY <1>10, <2>2, <2>3, <2>4 DEF EndAnswerWrite, TypeOK, serverVars
<1>11. CASE WriteFails(t)
  <2>1. task' \in [Tasks -> TaskRecords] /\ slot' \in [id : Nat, reject : BOOLEAN]
        /\ outcome' \in [RequestIds -> Outcomes]
    <3>1. CASE task[t].op = "answer"
      <4>1. "locked" \in Phases /\ "none" \in Ops /\ 0 \in Nat
        BY DEF Phases, Ops
      <4>2. task' = [task EXCEPT ![t] = [phase |-> "locked", op |-> "none", id |-> 0]]
            /\ slot' = slot /\ outcome' = outcome
        BY <1>11, <3>1 DEF WriteFails
      <4> QED
        BY <4>1, <4>2, TaskUpdate DEF TypeOK
    <3>2. CASE task[t].op # "answer"
      BY <1>11, <3>2, ReturnType DEF WriteFails, Outcomes
    <3> QED
      BY <3>1, <3>2
  <2> QED
    BY <1>11, <2>1 DEF WriteFails, TypeOK, serverVars
<1>12. CASE Recv(t)
  <2>1. Head(inbox) \in Messages /\ inbox' \in Seq(Messages)
    BY <1>12, HeadTail DEF Recv, TypeOK
  <2>2. task' \in [Tasks -> TaskRecords]
    <3>1. "waiting" \in Phases /\ "answer" \in Ops /\ Head(inbox).id \in Nat
      BY <2>1 DEF Phases, Ops, Messages
    <3>2. \/ task' = task
          \/ task' = [task EXCEPT ![t] =
                        [phase |-> "waiting", op |-> "answer", id |-> Head(inbox).id]]
      BY <1>12 DEF Recv
    <3> QED
      BY <3>1, <3>2, TaskUpdate DEF TypeOK
  <2> QED
    BY <1>12, <2>1, <2>2 DEF Recv, TypeOK, stdinVars, serverVars
<1> QED
  BY <1>1, <1>2, <1>3, <1>4, <1>5, <1>6, <1>7, <1>8, <1>9, <1>10, <1>11, <1>12
  DEF TaskStep

(* Every step of the reader keeps the state well typed.                    *)
LEMMA TypeReader ==
  ASSUME TypeOK, ReaderStep
  PROVE  TypeOK'
<1> DEFINE Error == Message("error", 0)
<1>1. Error \in Messages
  BY DEF Message, Messages
<1>2. ASSUME EndReader
      PROVE  /\ reader' \in [kind : {"running", "rejecting", "ended"}, id : Nat]
             /\ inbox' \in Seq(Messages)
             /\ slot' \in [id : Nat, reject : BOOLEAN]
             /\ reply' \in [kind : {"none", "failed", "response"}, id : Nat]
  <2>1. inbox' \in Seq(Messages)
    BY <1>1, <1>2, AppendType DEF EndReader, TypeOK
  <2>2. reader' \in [kind : {"running", "rejecting", "ended"}, id : Nat]
        /\ slot' \in [id : Nat, reject : BOOLEAN]
    BY <1>2 DEF EndReader, Message, NoRequest
  <2>3. reply' \in [kind : {"none", "failed", "response"}, id : Nat]
    BY <1>2 DEF EndReader, Message, TypeOK
  <2> QED
    BY <2>1, <2>2, <2>3
<1>4. ASSUME toClient # << >>
      PROVE  Head(toClient) \in Messages /\ Tail(toClient) \in Seq(Messages)
  BY <1>4, HeadTail DEF TypeOK
<1>3. CASE ReadFails
  <2>1. toClient' \in Seq(Messages)
    BY <1>3, <1>4 DEF ReadFails, TypeOK
  <2> QED
    BY <1>2, <1>3, <2>1 DEF ReadFails, TypeOK, stdinVars, serverVars
<1>5. CASE DeliverResponse
  <2>1. reply' \in [kind : {"none", "failed", "response"}, id : Nat]
    BY <1>4, <1>5 DEF DeliverResponse, AnswersActiveRequest, Messages
  <2>2. slot' \in [id : Nat, reject : BOOLEAN]
    BY <1>5 DEF DeliverResponse, NoRequest
  <2> QED
    BY <1>4, <1>5, <2>1, <2>2 DEF DeliverResponse, TypeOK, stdinVars, serverVars
<1>6. CASE RejectStartupRequest
  <2>1. reader' \in [kind : {"running", "rejecting", "ended"}, id : Nat]
    BY <1>4, <1>6 DEF RejectStartupRequest, Message, Messages
  <2> QED
    BY <1>4, <1>6, <2>1 DEF RejectStartupRequest, TypeOK, clientVars, stdinVars, serverVars
<1>7. CASE BeginRejection
  BY <1>7 DEF BeginRejection, TakeStdin, TypeOK, clientVars, serverVars
<1>8. CASE EndRejection
  <2>1. toServer' \in Seq(Lines) /\ stdinOwner' = None /\ pipe' = "empty" /\ cutShort' = cutShort
    BY <1>8, FinishLineType DEF EndRejection, TypeOK
  <2>2. answers' \in [ServerRequestIds -> Nat]
    BY <1>8, AnswerCount DEF EndRejection, TypeOK
  <2>3. reader' \in [kind : {"running", "rejecting", "ended"}, id : Nat]
    BY <1>8 DEF EndRejection, Message
  <2> QED
    BY <1>8, <2>1, <2>2, <2>3 DEF EndRejection, TypeOK, clientVars, serverVars
<1>9. CASE RejectionFails
  BY <1>2, <1>9 DEF RejectionFails, TypeOK, serverVars
<1>10. CASE Forward
  <2>1. inbox' \in Seq(Messages)
    BY <1>4, <1>10, AppendType DEF Forward, TypeOK
  <2> QED
    BY <1>4, <1>10, <2>1 DEF Forward, TypeOK, clientVars, stdinVars, serverVars
<1> QED
  BY <1>3, <1>5, <1>6, <1>7, <1>8, <1>9, <1>10 DEF ReaderStep

(* What the child says is a message.                                       *)
LEMMA SayType ==
  ASSUME TypeOK, NEW m \in Messages, Say(m)
  PROVE  toClient' \in Seq(Messages)
  BY AppendType DEF Say, TypeOK

(* Every step of the child keeps the state well typed.                     *)
LEMMA TypeServer ==
  ASSUME TypeOK, ServerStep
  PROVE  TypeOK'
<1>1. CASE ServerRead
  <2>1. Head(toServer) \in Lines /\ Tail(toServer) \in Seq(Lines)
    BY <1>1, HeadTail DEF ServerRead, TypeOK
  <2>2. accepted' \subseteq Nat
    BY <1>1, <2>1 DEF ServerRead, Lines, TypeOK
  <2> QED
    BY <1>1, <2>1, <2>2 DEF ServerRead, TypeOK, clientVars
<1>2. CASE ServerNotify
  <2>1. Message("notification", 0) \in Messages
    BY DEF Message, Messages
  <2>2. toClient' \in Seq(Messages)
    BY <1>2, <2>1, SayType DEF ServerNotify
  <2> QED
    BY <1>2, <2>2 DEF ServerNotify, Say, TypeOK, clientVars, stdinVars
<1>3. CASE ServerBabble
  <2>1. Message("unreadable", 0) \in Messages
    BY DEF Message, Messages
  <2>2. toClient' \in Seq(Messages)
    BY <1>3, <2>1, SayType DEF ServerBabble
  <2> QED
    BY <1>3, <2>2 DEF ServerBabble, Say, TypeOK, clientVars, stdinVars
<1>4. ASSUME NEW i \in RequestIds, ServerRespond(i)
      PROVE  TypeOK'
  <2>1. i \in Nat /\ Message("response", i) \in Messages
    BY TransportAssumption DEF RequestIds, Message, Messages
  <2>2. toClient' \in Seq(Messages)
    BY <1>4, <2>1, SayType DEF ServerRespond
  <2> QED
    BY <1>4, <2>1, <2>2 DEF ServerRespond, Say, TypeOK, clientVars, stdinVars
<1>5. ASSUME NEW kind \in {"request", "startupRequest"}, ServerAsk(kind)
      PROVE  TypeOK'
  <2>1. asked + 1 \in Nat
    BY DEF TypeOK
  <2>2. Message(kind, asked + 1) \in Messages
    BY <2>1 DEF Message, Messages
  <2>3. toClient' \in Seq(Messages)
    BY <1>5, <2>2, SayType DEF ServerAsk
  <2> QED
    BY <1>5, <2>1, <2>3 DEF ServerAsk, Say, TypeOK, clientVars, stdinVars
<1>6. ASSUME NEW how \in {"mute", "exited"}, ServerStops(how)
      PROVE  TypeOK'
  BY <1>6 DEF ServerStops, TypeOK, clientVars, stdinVars
<1> QED
  BY <1>1, <1>2, <1>3, <1>4, <1>5, <1>6 DEF ServerStep

(* Type correctness of the transport's state, for any number of tasks,     *)
(* requests and messages.                                                  *)
THEOREM TypeCorrect == Spec => []TypeOK
<1>1. TypeOK /\ [Next]_vars => TypeOK'
  <2> SUFFICES ASSUME TypeOK, [Next]_vars PROVE TypeOK'
    OBVIOUS
  <2>1. CASE UNCHANGED vars
    BY <2>1 DEF TypeOK, vars, clientVars, stdinVars, serverVars
  <2> QED
    BY <2>1, TypeTask, TypeReader, TypeServer DEF Next
<1> QED
  BY <1>1, TypeInit, PTL DEF Spec
-----------------------------------------------------------------------------
(* The inductive invariant behind the safety theorems.                     *)

\* What a task may be doing in each phase.
PhaseOps ==
  \A t \in Tasks :
    /\ task[t].phase = "idle" => task[t].op = "none"
    /\ task[t].phase \in {"waiting", "locked"} => task[t].op \in {"none", "answer"}
    /\ task[t].phase = "writing" => task[t].op # "none"
    /\ task[t].phase = "awaiting" => task[t].op \in {"timed", "untimed"}

\* A task is past Lock and before Unlock exactly when it holds the app lock.
LockHeld ==
  \A t \in Tasks : (task[t].phase \in {"locked", "writing", "awaiting"}) <=> (appLock = t)

\* The task has a request of its own in progress.
Requesting(t) == task[t].op \in {"timed", "untimed"}

\* The request in progress is the last one issued, and it is pending.
RequestIssued ==
  \A t \in Tasks :
    Requesting(t) => /\ task[t].id \in RequestIds
                     /\ task[t].id + 1 = nextId
                     /\ outcome[task[t].id] = "pending"

\* Ids are issued in order, and a pending one is in progress.
IdsInOrder ==
  \A i \in RequestIds :
    /\ outcome[i] = "none" <=> nextId <= i
    /\ outcome[i] = "pending" => \E t \in Tasks : Requesting(t) /\ task[t].id = i

\* The slot and the oneshot belong to the request in progress.
SlotOwned ==
  slot # NoRequest =>
    \E t \in Tasks : /\ Requesting(t)
                     /\ task[t].id = slot.id
                     /\ slot.reject <=> task[t].op = "timed"

ReplyOwned ==
  reply # NoReply => /\ reply.kind # "none"
                     /\ \A t \in Tasks : Requesting(t) => reply.id = task[t].id

\* Every answer on its way was given by the server to an issued request.
Issued(i) == i \in RequestIds /\ outcome[i] # "none"

AnswersGenuine ==
  /\ \A n \in 1..Len(toServer) : toServer[n].kind = "request" => Issued(toServer[n].id)
  /\ \A i \in accepted \cup served : Issued(i)
  /\ \A n \in 1..Len(toClient) : toClient[n].kind = "response" => toClient[n].id \in served
  /\ reply.kind = "response" => reply.id \in served

SlotInv == /\ TypeOK /\ PhaseOps /\ LockHeld /\ RequestIssued /\ IdsInOrder
           /\ SlotOwned /\ ReplyOwned /\ NoSpuriousFailure

IInv == SlotInv /\ AnswersGenuine

(* The initial state satisfies the invariant.                              *)
LEMMA InvInit == Init => IInv
<1> SUFFICES ASSUME Init PROVE IInv
  OBVIOUS
<1>1. TypeOK
  BY TypeInit
<1>2. PhaseOps /\ LockHeld /\ RequestIssued /\ SlotOwned /\ ReplyOwned /\ NoSpuriousFailure
  BY TransportAssumption
  DEF Init, PhaseOps, LockHeld, RequestIssued, Requesting, SlotOwned, ReplyOwned,
      NoSpuriousFailure, Idle
<1>3. IdsInOrder
  BY TransportAssumption DEF Init, IdsInOrder, RequestIds
<1>4. AnswersGenuine
  BY DEF Init, AnswersGenuine, NoReply
<1> QED
  BY <1>1, <1>2, <1>3, <1>4 DEF IInv, SlotInv

(* A step of one task that issues and ends no request.                     *)
LEMMA QuietTaskStep ==
  ASSUME SlotInv, NEW t \in Tasks,
         \/ WantLock(t) \/ Lock(t) \/ Unlock(t) \/ StartAnswer(t) \/ BeginWrite(t)
         \/ EndRequestWrite(t) \/ EndAnswerWrite(t) \/ Recv(t)
         \/ WriteFails(t) /\ task[t].op = "answer"
  PROVE  /\ PhaseOps' /\ LockHeld' /\ RequestIssued' /\ IdsInOrder'
         /\ SlotOwned' /\ ReplyOwned' /\ NoSpuriousFailure'
<1>1. task \in [Tasks -> TaskRecords]
  BY DEF SlotInv, TypeOK
<1>2. UNCHANGED <<slot, reply, nextId, outcome>>
  BY DEF WantLock, Lock, Unlock, StartAnswer, BeginWrite, EndRequestWrite, EndAnswerWrite,
     Recv, WriteFails, clientVars
<1>3. \A u \in Tasks : u # t => task'[u] = task[u]
  BY <1>1 DEF WantLock, Lock, Unlock, StartAnswer, BeginWrite, EndRequestWrite,
     EndAnswerWrite, Recv, WriteFails, clientVars
<1>4. /\ Requesting(t) <=> Requesting(t)'
      /\ Requesting(t) => task'[t].id = task[t].id /\ task'[t].op = task[t].op
  BY <1>1 DEF WantLock, Lock, Unlock, StartAnswer, BeginWrite, EndRequestWrite,
     EndAnswerWrite, Recv, WriteFails, clientVars, Requesting, SlotInv, PhaseOps, Idle, TaskRecords
<1>5. PhaseOps'
  <2>1. /\ task'[t].phase = "idle" => task'[t].op = "none"
        /\ task'[t].phase \in {"waiting", "locked"} => task'[t].op \in {"none", "answer"}
        /\ task'[t].phase = "writing" => task'[t].op # "none"
        /\ task'[t].phase = "awaiting" => task'[t].op \in {"timed", "untimed"}
    BY <1>1 DEF WantLock, Lock, Unlock, StartAnswer, BeginWrite, EndRequestWrite,
       EndAnswerWrite, Recv, WriteFails, clientVars, SlotInv, PhaseOps, Idle, TaskRecords, TypeOK, Ops
  <2> QED
    BY <1>3, <2>1 DEF SlotInv, PhaseOps
<1>9. LockHeld'
  <2>1. CASE Lock(t)
    BY <1>1, <1>3, <2>1, TransportAssumption DEF Lock, SlotInv, LockHeld, TaskRecords
  <2>2. CASE Unlock(t)
    BY <1>1, <1>3, <2>2, TransportAssumption DEF Unlock, Idle, SlotInv, LockHeld, TaskRecords
  <2>3. CASE ~Lock(t) /\ ~Unlock(t)
    <3>1. appLock' = appLock
      BY <2>3 DEF WantLock, StartAnswer, BeginWrite, EndRequestWrite, EndAnswerWrite, Recv,
         WriteFails, clientVars
    <3>2. task'[t].phase \in {"locked", "writing", "awaiting"}
            <=> task[t].phase \in {"locked", "writing", "awaiting"}
      BY <1>1, <2>3 DEF WantLock, StartAnswer, BeginWrite, EndRequestWrite, EndAnswerWrite,
         Recv, WriteFails, clientVars, TaskRecords
    <3> QED
      BY <1>3, <3>1, <3>2 DEF SlotInv, LockHeld
  <2> QED
    BY <2>1, <2>2, <2>3
<1>6. \A u \in Tasks : /\ Requesting(u) <=> Requesting(u)'
                       /\ Requesting(u) => task'[u].id = task[u].id /\ task'[u].op = task[u].op
  BY <1>3, <1>4 DEF Requesting
<1>7. RequestIssued' /\ IdsInOrder'
  BY <1>2, <1>6 DEF SlotInv, RequestIssued, IdsInOrder
<1>8. SlotOwned' /\ ReplyOwned'
  BY <1>2, <1>6 DEF SlotInv, SlotOwned, ReplyOwned
<1> QED
  BY <1>2, <1>5, <1>7, <1>8, <1>9 DEF SlotInv, NoSpuriousFailure

(* Issuing a request: no other one is in progress, so the slot is free.    *)
LEMMA SlotFreeWhenLocked ==
  ASSUME SlotInv, NEW t \in Tasks, task[t].phase = "locked"
  PROVE  slot = NoRequest /\ \A u \in Tasks : ~Requesting(u)
<1>1. task[t].op \in {"none", "answer"} /\ appLock = t
  BY DEF SlotInv, PhaseOps, LockHeld
<1>2. ASSUME NEW u \in Tasks, Requesting(u) PROVE FALSE
  <2>1. task[u].phase \in {"writing", "awaiting"}
    BY <1>2 DEF SlotInv, TypeOK, TaskRecords, Phases, PhaseOps, Requesting
  <2>2. u = t
    BY <1>1, <2>1 DEF SlotInv, LockHeld
  <2> QED
    BY <1>1, <1>2, <2>2 DEF Requesting
<1> QED
  BY <1>2 DEF SlotInv, SlotOwned

(* A request that is issued finds the slot free and becomes the last one.   *)
LEMMA IssueStep ==
  ASSUME SlotInv, NEW t \in Tasks, NEW op \in {"timed", "untimed"}, StartRequest(t, op)
  PROVE  /\ PhaseOps' /\ LockHeld' /\ RequestIssued' /\ IdsInOrder'
         /\ SlotOwned' /\ ReplyOwned' /\ NoSpuriousFailure'
<1>1. slot = NoRequest /\ \A u \in Tasks : ~Requesting(u)
  BY SlotFreeWhenLocked DEF StartRequest
<1>2. InstallAccepted(t, op) /\ nextId' = nextId + 1 /\ appLock' = appLock
  BY <1>1 DEF StartRequest, InstallRefused, NextRequestId
<1>3. task \in [Tasks -> TaskRecords] /\ outcome \in [RequestIds -> Outcomes] /\ nextId \in Nat
  BY DEF SlotInv, TypeOK
<1>4. \A u \in Tasks : u # t => task'[u] = task[u]
  BY <1>2, <1>3 DEF InstallAccepted
<1>5. task'[t] = [phase |-> "writing", op |-> op, id |-> nextId]
  BY <1>2, <1>3 DEF InstallAccepted
<1>6. nextId \in RequestIds /\ outcome' = [outcome EXCEPT ![nextId] = "pending"]
      /\ reply' = NoReply /\ slot' = [id |-> nextId, reject |-> op = "timed"]
  BY <1>2 DEF InstallAccepted, StartRequest
<1>7. PhaseOps'
  BY <1>4, <1>5 DEF SlotInv, PhaseOps
<1>8. LockHeld'
  BY <1>2, <1>4, <1>5 DEF SlotInv, LockHeld, StartRequest
<1>9. RequestIssued'
  BY <1>1, <1>2, <1>3, <1>4, <1>5, <1>6 DEF RequestIssued, Requesting
<1>10. IdsInOrder'
  <2> SUFFICES ASSUME NEW i \in RequestIds
               PROVE  /\ outcome'[i] = "none" <=> nextId' <= i
                      /\ outcome'[i] = "pending"
                           => \E u \in Tasks : Requesting(u)' /\ task'[u].id = i
    BY DEF IdsInOrder
  <2>1. CASE i = nextId
    BY <1>2, <1>3, <1>5, <1>6, <2>1 DEF Requesting
  <2>2. CASE i # nextId
    <3>1. outcome'[i] = outcome[i] /\ i \in Nat
      BY <1>3, <1>6, <2>2, TransportAssumption DEF RequestIds
    <3> QED
      BY <1>1, <1>2, <1>3, <2>2, <3>1 DEF SlotInv, IdsInOrder
  <2> QED
    BY <2>1, <2>2
<1>11. SlotOwned' /\ ReplyOwned'
  <2>1. slot'.id = nextId /\ (slot'.reject <=> op = "timed")
    BY <1>6
  <2>2. Requesting(t)' /\ task'[t].id = nextId /\ task'[t].op = op
    BY <1>5 DEF Requesting
  <2>3. SlotOwned'
    BY <2>1, <2>2 DEF SlotOwned
  <2>4. ReplyOwned'
    BY <1>6 DEF ReplyOwned
  <2> QED
    BY <2>3, <2>4
<1>12. NoSpuriousFailure'
  BY <1>3, <1>6 DEF SlotInv, NoSpuriousFailure
<1> QED
  BY <1>7, <1>8, <1>9, <1>10, <1>11, <1>12

(* Ending the request in progress frees the slot and settles its outcome.  *)
LEMMA ReturnStep ==
  ASSUME SlotInv, NEW t \in Tasks, Requesting(t), NEW result \in {"ok", "timeout", "error"},
         Return(t, result), UNCHANGED <<appLock, nextId, reply>>
  PROVE  /\ PhaseOps' /\ LockHeld' /\ RequestIssued' /\ IdsInOrder'
         /\ SlotOwned' /\ ReplyOwned' /\ NoSpuriousFailure'
<1>1. task \in [Tasks -> TaskRecords] /\ outcome \in [RequestIds -> Outcomes] /\ nextId \in Nat
      /\ task[t].phase \in {"writing", "awaiting"}
  BY DEF SlotInv, TypeOK, TaskRecords, Phases, PhaseOps, Requesting
<1>2. \A u \in Tasks : u # t => task'[u] = task[u]
  BY <1>1 DEF Return
<1>3. task'[t] = [phase |-> "locked", op |-> "none", id |-> 0]
  BY <1>1 DEF Return
<1>4. \A u \in Tasks : u # t => ~Requesting(u)
  <2> SUFFICES ASSUME NEW u \in Tasks, Requesting(u) PROVE u = t
    OBVIOUS
  <2>1. task[u].phase \in {"writing", "awaiting"}
    BY DEF SlotInv, TypeOK, TaskRecords, Phases, PhaseOps, Requesting
  <2> QED
    BY <1>1, <2>1 DEF SlotInv, LockHeld
<1>5. \A u \in Tasks : ~Requesting(u)'
  BY <1>2, <1>3, <1>4 DEF Requesting
<1>6. PhaseOps' /\ LockHeld'
  BY <1>1, <1>2, <1>3 DEF SlotInv, PhaseOps, LockHeld
<1>7. RequestIssued' /\ ReplyOwned'
  BY <1>5 DEF SlotInv, RequestIssued, ReplyOwned
<1>8. slot' = NoRequest
  BY <1>4 DEF SlotInv, SlotOwned, Return, SlotAfterDrop
<1>9. SlotOwned'
  BY <1>8 DEF SlotOwned
<1>10. task[t].id \in RequestIds /\ outcome[task[t].id] = "pending"
       /\ outcome' = [outcome EXCEPT ![task[t].id] = result]
  BY DEF SlotInv, RequestIssued, Return
<1>11. IdsInOrder'
  BY <1>1, <1>4, <1>10 DEF SlotInv, IdsInOrder
<1>12. NoSpuriousFailure'
  BY <1>1, <1>10 DEF SlotInv, NoSpuriousFailure
<1> QED
  BY <1>6, <1>7, <1>9, <1>11, <1>12

(* Every step of a task preserves the invariant.                           *)
LEMMA SlotInvTask ==
  ASSUME SlotInv, NEW t \in Tasks, TaskStep(t)
  PROVE  SlotInv'
<1>1. TypeOK'
  BY TypeTask DEF SlotInv
<1> SUFFICES /\ PhaseOps' /\ LockHeld' /\ RequestIssued' /\ IdsInOrder'
             /\ SlotOwned' /\ ReplyOwned' /\ NoSpuriousFailure'
  BY <1>1 DEF SlotInv
<1>2. CASE \/ WantLock(t) \/ Lock(t) \/ Unlock(t) \/ StartAnswer(t) \/ BeginWrite(t)
           \/ EndRequestWrite(t) \/ EndAnswerWrite(t) \/ Recv(t)
           \/ WriteFails(t) /\ task[t].op = "answer"
  BY <1>2, QuietTaskStep
<1>3. CASE \E op \in {"timed", "untimed"} : StartRequest(t, op)
  BY <1>3, IssueStep
<1>4. CASE ReceiveReply(t)
  <2>1. Requesting(t) /\ reply # NoReply
    BY <1>4 DEF ReceiveReply, SlotInv, PhaseOps, Requesting
  <2>2. ReplyResult(t) \in {"ok", "timeout", "error"}
    BY <2>1 DEF ReplyResult, SlotInv, ReplyOwned
  <2> QED
    BY <1>4, <2>1, <2>2, ReturnStep DEF ReceiveReply
<1>5. CASE Timeout(t)
  BY <1>5, ReturnStep DEF Timeout, TimerRuns, Requesting
<1>6. CASE WriteFails(t) /\ task[t].op # "answer"
  <2>1. Requesting(t)
    BY <1>6 DEF WriteFails, SlotInv, TypeOK, TaskRecords, Ops, PhaseOps, Requesting
  <2> QED
    BY <1>6, <2>1, ReturnStep DEF WriteFails
<1> QED
  BY <1>2, <1>3, <1>4, <1>5, <1>6 DEF TaskStep

(* Every step of the reader preserves the invariant.                       *)
LEMMA SlotInvReader ==
  ASSUME SlotInv, ReaderStep
  PROVE  SlotInv'
<1>1. TypeOK'
  BY TypeReader DEF SlotInv
<1>2. UNCHANGED <<appLock, task, nextId, outcome>>
  BY DEF ReaderStep, ReadFails, DeliverResponse, RejectStartupRequest, BeginRejection,
     EndRejection, RejectionFails, Forward, clientVars
<1>3. PhaseOps' /\ LockHeld' /\ RequestIssued' /\ IdsInOrder' /\ NoSpuriousFailure'
  BY <1>2 DEF SlotInv, PhaseOps, LockHeld, RequestIssued, IdsInOrder, NoSpuriousFailure,
     Requesting
<1>4. SlotOwned'
  <2>1. slot' = slot \/ slot' = NoRequest
    BY DEF ReaderStep, ReadFails, DeliverResponse, RejectStartupRequest, BeginRejection,
       EndRejection, RejectionFails, Forward, EndReader, clientVars
  <2> QED
    BY <1>2, <2>1 DEF SlotInv, SlotOwned, Requesting
<1>5. ReplyOwned'
  <2>1. \/ reply' = reply
        \/ slot # NoRequest /\ reply'.id = slot.id /\ reply'.kind # "none"
    BY DEF ReaderStep, ReadFails, DeliverResponse, RejectStartupRequest, BeginRejection,
       EndRejection, RejectionFails, Forward, EndReader, clientVars, AnswersActiveRequest,
       Message
  <2>2. \A u, v \in Tasks : Requesting(u) /\ Requesting(v) => u = v
    BY DEF SlotInv, TypeOK, TaskRecords, Phases, PhaseOps, Requesting, LockHeld
  <2> QED
    BY <1>2, <2>1, <2>2 DEF SlotInv, SlotOwned, ReplyOwned, Requesting
<1> QED
  BY <1>1, <1>3, <1>4, <1>5 DEF SlotInv

(* The steps of the child do not touch the state of the callers.           *)
LEMMA SlotInvServer ==
  ASSUME SlotInv, ServerStep
  PROVE  SlotInv'
<1>1. TypeOK'
  BY TypeServer DEF SlotInv
<1>2. UNCHANGED <<appLock, task, nextId, reply, outcome, slot>>
  BY DEF ServerStep, ServerRead, ServerNotify, ServerBabble, ServerRespond, ServerAsk,
     ServerStops, Say, clientVars
<1> QED
  BY <1>1, <1>2 DEF SlotInv, PhaseOps, LockHeld, RequestIssued, IdsInOrder, SlotOwned,
     ReplyOwned, NoSpuriousFailure, Requesting

(* The slot is owned by the request of whoever holds the app lock, whose    *)
(* phase and id fit: the inductive invariant behind the two theorems below. *)
THEOREM SlotInvariant == Spec => []SlotInv
<1>1. Init => SlotInv
  BY InvInit DEF IInv
<1>2. SlotInv /\ [Next]_vars => SlotInv'
  <2> SUFFICES ASSUME SlotInv, [Next]_vars PROVE SlotInv'
    OBVIOUS
  <2>1. CASE UNCHANGED vars
    <3>1. TypeOK'
      BY <2>1 DEF SlotInv, TypeOK, vars, clientVars, stdinVars, serverVars
    <3> QED
      BY <2>1, <3>1 DEF vars, clientVars, SlotInv, PhaseOps, LockHeld, RequestIssued,
         IdsInOrder, SlotOwned, ReplyOwned, NoSpuriousFailure, Requesting
  <2> QED
    BY <2>1, SlotInvTask, SlotInvReader, SlotInvServer DEF Next
<1> QED
  BY <1>1, <1>2, PTL DEF Spec

(* No request ever fails because of another one, for any number of callers *)
(* and requests, and whatever the child answers late.                      *)
THEOREM RequestsDoNotInterfere == Spec => []NoSpuriousFailure
<1>1. SlotInv => NoSpuriousFailure
  BY DEF SlotInv
<1> QED
  BY <1>1, SlotInvariant, PTL

(* A busy slot always belongs to the waiting request of the lock holder.   *)
THEOREM SlotOwnership == Spec => []SlotBelongsToLockHolder
<1>1. SlotInv => SlotBelongsToLockHolder
  <2> SUFFICES ASSUME SlotInv, slot # NoRequest
               PROVE  \E t \in Tasks : /\ appLock = t
                                       /\ task[t].phase \in {"writing", "awaiting"}
                                       /\ task[t].id = slot.id
                                       /\ slot.reject <=> task[t].op = "timed"
    BY DEF SlotBelongsToLockHolder
  <2>1. PICK t \in Tasks : /\ Requesting(t)
                           /\ task[t].id = slot.id
                           /\ slot.reject <=> task[t].op = "timed"
    BY DEF SlotInv, SlotOwned
  <2>2. task[t].phase \in {"writing", "awaiting"}
    BY <2>1 DEF SlotInv, TypeOK, TaskRecords, Phases, PhaseOps, Requesting
  <2>3. appLock = t
    BY <2>2 DEF SlotInv, LockHeld
  <2> QED
    BY <2>1, <2>2, <2>3
<1> QED
  BY <1>1, SlotInvariant, PTL

-----------------------------------------------------------------------------
(* The transport implements Rpc.                                           *)

(* Appending an element, or taking the first, keeps what holds of all the  *)
(* elements of a queue.                                                    *)
LEMMA AppendAll ==
  ASSUME NEW S, NEW q \in Seq(S), NEW e \in S, NEW G \in SUBSET S,
         \A n \in 1..Len(q) : q[n] \in G, e \in G
  PROVE  \A n \in 1..Len(Append(q, e)) : Append(q, e)[n] \in G
  OBVIOUS

(* Taking the first message of a queue keeps what holds of all of them.     *)
LEMMA TailAll ==
  ASSUME NEW S, NEW q \in Seq(S), q # << >>, NEW G \in SUBSET S,
         \A n \in 1..Len(q) : q[n] \in G
  PROVE  Head(q) \in G /\ \A n \in 1..Len(Tail(q)) : Tail(q)[n] \in G
  OBVIOUS

\* The lines and messages AnswersGenuine allows.
GenuineLines    == {l \in Lines : l.kind = "request" => Issued(l.id)}
GenuineMessages == {m \in Messages : m.kind = "response" => m.id \in served}

(* AnswersGenuine is a statement about single lines and messages.           *)
LEMMA GenuineQueues ==
  ASSUME TypeOK
  PROVE  AnswersGenuine <=>
           /\ \A n \in 1..Len(toServer) : toServer[n] \in GenuineLines
           /\ \A i \in accepted \cup served : Issued(i)
           /\ \A n \in 1..Len(toClient) : toClient[n] \in GenuineMessages
           /\ reply.kind = "response" => reply.id \in served
<1>1. /\ \A n \in 1..Len(toServer) : toServer[n] \in Lines
      /\ \A n \in 1..Len(toClient) : toClient[n] \in Messages
  BY DEF TypeOK
<1> QED
  BY <1>1 DEF AnswersGenuine, GenuineLines, GenuineMessages

(* An issued request stays issued.                                         *)
LEMMA IssuedStable ==
  ASSUME SlotInv, Next
  PROVE  \A i : Issued(i) => Issued(i)'
<1>1. outcome \in [RequestIds -> Outcomes]
  BY DEF SlotInv, TypeOK
<1>2. \/ outcome' = outcome
      \/ \E i \in RequestIds, r \in {"pending", "ok", "timeout", "error", "unexpected", "concurrent"} :
            outcome' = [outcome EXCEPT ![i] = r]
  <2>1. ASSUME NEW t \in Tasks, TaskStep(t)
        PROVE  \/ outcome' = outcome
               \/ \E i, r : /\ r \in {"pending", "ok", "timeout", "error", "unexpected", "concurrent"}
                            /\ outcome' = [outcome EXCEPT ![i] = r]
    <3>1. CASE \E op \in {"timed", "untimed"} : StartRequest(t, op)
      BY <3>1 DEF StartRequest, InstallRefused, InstallAccepted
    <3>2. CASE ReceiveReply(t)
      BY <3>2 DEF ReceiveReply, ReplyResult, Return
    <3>3. CASE Timeout(t) \/ WriteFails(t)
      BY <3>3 DEF Timeout, WriteFails, Return
    <3> QED
      BY <2>1, <3>1, <3>2, <3>3 DEF TaskStep, WantLock, Lock, Unlock, StartAnswer, BeginWrite,
         EndRequestWrite, EndAnswerWrite, Recv, clientVars
  <2>2. CASE ReaderStep \/ ServerStep
    BY <2>2 DEF ReaderStep, ReadFails, DeliverResponse, RejectStartupRequest, BeginRejection,
       EndRejection, RejectionFails, Forward, clientVars, ServerStep, ServerRead, ServerNotify,
       ServerBabble, ServerRespond, ServerAsk, ServerStops, Say
  <2> QED
    BY <1>1, <2>1, <2>2 DEF Next
<1> QED
  BY <1>1, <1>2 DEF Issued

(* Every step keeps the answers on their way genuine.                      *)
LEMMA GenuineStep ==
  ASSUME IInv, Next
  PROVE  AnswersGenuine'
<1>1. TypeOK /\ SlotInv /\ AnswersGenuine
  BY DEF IInv, SlotInv
<1>2. TypeOK'
  BY <1>1, TypeTask, TypeReader, TypeServer DEF Next
<1>3. \A i : Issued(i) => Issued(i)'
  BY <1>1, IssuedStable
<1>4. /\ \A n \in 1..Len(toServer) : toServer[n] \in GenuineLines
      /\ \A i \in accepted \cup served : Issued(i)
      /\ \A n \in 1..Len(toClient) : toClient[n] \in GenuineMessages
      /\ reply.kind = "response" => reply.id \in served
  BY <1>1, GenuineQueues
<1>5. served \subseteq served'
  BY DEF Next, TaskStep, WantLock, Lock, Unlock, StartRequest, StartAnswer, ReceiveReply,
     Timeout, BeginWrite, EndRequestWrite, EndAnswerWrite, WriteFails, Recv, ReaderStep,
     ReadFails, DeliverResponse, RejectStartupRequest, BeginRejection, EndRejection,
     RejectionFails, Forward, ServerStep, ServerRead, ServerNotify, ServerBabble,
     ServerRespond, ServerAsk, ServerStops, Say, serverVars
<1>6. GenuineLines \subseteq GenuineLines' /\ GenuineMessages \subseteq GenuineMessages'
  BY <1>3, <1>5 DEF GenuineLines, GenuineMessages
<1>7. GenuineLines \in SUBSET Lines /\ GenuineMessages \in SUBSET Messages
  BY DEF GenuineLines, GenuineMessages
<1>8. \A n \in 1..Len(toServer') : toServer'[n] \in GenuineLines'
  <2> SUFFICES \A n \in 1..Len(toServer') : toServer'[n] \in GenuineLines
    BY <1>6
  <2>1. ASSUME NEW w, NEW k \in {"request", "answer"}, NEW i \in Nat,
               FinishLine(w, Message(k, i)), k = "request" => Issued(i)
        PROVE  \A n \in 1..Len(toServer') : toServer'[n] \in GenuineLines
    <3>1. Message(k, i) \in GenuineLines /\ Message("garbled", 0) \in GenuineLines
      BY <2>1 DEF Message, GenuineLines, Lines
    <3>2. PICK l \in GenuineLines : toServer' = Append(toServer, l)
      BY <2>1, <3>1 DEF FinishLine
    <3> QED
      BY <1>1, <1>4, <1>7, <3>2, AppendAll DEF TypeOK
  <2>2. ASSUME NEW t \in Tasks, EndRequestWrite(t) \/ EndAnswerWrite(t)
        PROVE  \A n \in 1..Len(toServer') : toServer'[n] \in GenuineLines
    <3>1. task[t].id \in Nat
      BY <1>1 DEF TypeOK, TaskRecords
    <3>2. CASE EndRequestWrite(t)
      <4>1. Requesting(t)
        BY <1>1, <3>2 DEF EndRequestWrite, SlotInv, TypeOK, TaskRecords, Ops, PhaseOps, Requesting
      <4>2. Issued(task[t].id)
        BY <1>1, <4>1 DEF SlotInv, RequestIssued, Issued
      <4> QED
        BY <2>1, <3>1, <3>2, <4>2 DEF EndRequestWrite
    <3>3. CASE EndAnswerWrite(t)
      BY <2>1, <3>1, <3>3 DEF EndAnswerWrite
    <3> QED
      BY <2>2, <3>2, <3>3
  <2>3. CASE EndRejection
    <3>1. reader.id \in Nat /\ FinishLine(Reader, Message("answer", reader.id))
      BY <1>1, <2>3 DEF EndRejection, TypeOK
    <3> QED
      BY <2>1, <3>1
  <2>4. CASE ServerRead
    BY <1>1, <1>4, <1>7, <2>4, TailAll DEF ServerRead, TypeOK
  <2>5. CASE ~EndRejection /\ ~ServerRead /\ \A t \in Tasks : ~EndRequestWrite(t) /\ ~EndAnswerWrite(t)
    <3>1. toServer' = toServer
      BY <2>5 DEF Next, TaskStep, WantLock, Lock, Unlock, StartRequest, StartAnswer,
         ReceiveReply, Timeout, BeginWrite, TakeStdin, WriteFails, Recv, ReaderStep, ReadFails,
         DeliverResponse, RejectStartupRequest, BeginRejection, RejectionFails, Forward,
         ServerStep, ServerNotify, ServerBabble, ServerRespond, ServerAsk, ServerStops,
         Say, stdinVars
    <3> QED
      BY <1>4, <3>1
  <2> QED
    BY <2>2, <2>3, <2>4, <2>5
<1>9. \A i \in accepted' \cup served' : Issued(i)'
  <2>1. \A i \in accepted' \cup served' : Issued(i)
    <3>1. CASE ServerRead
      <4>1. Head(toServer) \in GenuineLines
        BY <1>1, <1>4, <1>7, <3>1, TailAll DEF ServerRead, TypeOK
      <4> QED
        BY <1>4, <3>1, <4>1 DEF ServerRead, GenuineLines
    <3>2. CASE \E i \in RequestIds : ServerRespond(i)
      BY <1>4, <3>2 DEF ServerRespond
    <3>3. CASE ~ServerRead /\ \A i \in RequestIds : ~ServerRespond(i)
      <4>1. UNCHANGED <<accepted, served>>
        BY <3>3 DEF Next, TaskStep, WantLock, Lock, Unlock, StartRequest, StartAnswer,
           ReceiveReply, Timeout, BeginWrite, EndRequestWrite, EndAnswerWrite, WriteFails, Recv,
           ReaderStep, ReadFails, DeliverResponse, RejectStartupRequest, BeginRejection,
           EndRejection, RejectionFails, Forward, ServerStep, ServerNotify, ServerBabble,
           ServerAsk, ServerStops, Say, serverVars
      <4> QED
        BY <1>4, <4>1
    <3> QED
      BY <3>1, <3>2, <3>3
  <2> QED
    BY <1>3, <2>1
<1>10. \A n \in 1..Len(toClient') : toClient'[n] \in GenuineMessages'
  <2>1. ASSUME NEW m \in Messages, Say(m), m.kind = "response" => m.id \in served'
        PROVE  \A n \in 1..Len(toClient') : toClient'[n] \in GenuineMessages'
    <3>1. m \in GenuineMessages' /\ GenuineMessages' \in SUBSET Messages
      BY <2>1 DEF GenuineMessages
    <3>2. \A n \in 1..Len(toClient) : toClient[n] \in GenuineMessages'
      BY <1>4, <1>6
    <3>3. toClient' = Append(toClient, m) /\ toClient \in Seq(Messages)
      BY <1>1, <2>1 DEF Say, TypeOK
    <3> QED
      BY <3>1, <3>2, <3>3, AppendAll
  <2>2. CASE \E i \in RequestIds : ServerRespond(i)
    <3>1. PICK i \in RequestIds : ServerRespond(i)
      BY <2>2
    <3>2. Message("response", i) \in Messages /\ i \in served' /\ Say(Message("response", i))
      BY <3>1, TransportAssumption DEF ServerRespond, Message, Messages, RequestIds
    <3> QED
      BY <2>1, <3>2 DEF Message
  <2>3. CASE ServerNotify \/ ServerBabble
    <3>1. Message("notification", 0) \in Messages /\ Message("unreadable", 0) \in Messages
      BY DEF Message, Messages
    <3> QED
      BY <2>1, <2>3, <3>1 DEF ServerNotify, ServerBabble, Message
  <2>4. CASE \E kind \in {"request", "startupRequest"} : ServerAsk(kind)
    <3>1. PICK kind \in {"request", "startupRequest"} : ServerAsk(kind)
      BY <2>4
    <3>2. Message(kind, asked + 1) \in Messages /\ Say(Message(kind, asked + 1))
      BY <1>1, <3>1 DEF ServerAsk, Message, Messages, TypeOK
    <3> QED
      BY <2>1, <3>2 DEF Message
  <2>5. CASE ReadFails \/ DeliverResponse \/ RejectStartupRequest \/ Forward
    <3>1. toClient' = toClient \/ (toClient # << >> /\ toClient' = Tail(toClient))
      BY <2>5 DEF ReadFails, DeliverResponse, RejectStartupRequest, Forward
    <3> QED
      BY <1>1, <1>4, <1>6, <1>7, <3>1, TailAll DEF TypeOK
  <2>6. CASE \/ \E t \in Tasks : TaskStep(t)
             \/ BeginRejection \/ EndRejection \/ RejectionFails \/ ServerRead
             \/ \E how \in {"mute", "exited"} : ServerStops(how)
    <3>1. toClient' = toClient
      BY <2>6 DEF TaskStep, WantLock, Lock, Unlock, StartRequest, StartAnswer, ReceiveReply,
         Timeout, BeginWrite, EndRequestWrite, EndAnswerWrite, WriteFails, Recv,
         BeginRejection, EndRejection, RejectionFails, ServerRead, ServerStops
    <3> QED
      BY <1>4, <1>6, <3>1
  <2> QED
    BY <2>2, <2>3, <2>4, <2>5, <2>6 DEF Next, ReaderStep, ServerStep
<1>11. reply'.kind = "response" => reply'.id \in served'
  <2>1. CASE DeliverResponse
    <3>1. Head(toClient) \in GenuineMessages
      BY <1>1, <1>4, <1>7, <2>1, TailAll DEF DeliverResponse, TypeOK
    <3> QED
      BY <1>5, <2>1, <3>1 DEF DeliverResponse, GenuineMessages
  <2>2. CASE ~DeliverResponse
    <3>1. reply' = reply \/ reply'.kind # "response"
      <4>1. ASSUME NEW t \in Tasks, NEW op \in {"timed", "untimed"}, StartRequest(t, op)
            PROVE  reply' = reply \/ reply'.kind # "response"
        BY <4>1 DEF StartRequest, InstallRefused, InstallAccepted, NoReply
      <4>2. CASE ReadFails \/ RejectionFails
        BY <4>2 DEF ReadFails, RejectionFails, EndReader, Message
      <4> QED
        BY <2>2, <4>1, <4>2 DEF Next, TaskStep, WantLock, Lock, Unlock, StartAnswer,
           ReceiveReply, Timeout, BeginWrite, EndRequestWrite, EndAnswerWrite, WriteFails, Recv,
           ReaderStep, RejectStartupRequest, BeginRejection, EndRejection, Forward,
           ServerStep, ServerRead, ServerNotify, ServerBabble, ServerRespond, ServerAsk,
           ServerStops, Say, clientVars
    <3> QED
      BY <1>4, <1>5, <3>1
  <2> QED
    BY <2>1, <2>2
<1> QED
  BY <1>2, <1>8, <1>9, <1>10, <1>11
  DEF AnswersGenuine, GenuineLines, GenuineMessages

(* Every response under way is one the server has given to a request that   *)
(* was issued (DeliverResponse takes none that nobody asked for).           *)
THEOREM Invariant == Spec => []IInv
<1>1. IInv /\ [Next]_vars => IInv'
  <2> SUFFICES ASSUME IInv, [Next]_vars PROVE IInv'
    OBVIOUS
  <2>1. CASE Next
    BY <2>1, GenuineStep, SlotInvTask, SlotInvReader, SlotInvServer DEF IInv, Next
  <2>2. CASE UNCHANGED vars
    <3>1. TypeOK'
      BY <2>2 DEF IInv, SlotInv, TypeOK, vars, clientVars, stdinVars, serverVars
    <3>2. SlotInv'
      BY <2>2, <3>1 DEF vars, clientVars, IInv, SlotInv, PhaseOps, LockHeld, RequestIssued,
         IdsInOrder, SlotOwned, ReplyOwned, NoSpuriousFailure, Requesting
    <3> QED
      BY <2>2, <3>2 DEF IInv, AnswersGenuine, Issued, vars, clientVars, stdinVars, serverVars
  <2> QED
    BY <2>1, <2>2
<1> QED
  BY <1>1, InvInit, PTL DEF Spec

\* The status of the requests, as the abstract channel sees it.
Status == [i \in RequestIds |-> StatusOf(outcome[i])]

(* Changing one outcome changes one status.                                *)
LEMMA StatusUpdate ==
  ASSUME outcome \in [RequestIds -> Outcomes], NEW i \in RequestIds, NEW r,
         outcome' = [outcome EXCEPT ![i] = r]
  PROVE  Status' = [Status EXCEPT ![i] = StatusOf(r)]
  BY DEF Status

(* A return of the request in progress is a Succeed or a Fail.             *)
LEMMA ReturnSimulates ==
  ASSUME SlotInv, NEW t \in Tasks, Requesting(t), NEW result \in {"ok", "timeout", "error"},
         Return(t, result), served' = served, result = "ok" => task[t].id \in served
  PROVE  Channel!Next
<1> DEFINE i == task[t].id
<1>1. i \in RequestIds /\ outcome[i] = "pending" /\ outcome \in [RequestIds -> Outcomes]
  BY DEF SlotInv, RequestIssued, TypeOK
<1>2. Status' = [Status EXCEPT ![i] = StatusOf(result)]
  BY <1>1, StatusUpdate DEF Return
<1>3. Status[i] = "pending"
  BY <1>1 DEF Status, StatusOf
<1>4. CASE result = "ok"
  <2>1. StatusOf(result) = "ok"
    BY <1>4 DEF StatusOf
  <2>2. Channel!Succeed(i)
    BY <1>2, <1>3, <1>4, <2>1 DEF Channel!Succeed, Status
  <2> QED
    BY <1>1, <2>2 DEF Channel!Next
<1>5. CASE result # "ok"
  <2>1. StatusOf(result) = "failed"
    BY <1>5 DEF StatusOf
  <2>2. Channel!Fail(i)
    BY <1>2, <1>3, <2>1 DEF Channel!Fail, Status
  <2> QED
    BY <1>1, <2>2 DEF Channel!Next
<1> QED
  BY <1>4, <1>5

(* Issuing a request is an Issue of the next identity.                     *)
LEMMA IssueSimulates ==
  ASSUME SlotInv, NEW t \in Tasks, NEW op \in {"timed", "untimed"}, StartRequest(t, op)
  PROVE  Channel!Next
<1>1. slot = NoRequest /\ \A u \in Tasks : ~Requesting(u)
  BY SlotFreeWhenLocked DEF StartRequest
<1>2. nextId \in RequestIds /\ outcome' = [outcome EXCEPT ![nextId] = "pending"] /\ served' = served
  BY <1>1 DEF StartRequest, InstallRefused, InstallAccepted, serverVars
<1>3. outcome \in [RequestIds -> Outcomes] /\ RequestIds \subseteq Nat /\ nextId \in Nat
  BY TransportAssumption DEF SlotInv, TypeOK, RequestIds
<1>4. Status' = [Status EXCEPT ![nextId] = "pending"]
  BY <1>2, <1>3, StatusUpdate DEF StatusOf
<1>5. Status[nextId] = "unused"
  <2>1. outcome[nextId] = "none"
    BY <1>2, <1>3 DEF SlotInv, IdsInOrder
  <2> QED
    BY <1>2, <2>1 DEF Status, StatusOf
<1>6. \A j \in RequestIds : Status[j] # "pending" /\ (j < nextId => Status[j] # "unused")
  <2> SUFFICES ASSUME NEW j \in RequestIds
               PROVE  Status[j] # "pending" /\ (j < nextId => Status[j] # "unused")
    OBVIOUS
  <2>1. outcome[j] # "pending"
    BY <1>1 DEF SlotInv, IdsInOrder
  <2>2. j < nextId => outcome[j] # "none"
    BY <1>3 DEF SlotInv, IdsInOrder
  <2> QED
    BY <2>1, <2>2 DEF Status, StatusOf
<1>7. Channel!Issue(nextId)
  BY <1>2, <1>4, <1>5, <1>6 DEF Channel!Issue, Status
<1> QED
  BY <1>2, <1>7 DEF Channel!Next

(* Every step of the transport is a step of the channel or a stutter.      *)
LEMMA StepSimulates ==
  ASSUME IInv, [Next]_vars
  PROVE  [Channel!Next]_(Channel!rpcVars)
<1>1. SlotInv /\ AnswersGenuine /\ outcome \in [RequestIds -> Outcomes]
  BY DEF IInv, SlotInv, TypeOK
<1>2. ASSUME UNCHANGED <<outcome, served>> PROVE UNCHANGED Channel!rpcVars
  BY <1>2 DEF Channel!rpcVars
<1>3. ASSUME NEW t \in Tasks, TaskStep(t)
      PROVE  Channel!Next \/ UNCHANGED <<outcome, served>>
  <2>1. CASE \E op \in {"timed", "untimed"} : StartRequest(t, op)
    BY <1>1, <2>1, IssueSimulates
  <2>2. CASE ReceiveReply(t)
    <3>1. Requesting(t) /\ reply # NoReply /\ reply.id = task[t].id
      BY <1>1, <2>2 DEF ReceiveReply, SlotInv, PhaseOps, Requesting, ReplyOwned
    <3>2. reply.kind \in {"none", "failed", "response"}
      BY <1>1 DEF SlotInv, TypeOK
    <3>3. CASE reply.kind = "failed"
      BY <1>1, <2>2, <3>1, <3>3, ReturnSimulates DEF ReceiveReply, ReplyResult, serverVars
    <3>4. CASE reply.kind = "response"
      <4>1. reply.id \in served
        BY <1>1, <3>4 DEF AnswersGenuine
      <4> QED
        BY <1>1, <2>2, <3>1, <3>4, <4>1, ReturnSimulates DEF ReceiveReply, ReplyResult, serverVars
    <3>5. CASE reply.kind = "none"
      BY <1>1, <3>1, <3>5 DEF SlotInv, ReplyOwned
    <3> QED
      BY <3>2, <3>3, <3>4, <3>5
  <2>3. CASE Timeout(t)
    BY <1>1, <2>3, ReturnSimulates DEF Timeout, TimerRuns, Requesting, serverVars
  <2>4. CASE WriteFails(t)
    <3>1. CASE task[t].op = "answer"
      BY <2>4, <3>1 DEF WriteFails, serverVars
    <3>2. CASE task[t].op # "answer"
      <4>1. Requesting(t)
        BY <1>1, <2>4, <3>2 DEF WriteFails, SlotInv, TypeOK, TaskRecords, Ops, PhaseOps, Requesting
      <4> QED
        BY <1>1, <2>4, <3>2, <4>1, ReturnSimulates DEF WriteFails, serverVars
    <3> QED
      BY <3>1, <3>2
  <2> QED
    BY <1>3, <2>1, <2>2, <2>3, <2>4 DEF TaskStep, WantLock, Lock, Unlock, StartAnswer,
       BeginWrite, EndRequestWrite, EndAnswerWrite, Recv, clientVars, serverVars
<1>4. CASE ReaderStep
  BY <1>2, <1>4 DEF ReaderStep, ReadFails, DeliverResponse, RejectStartupRequest,
     BeginRejection, EndRejection, RejectionFails, Forward, clientVars, serverVars
<1>5. CASE ServerStep
  <2>1. ASSUME NEW i \in RequestIds, ServerRespond(i)
        PROVE  Channel!Next
    <3>1. Issued(i) /\ served' = served \cup {i} /\ outcome' = outcome
      BY <1>1, <2>1 DEF ServerRespond, Say, AnswersGenuine, clientVars
    <3>2. Channel!Serve(i)
      BY <3>1 DEF Channel!Serve, Issued, StatusOf
    <3> QED
      BY <3>2 DEF Channel!Next
  <2>2. CASE \E i \in RequestIds : ServerRespond(i)
    BY <2>1, <2>2
  <2>3. CASE ~\E i \in RequestIds : ServerRespond(i)
    BY <1>2, <1>5, <2>3 DEF ServerStep, ServerRead, ServerNotify, ServerBabble, ServerAsk,
       ServerStops, Say, clientVars
  <2> QED
    BY <2>2, <2>3
<1>6. CASE UNCHANGED vars
  BY <1>2, <1>6 DEF vars, clientVars, serverVars
<1> QED
  BY <1>2, <1>3, <1>4, <1>5, <1>6 DEF Next

(* The transport implements the abstract request/response channel, for any *)
(* number of callers and requests: every request is issued once and in     *)
(* order, one at a time, ends once, and succeeds only with the answer the  *)
(* child gave to it.                                                       *)
THEOREM TransportImplementsRpc == Spec => ImplementsRpc
<1>1. Init => Channel!Init
  BY DEF Init, Channel!Init, StatusOf
<1>2. IInv /\ [Next]_vars => [Channel!Next]_(Channel!rpcVars)
  BY StepSimulates
<1> QED
  BY <1>1, <1>2, Invariant, PTL DEF Spec, ImplementsRpc, Channel!Spec

-----------------------------------------------------------------------------
(* The lines on stdin.                                                     *)

\* Something has gone wrong that may leave unfinished bytes in the pipe.
Spoiled == cutShort # {} \/ server = "exited"

\* Unfinished bytes belong to the holder of stdin; where they do not, and
\* where two writers' bytes are mixed, a write was cancelled or has failed.
BytesOwned ==
  /\ stdinOwner # None => pipe # "empty"
  /\ stdinOwner = None /\ pipe # "empty" => Spoiled
  /\ pipe = "torn" => Spoiled

LineInv == TypeOK /\ BytesOwned /\ LinesIntact

(* Whoever takes stdin starts a line of its own.                           *)
LEMMA TakingKeepsLines ==
  ASSUME LineInv, NEW w \in Tasks \cup {Reader}, TakeStdin(w), UNCHANGED server
  PROVE  BytesOwned' /\ LinesIntact'
<1>1. w # None
  BY TransportAssumption
<1>2. BytesOwned'
  BY <1>1 DEF LineInv, BytesOwned, TakeStdin, Spoiled
<1>3. LinesIntact'
  BY DEF LineInv, LinesIntact, TakeStdin
<1> QED
  BY <1>2, <1>3

(* A finished line is intact, or bytes of a cancelled write are in it.     *)
LEMMA FinishingKeepsLines ==
  ASSUME LineInv, NEW w \in Tasks \cup {Reader}, NEW k \in {"request", "answer"}, NEW i \in Nat,
         FinishLine(w, Message(k, i)), UNCHANGED server
  PROVE  BytesOwned' /\ LinesIntact'
<1>1. w # None
  BY TransportAssumption
<1>2. BytesOwned'
  BY DEF FinishLine, BytesOwned
<1>3. PICK line \in Lines : toServer' = Append(toServer, line) /\ (line.kind = "garbled" => pipe # "line")
  <2>1. Message(k, i) \in Lines /\ Message("garbled", 0) \in Lines /\ Message(k, i).kind # "garbled"
    BY DEF Message, Lines
  <2> QED
    BY <2>1 DEF FinishLine
<1>4. line.kind = "garbled" => cutShort # {}
  BY <1>1, <1>3 DEF FinishLine, LineInv, BytesOwned, Spoiled, TypeOK
<1>5. \A n \in DOMAIN toServer' : toServer'[n] = line \/ (n \in DOMAIN toServer /\ toServer'[n] = toServer[n])
  BY <1>3 DEF LineInv, TypeOK
<1>6. cutShort' = cutShort
  BY DEF FinishLine
<1>7. LinesIntact'
  BY <1>4, <1>5, <1>6 DEF LineInv, LinesIntact
<1> QED
  BY <1>2, <1>7

LEMMA LineInitially == Init => LineInv
<1> SUFFICES ASSUME Init PROVE BytesOwned /\ LinesIntact
  BY TypeInit DEF LineInv
<1> QED
  BY DEF Init, BytesOwned, LinesIntact

LEMMA LineInductive == LineInv /\ [Next]_vars => LineInv'
<1> SUFFICES ASSUME LineInv, [Next]_vars PROVE BytesOwned' /\ LinesIntact'
  BY TypeTask, TypeReader, TypeServer
  DEF LineInv, TypeOK, Next, vars, clientVars, stdinVars, serverVars
<1>1. ASSUME UNCHANGED <<stdinVars, server>> PROVE BytesOwned' /\ LinesIntact'
  BY <1>1 DEF LineInv, BytesOwned, Spoiled, LinesIntact, stdinVars
<1>2. ASSUME NEW t \in Tasks, TaskStep(t) PROVE BytesOwned' /\ LinesIntact'
  <2>1. task[t].id \in Nat
    BY DEF LineInv, TypeOK, TaskRecords
  <2>2. CASE BeginWrite(t)
    BY <2>2, TakingKeepsLines DEF BeginWrite, serverVars
  <2>3. CASE EndRequestWrite(t) \/ EndAnswerWrite(t)
    BY <2>1, <2>3, FinishingKeepsLines DEF EndRequestWrite, EndAnswerWrite, serverVars
  <2>4. CASE WriteFails(t)
    BY <2>4 DEF WriteFails, LineInv, BytesOwned, LinesIntact, Spoiled, serverVars
  <2>5. CASE Timeout(t)
    <3>1. CASE stdinOwner = t
      <4>1. /\ stdinOwner' = None /\ pipe' \in {"torn", "empty"} /\ cutShort \subseteq cutShort'
            /\ pipe' = "torn" => cutShort' # {}
            /\ UNCHANGED <<toServer, server>>
        BY <2>5, <3>1 DEF Timeout, serverVars
      <4> QED
        BY <4>1 DEF LineInv, BytesOwned, LinesIntact, Spoiled
    <3>2. CASE stdinOwner # t
      BY <1>1, <2>5, <3>2 DEF Timeout, stdinVars, serverVars
    <3> QED
      BY <3>1, <3>2
  <2> QED
    BY <1>1, <1>2, <2>2, <2>3, <2>4, <2>5
    DEF TaskStep, WantLock, Lock, Unlock, StartRequest, StartAnswer, ReceiveReply, Recv, serverVars
<1>3. CASE ReaderStep
  <2>1. CASE BeginRejection
    BY <2>1, TakingKeepsLines DEF BeginRejection, serverVars
  <2>2. CASE EndRejection
    <3>1. reader.id \in Nat
      BY DEF LineInv, TypeOK
    <3> QED
      BY <2>2, <3>1, FinishingKeepsLines DEF EndRejection, serverVars
  <2>3. CASE RejectionFails
    BY <2>3 DEF RejectionFails, LineInv, BytesOwned, LinesIntact, Spoiled, serverVars
  <2> QED
    BY <1>1, <1>3, <2>1, <2>2, <2>3
    DEF ReaderStep, ReadFails, DeliverResponse, RejectStartupRequest, Forward, serverVars
<1>4. CASE ServerRead
  <2>1. toServer' = Tail(toServer) /\ toServer # << >> /\ UNCHANGED <<stdinOwner, pipe, cutShort, server>>
    BY <1>4 DEF ServerRead
  <2>2. \A n \in DOMAIN toServer' : n + 1 \in DOMAIN toServer /\ toServer'[n] = toServer[n + 1]
    BY <2>1 DEF LineInv, TypeOK
  <2> QED
    BY <2>1, <2>2 DEF LineInv, BytesOwned, LinesIntact, Spoiled
<1>5. CASE ServerStep /\ ~ ServerRead
  <2>1. UNCHANGED stdinVars /\ (UNCHANGED server \/ server' \in {"mute", "exited"})
    BY <1>5 DEF ServerStep, ServerNotify, ServerBabble, ServerRespond, ServerAsk, ServerStops, Say
  <2>2. server = "exited" => server' = "exited"
    BY <1>5 DEF ServerStep, ServerNotify, ServerBabble, ServerRespond, ServerAsk, ServerStops, Say
  <2> QED
    BY <2>1, <2>2 DEF LineInv, BytesOwned, LinesIntact, Spoiled, stdinVars
<1>6. CASE UNCHANGED vars
  BY <1>1, <1>6 DEF vars, serverVars
<1> QED
  BY <1>2, <1>3, <1>4, <1>5, <1>6 DEF Next

(* The child never reads a line mixed from two writers unless a timeout    *)
(* cancelled a write in mid-line, for any number of callers and lines: a   *)
(* write that fails leaves bytes behind as well, but to a child that has   *)
(* exited and reads no more.                                               *)
THEOREM LinesStayIntact == Spec => []LinesIntact
<1>1. LineInv => LinesIntact
  BY DEF LineInv
<1> QED
  BY <1>1, LineInitially, LineInductive, PTL DEF Spec

-----------------------------------------------------------------------------
(* The requests of the child.                                              *)

\* Message m is request r of the child.
Asks(m, r) == m.kind \in {"request", "startupRequest"} /\ m.id = r

\* Where a request may be: in a queue, with a task that answers it, with the
\* reader that rejects it; the rest is counted by answers.
AskedIn(q, r)  == {n \in DOMAIN q : Asks(q[n], r)}
AnsweringAt(r) == {t \in Tasks : task[t].op = "answer" /\ task[t].id = r}
Rejecting(r)   == reader.kind = "rejecting" /\ reader.id = r

AtMostOne(S) == \A a, b \in S : a = b

Once(r) ==
  /\ AtMostOne(AskedIn(toClient, r)) /\ AtMostOne(AskedIn(inbox, r)) /\ AtMostOne(AnsweringAt(r))
  /\ answers[r] <= 1
  /\ \/ AskedIn(toClient, r) = {}
     \/ AskedIn(inbox, r) = {} /\ AnsweringAt(r) = {} /\ ~ Rejecting(r) /\ answers[r] = 0
  /\ AskedIn(inbox, r) = {} \/ (AnsweringAt(r) = {} /\ ~ Rejecting(r) /\ answers[r] = 0)
  /\ AnsweringAt(r) = {} \/ (~ Rejecting(r) /\ answers[r] = 0)
  /\ Rejecting(r) => answers[r] = 0

Unasked(r) ==
  /\ AskedIn(toClient, r) = {} /\ AskedIn(inbox, r) = {} /\ AnsweringAt(r) = {}
  /\ ~ Rejecting(r) /\ answers[r] = 0

RequestFits(r) == Once(r) /\ (asked < r => Unasked(r))

AnswerInv == TypeOK /\ \A r \in ServerRequestIds : RequestFits(r)

\* S is no more than T, of which there was at most one.
Shrinks(S, T) == AtMostOne(T) => AtMostOne(S) /\ (T = {} => S = {})

(* A queue gets longer by one message, or loses its first one.             *)
LEMMA AppendAsks ==
  ASSUME NEW q \in Seq(Messages), NEW m \in Messages, NEW r
  PROVE  AskedIn(Append(q, m), r) = IF Asks(m, r) THEN AskedIn(q, r) \cup {Len(q) + 1} ELSE AskedIn(q, r)
<1>1. /\ DOMAIN Append(q, m) = DOMAIN q \cup {Len(q) + 1} /\ Len(q) + 1 \notin DOMAIN q
      /\ Append(q, m)[Len(q) + 1] = m /\ \A n \in DOMAIN q : Append(q, m)[n] = q[n]
  OBVIOUS
<1> QED
  BY <1>1 DEF AskedIn

(* Taking the first message takes one asking away, if that is what it is.   *)
LEMMA TailAsks ==
  ASSUME NEW q \in Seq(Messages), q # << >>, NEW r
  PROVE  /\ Shrinks(AskedIn(Tail(q), r), AskedIn(q, r))
         /\ AtMostOne(AskedIn(q, r)) /\ Asks(Head(q), r) => AskedIn(Tail(q), r) = {}
         /\ Asks(Head(q), r) => AskedIn(q, r) # {}
<1>1. /\ 1 \in DOMAIN q /\ q[1] = Head(q)
      /\ \A n \in DOMAIN Tail(q) : n + 1 \in DOMAIN q /\ Tail(q)[n] = q[n + 1] /\ n \in Nat /\ n + 1 # 1
  OBVIOUS
<1>2. \A n \in AskedIn(Tail(q), r) : n + 1 \in AskedIn(q, r) /\ n \in Nat /\ n + 1 # 1
  BY <1>1 DEF AskedIn
<1>3. Asks(Head(q), r) => 1 \in AskedIn(q, r)
  BY <1>1 DEF AskedIn
<1>4. ASSUME AtMostOne(AskedIn(q, r)) PROVE AtMostOne(AskedIn(Tail(q), r))
  <2> SUFFICES ASSUME NEW m \in AskedIn(Tail(q), r), NEW n \in AskedIn(Tail(q), r) PROVE m = n
    BY DEF AtMostOne
  <2>1. m + 1 = n + 1
    BY <1>2, <1>4 DEF AtMostOne
  <2> QED
    BY <1>2, <2>1
<1> QED
  BY <1>2, <1>3, <1>4 DEF AtMostOne, Shrinks

(* A request that stays where it is, or is dropped, keeps fitting.         *)
LEMMA ShrinkingFits ==
  ASSUME NEW r, RequestFits(r),
         Shrinks(AskedIn(toClient, r)', AskedIn(toClient, r)),
         Shrinks(AskedIn(inbox, r)', AskedIn(inbox, r)),
         Shrinks(AnsweringAt(r)', AnsweringAt(r)),
         Rejecting(r)' => Rejecting(r), answers'[r] = answers[r], asked' < r => asked < r
  PROVE  RequestFits(r)'
  BY DEF RequestFits, Once, Unasked, Shrinks

(* Nothing happens to a request that neither moves nor is answered.        *)
LEMMA ShrinkingSame == \A S : Shrinks(S, S)
  BY DEF Shrinks

(* The steps of a task: it takes a request from the inbox or gives it up,  *)
(* and answers, or fails to answer, the one it took.                       *)
LEMMA TaskAnswersOnce ==
  ASSUME AnswerInv, NEW t \in Tasks, TaskStep(t), NEW r \in ServerRequestIds
  PROVE  RequestFits(r)'
<1>1. RequestFits(r) /\ task \in [Tasks -> TaskRecords]
  BY DEF AnswerInv, TypeOK
<1>2. UNCHANGED <<toClient, asked>> /\ (Rejecting(r)' <=> Rejecting(r))
  BY DEF TaskStep, WantLock, Lock, Unlock, StartRequest, StartAnswer, ReceiveReply, Timeout, BeginWrite,
     EndRequestWrite, EndAnswerWrite, WriteFails, Recv, Rejecting, serverVars
<1>3. AskedIn(toClient, r)' = AskedIn(toClient, r)
  BY <1>2 DEF AskedIn
<1>4. CASE EndAnswerWrite(t)
  <2>1. \A u \in Tasks : task'[u] = IF u = t THEN [phase |-> "locked", op |-> "none", id |-> 0] ELSE task[u]
    BY <1>1, <1>4 DEF EndAnswerWrite
  <2>2. AskedIn(inbox, r)' = AskedIn(inbox, r) /\ AnsweringAt(r)' = AnsweringAt(r) \ {t}
    BY <1>4, <2>1 DEF EndAnswerWrite, AskedIn, AnsweringAt
  <2>3. answers'[r] = IF task[t].id = r THEN answers[r] + 1 ELSE answers[r]
    BY <1>4 DEF EndAnswerWrite, AnswerInv, TypeOK
  <2>4. CASE task[t].id = r
    <3>1. t \in AnsweringAt(r)
      BY <1>4, <2>4 DEF EndAnswerWrite, AnsweringAt
    <3>2. AnsweringAt(r)' = {}
      BY <1>1, <2>2, <3>1 DEF RequestFits, Once, AtMostOne
    <3>3. /\ AskedIn(toClient, r) = {} /\ AskedIn(inbox, r) = {} /\ ~ Rejecting(r) /\ answers[r] = 0
          /\ ~ (asked < r)
      BY <1>1, <3>1 DEF RequestFits, Once, Unasked
    <3>4. answers'[r] = 1
      BY <2>3, <2>4, <3>3
    <3> QED
      BY <1>2, <1>3, <2>2, <3>2, <3>3, <3>4 DEF RequestFits, Once, Unasked, AtMostOne
  <2>5. CASE task[t].id # r
    <3>1. Shrinks(AnsweringAt(r)', AnsweringAt(r))
      BY <2>2 DEF Shrinks, AtMostOne
    <3> QED
      BY <1>1, <1>2, <1>3, <2>2, <2>3, <2>5, <3>1, ShrinkingFits, ShrinkingSame
  <2> QED
    BY <2>4, <2>5
<1>5. CASE Recv(t)
  <2>1. inbox' = Tail(inbox) /\ inbox # << >> /\ inbox \in Seq(Messages) /\ UNCHANGED answers /\ task[t].phase = "idle"
    BY <1>5 DEF Recv, AnswerInv, TypeOK
  <2>2. /\ Shrinks(AskedIn(inbox, r)', AskedIn(inbox, r))
        /\ AtMostOne(AskedIn(inbox, r)) /\ Asks(Head(inbox), r) => AskedIn(inbox, r)' = {}
        /\ Asks(Head(inbox), r) => AskedIn(inbox, r) # {}
    <3>1. AskedIn(inbox, r)' = AskedIn(Tail(inbox), r)
      BY <2>1 DEF AskedIn
    <3> QED
      BY <2>1, <3>1, TailAsks
  <2>3. CASE UNCHANGED task
    <3>1. AnsweringAt(r)' = AnsweringAt(r)
      BY <2>3 DEF AnsweringAt
    <3> QED
      BY <1>1, <1>2, <1>3, <2>1, <2>2, <3>1, ShrinkingFits, ShrinkingSame
  <2>4. CASE /\ Head(inbox).kind \in {"request", "startupRequest"}
             /\ task' = [task EXCEPT ![t] = [phase |-> "waiting", op |-> "answer", id |-> Head(inbox).id]]
    <3>1. \A u \in Tasks : task'[u] = IF u = t THEN [phase |-> "waiting", op |-> "answer", id |-> Head(inbox).id]
                                      ELSE task[u]
      BY <1>1, <2>4
    <3>2. CASE Head(inbox).id = r
      <4>1. Asks(Head(inbox), r)
        BY <2>4, <3>2 DEF Asks
      <4>2. /\ AskedIn(toClient, r) = {} /\ AnsweringAt(r) = {} /\ ~ Rejecting(r) /\ answers[r] = 0
            /\ AskedIn(inbox, r)' = {} /\ ~ (asked < r)
        BY <1>1, <2>2, <4>1 DEF RequestFits, Once, Unasked
      <4>3. AnsweringAt(r)' = {t}
        BY <3>1, <3>2, <4>2 DEF AnsweringAt
      <4> QED
        BY <1>2, <1>3, <2>1, <4>2, <4>3 DEF RequestFits, Once, AtMostOne
    <3>3. CASE Head(inbox).id # r
      <4>1. AnsweringAt(r)' = AnsweringAt(r) \ {t}
        BY <3>1, <3>3 DEF AnsweringAt
      <4>2. Shrinks(AnsweringAt(r)', AnsweringAt(r))
        BY <4>1 DEF Shrinks, AtMostOne
      <4> QED
        BY <1>1, <1>2, <1>3, <2>1, <2>2, <4>2, ShrinkingFits, ShrinkingSame
    <3> QED
      BY <3>2, <3>3
  <2> QED
    BY <1>5, <2>3, <2>4 DEF Recv
<1>6. CASE ~ EndAnswerWrite(t) /\ ~ Recv(t)
  <2>1. UNCHANGED <<inbox, answers>>
    BY <1>6 DEF TaskStep, WantLock, Lock, Unlock, StartRequest, StartAnswer, ReceiveReply, Timeout, BeginWrite,
       EndRequestWrite, WriteFails
  <2>2. \A u \in Tasks : task'[u].op = "answer" => task[u].op = "answer" /\ task[u].id = task'[u].id
    <3>1. CASE UNCHANGED task
      BY <3>1
    <3>2. CASE \E next \in Phases : task' = [task EXCEPT ![t].phase = next]
      BY <1>1, <3>2 DEF TaskRecords
    <3>3. CASE \E next \in TaskRecords : next.op # "answer" /\ task' = [task EXCEPT ![t] = next]
      BY <1>1, <3>3
    <3>4. WantLock(t) \/ Lock(t) \/ StartAnswer(t) \/ EndRequestWrite(t)
            => \E next \in Phases : task' = [task EXCEPT ![t].phase = next]
      BY DEF WantLock, Lock, StartAnswer, EndRequestWrite, Phases
    <3>5. ASSUME \/ Unlock(t) \/ ReceiveReply(t) \/ Timeout(t) \/ WriteFails(t)
                 \/ \E op \in {"timed", "untimed"} : StartRequest(t, op)
          PROVE  UNCHANGED task \/ \E next \in TaskRecords : next.op # "answer" /\ task' = [task EXCEPT ![t] = next]
      <4>1. Idle \in TaskRecords /\ [phase |-> "locked", op |-> "none", id |-> 0] \in TaskRecords
        BY DEF Idle, TaskRecords, Phases, Ops
      <4>2. \A op \in {"timed", "untimed"} : [phase |-> "writing", op |-> op, id |-> nextId] \in TaskRecords
        BY DEF AnswerInv, TypeOK, TaskRecords, Phases, Ops
      <4> QED
        BY <3>5, <4>1, <4>2 DEF Unlock, ReceiveReply, Timeout, WriteFails, StartRequest, InstallRefused, InstallAccepted,
           Return, Idle
    <3> QED
      BY <1>6, <3>1, <3>2, <3>3, <3>4, <3>5 DEF TaskStep, BeginWrite, clientVars
  <2>3. AnsweringAt(r)' \subseteq AnsweringAt(r)
    BY <2>2 DEF AnsweringAt
  <2>4. Shrinks(AnsweringAt(r)', AnsweringAt(r)) /\ AskedIn(inbox, r)' = AskedIn(inbox, r)
    BY <2>1, <2>3 DEF Shrinks, AtMostOne, AskedIn
  <2> QED
    BY <1>1, <1>2, <1>3, <2>1, <2>4, ShrinkingFits, ShrinkingSame
<1> QED
  BY <1>4, <1>5, <1>6

(* The steps of the reader: it rejects a request or passes it on.          *)
LEMMA ReaderAnswersOnce ==
  ASSUME AnswerInv, ReaderStep, NEW r \in ServerRequestIds
  PROVE  RequestFits(r)'
<1>1. RequestFits(r) /\ toClient \in Seq(Messages) /\ inbox \in Seq(Messages)
  BY DEF AnswerInv, TypeOK
<1>2. UNCHANGED <<task, asked>> /\ AnsweringAt(r)' = AnsweringAt(r)
  BY DEF ReaderStep, ReadFails, DeliverResponse, RejectStartupRequest, BeginRejection, EndRejection, RejectionFails,
     Forward, AnsweringAt, clientVars, serverVars
<1>3. ASSUME toClient' = Tail(toClient), toClient # << >>
      PROVE  /\ Shrinks(AskedIn(toClient, r)', AskedIn(toClient, r)) /\ Head(toClient) \in Messages
             /\ AtMostOne(AskedIn(toClient, r)) /\ Asks(Head(toClient), r) => AskedIn(toClient, r)' = {}
             /\ Asks(Head(toClient), r) => AskedIn(toClient, r) # {}
  <2>1. AskedIn(toClient, r)' = AskedIn(Tail(toClient), r)
    BY <1>3 DEF AskedIn
  <2> QED
    BY <1>1, <1>3, <2>1, TailAsks, HeadTail
<1>4. ASSUME EndReader PROVE AskedIn(inbox, r)' = AskedIn(inbox, r) /\ ~ Rejecting(r)'
  <2>1. Message("error", 0) \in Messages /\ ~ Asks(Message("error", 0), r)
    BY DEF Message, Messages, Asks
  <2>2. AskedIn(Append(inbox, Message("error", 0)), r) = AskedIn(inbox, r)
    BY <1>1, <2>1, AppendAsks
  <2> QED
    BY <1>4, <2>2 DEF EndReader, AskedIn, Rejecting, Message
<1>5. CASE ReadFails
  <2>1. Shrinks(AskedIn(toClient, r)', AskedIn(toClient, r)) /\ UNCHANGED answers
    BY <1>3, <1>5, ShrinkingSame DEF ReadFails, AskedIn
  <2> QED
    BY <1>1, <1>2, <1>4, <1>5, <2>1, ShrinkingFits, ShrinkingSame DEF ReadFails
<1>6. CASE RejectionFails
  <2>1. AskedIn(toClient, r)' = AskedIn(toClient, r) /\ UNCHANGED answers
    BY <1>6 DEF RejectionFails, AskedIn
  <2> QED
    BY <1>1, <1>2, <1>4, <1>6, <2>1, ShrinkingFits, ShrinkingSame DEF RejectionFails
<1>7. CASE DeliverResponse \/ BeginRejection
  <2>1. Shrinks(AskedIn(toClient, r)', AskedIn(toClient, r)) /\ AskedIn(inbox, r)' = AskedIn(inbox, r)
    BY <1>3, <1>7, ShrinkingSame DEF DeliverResponse, BeginRejection, AskedIn
  <2>2. UNCHANGED answers /\ (Rejecting(r)' <=> Rejecting(r))
    BY <1>7 DEF DeliverResponse, BeginRejection, Rejecting
  <2> QED
    BY <1>1, <1>2, <2>1, <2>2, ShrinkingFits, ShrinkingSame
<1>8. CASE RejectStartupRequest
  <2>1. /\ AskedIn(inbox, r)' = AskedIn(inbox, r) /\ UNCHANGED answers
        /\ ~ Rejecting(r) /\ (Rejecting(r)' <=> Asks(Head(toClient), r))
        /\ toClient' = Tail(toClient) /\ toClient # << >>
    BY <1>8 DEF RejectStartupRequest, AskedIn, Rejecting, MustReject, Asks, Message
  <2>2. CASE Asks(Head(toClient), r)
    BY <1>1, <1>2, <1>3, <2>1, <2>2 DEF RequestFits, Once, Unasked, AtMostOne
  <2>3. CASE ~ Asks(Head(toClient), r)
    BY <1>1, <1>2, <1>3, <2>1, <2>3, ShrinkingFits, ShrinkingSame
  <2> QED
    BY <2>2, <2>3
<1>9. CASE EndRejection
  <2>1. /\ AskedIn(inbox, r)' = AskedIn(inbox, r) /\ AskedIn(toClient, r)' = AskedIn(toClient, r)
        /\ ~ Rejecting(r)' /\ (reader.id = r <=> Rejecting(r))
    BY <1>9 DEF EndRejection, AskedIn, Rejecting, Message
  <2>2. answers'[r] = IF reader.id = r THEN answers[r] + 1 ELSE answers[r]
    BY <1>9 DEF EndRejection, AnswerInv, TypeOK
  <2>3. CASE reader.id = r
    <3>1. /\ AskedIn(toClient, r) = {} /\ AskedIn(inbox, r) = {} /\ AnsweringAt(r) = {} /\ answers[r] = 0
          /\ ~ (asked < r)
      BY <1>1, <2>1, <2>3 DEF RequestFits, Once, Unasked
    <3>2. answers'[r] = 1
      BY <2>2, <2>3, <3>1
    <3> QED
      BY <1>2, <2>1, <3>1, <3>2 DEF RequestFits, Once, AtMostOne
  <2>4. CASE reader.id # r
    BY <1>1, <1>2, <2>1, <2>2, <2>4, ShrinkingFits, ShrinkingSame
  <2> QED
    BY <2>3, <2>4
<1>10. CASE Forward
  <2>1. /\ toClient' = Tail(toClient) /\ toClient # << >> /\ inbox' = Append(inbox, Head(toClient))
        /\ UNCHANGED answers /\ (Rejecting(r)' <=> Rejecting(r))
    BY <1>10 DEF Forward, Rejecting
  <2>2. AskedIn(inbox, r)' = IF Asks(Head(toClient), r) THEN AskedIn(inbox, r) \cup {Len(inbox) + 1}
                             ELSE AskedIn(inbox, r)
    BY <1>1, <1>3, <2>1, AppendAsks DEF AskedIn
  <2>3. CASE Asks(Head(toClient), r)
    <3>1. /\ AskedIn(inbox, r) = {} /\ AnsweringAt(r) = {} /\ ~ Rejecting(r) /\ answers[r] = 0
          /\ AskedIn(toClient, r)' = {} /\ ~ (asked < r)
      BY <1>1, <1>3, <2>1, <2>3 DEF RequestFits, Once, Unasked
    <3>2. AskedIn(inbox, r)' = {Len(inbox) + 1}
      BY <2>2, <2>3, <3>1
    <3> QED
      BY <1>2, <2>1, <3>1, <3>2 DEF RequestFits, Once, AtMostOne
  <2>4. CASE ~ Asks(Head(toClient), r)
    BY <1>1, <1>2, <1>3, <2>1, <2>2, <2>4, ShrinkingFits, ShrinkingSame
  <2> QED
    BY <2>3, <2>4
<1> QED
  BY <1>5, <1>6, <1>7, <1>8, <1>9, <1>10 DEF ReaderStep

(* The steps of the child: it numbers its requests.                        *)
LEMMA ServerAsksOnce ==
  ASSUME AnswerInv, ServerStep, NEW r \in ServerRequestIds
  PROVE  RequestFits(r)'
<1>1. RequestFits(r) /\ toClient \in Seq(Messages) /\ asked \in Nat /\ r \in Nat
  BY TransportAssumption DEF AnswerInv, TypeOK, ServerRequestIds
<1>2. /\ UNCHANGED <<task, inbox, reader, answers>> /\ AnsweringAt(r)' = AnsweringAt(r)
      /\ AskedIn(inbox, r)' = AskedIn(inbox, r) /\ (Rejecting(r)' <=> Rejecting(r))
  BY DEF ServerStep, ServerRead, ServerNotify, ServerBabble, ServerRespond, ServerAsk, ServerStops, Say,
     AnsweringAt, AskedIn, Rejecting, clientVars
<1>3. CASE UNCHANGED <<toClient, asked>>
  <2>1. AskedIn(toClient, r)' = AskedIn(toClient, r)
    BY <1>3 DEF AskedIn
  <2> QED
    BY <1>1, <1>2, <1>3, <2>1, ShrinkingFits, ShrinkingSame
<1>4. ASSUME NEW m \in Messages, Say(m), UNCHANGED asked, ~ Asks(m, r) PROVE RequestFits(r)'
  <2>1. AskedIn(toClient, r)' = AskedIn(toClient, r)
    BY <1>1, <1>4, AppendAsks DEF Say, AskedIn
  <2> QED
    BY <1>1, <1>2, <1>4, <2>1, ShrinkingFits, ShrinkingSame
<1>5. CASE ServerNotify \/ ServerBabble
  <2>1. \A k \in {"notification", "unreadable"} : Message(k, 0) \in Messages /\ ~ Asks(Message(k, 0), r)
    BY DEF Message, Messages, Asks
  <2> QED
    BY <1>4, <1>5, <2>1 DEF ServerNotify, ServerBabble
<1>6. ASSUME NEW i \in RequestIds, ServerRespond(i) PROVE RequestFits(r)'
  <2>1. Message("response", i) \in Messages /\ ~ Asks(Message("response", i), r)
    BY TransportAssumption DEF Message, Messages, Asks, RequestIds
  <2> QED
    BY <1>4, <1>6, <2>1 DEF ServerRespond
<1>7. ASSUME NEW kind \in {"request", "startupRequest"}, ServerAsk(kind) PROVE RequestFits(r)'
  <2>1. PICK new \in Nat : new = asked + 1
    BY <1>1
  <2> DEFINE m == Message(kind, new)
  <2>2. m \in Messages /\ (Asks(m, r) <=> r = new)
    BY DEF Message, Messages, Asks
  <2>3. toClient' = Append(toClient, m) /\ asked' = new
    BY <1>7, <2>1 DEF ServerAsk, Say
  <2>4. AskedIn(toClient, r)' = IF r = new THEN AskedIn(toClient, r) \cup {Len(toClient) + 1} ELSE AskedIn(toClient, r)
    BY <1>1, <2>2, <2>3, AppendAsks DEF AskedIn
  <2>5. CASE r = new
    <3>1. Unasked(r) /\ ~ (asked' < r)
      BY <1>1, <2>1, <2>3, <2>5 DEF RequestFits
    <3>2. AskedIn(toClient, r)' = {Len(toClient) + 1}
      BY <2>4, <2>5, <3>1 DEF Unasked
    <3> QED
      BY <1>2, <3>1, <3>2 DEF Unasked, RequestFits, Once, AtMostOne
  <2>6. CASE r # new
    <3>1. asked' < r => asked < r
      BY <1>1, <2>1, <2>3
    <3> QED
      BY <1>1, <1>2, <2>4, <2>6, <3>1, ShrinkingFits, ShrinkingSame
  <2> QED
    BY <2>5, <2>6
<1> QED
  BY <1>3, <1>5, <1>6, <1>7 DEF ServerStep, ServerRead, ServerStops

LEMMA AnswerInitially == Init => AnswerInv
<1> SUFFICES ASSUME Init, NEW r \in ServerRequestIds PROVE RequestFits(r)
  BY TypeInit DEF AnswerInv
<1>1. AskedIn(toClient, r) = {} /\ AskedIn(inbox, r) = {}
  BY DEF Init, AskedIn
<1>2. AnsweringAt(r) = {} /\ ~ Rejecting(r) /\ answers[r] = 0
  BY DEF Init, AnsweringAt, Idle, Rejecting, Message
<1> QED
  BY <1>1, <1>2 DEF RequestFits, Once, Unasked, AtMostOne

LEMMA AnswerInductive == AnswerInv /\ [Next]_vars => AnswerInv'
<1> SUFFICES ASSUME AnswerInv, [Next]_vars PROVE AnswerInv'
  OBVIOUS
<1>1. TypeOK'
  BY TypeTask, TypeReader, TypeServer
  DEF AnswerInv, TypeOK, Next, vars, clientVars, stdinVars, serverVars
<1>2. CASE Next
  BY <1>1, <1>2, TaskAnswersOnce, ReaderAnswersOnce, ServerAsksOnce DEF AnswerInv, Next
<1>3. CASE UNCHANGED vars
  BY <1>1, <1>3 DEF AnswerInv, RequestFits, Once, Unasked, AskedIn, AnsweringAt, Rejecting, vars, clientVars, serverVars
<1> QED
  BY <1>2, <1>3

(* No request of the child is answered twice, whether the reader rejects   *)
(* it during a startup-sensitive request or a task answers it from the     *)
(* inbox: it is with one of them, or in one queue, or answered.            *)
THEOREM NoRequestAnsweredTwice == Spec => []AnsweredAtMostOnce
<1>1. AnswerInv => AnsweredAtMostOnce
  BY DEF AnswerInv, RequestFits, Once, AnsweredAtMostOnce
<1> QED
  BY <1>1, AnswerInitially, AnswerInductive, PTL DEF Spec
=============================================================================
