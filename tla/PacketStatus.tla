---------------------------- MODULE PacketStatus ----------------------------
(***************************************************************************)
(* PacketStatusActor (src/actors/actions/status.rs): the packets that wait *)
(* for an answer from the server, by packet identifier, and what the other *)
(* actors do with it (src/actors/packets/mod.rs, packets/macros.rs): set a *)
(* status and send the packet, remove a status when the answer comes, and  *)
(* after COMMAND_TIMEOUT ask whether the status is still there and, if it  *)
(* is, handle the packet's message again.                                  *)
(*                                                                         *)
(* A question to the status actor is asked by a task of its own, which     *)
(* waits for the answer: between the question and what is done with the    *)
(* answer every actor may run.                                             *)
(***************************************************************************)
EXTENDS Actors

CONSTANTS
    MaxId,          \* packet identifiers are 0 .. MaxId
    Payload,        \* what a status says of its packet
    MaxRetryCount,  \* MAX_RETRY_COUNT
    SendStatusRecipient  \* {"Disconnect"}, or {} for None

ASSUME StatusAssumption ==
    /\ MaxId \in Nat \ {0}
    /\ MaxRetryCount \in Nat
    /\ SendStatusRecipient \subseteq Actor \cap {"Disconnect"}

Id == 0 .. MaxId
NoStatus == "NoStatus"
Answer == Payload \cup {NoStatus, "Closed"}

VARIABLES
    packetStatus,  \* packet_status_map; NoStatus for an absent identifier
    timers,        \* bag of the status checks waiting for COMMAND_TIMEOUT
    asking,        \* bag of the tasks that have not sent their question yet
    answered       \* bag of the tasks with their question's answer

statusVars == <<packetStatus, timers, asking, answered>>

StatusInit ==
    /\ packetStatus = [id \in Id |-> NoStatus]
    /\ timers = EmptyBag
    /\ asking = EmptyBag
    /\ answered = EmptyBag

\* StatusOperationMessage.
SetPacketStatus(id, payload) == [type |-> "Status", op |-> "Set", id |-> id, payload |-> payload]
RemovePacketStatus(id)       == [type |-> "Status", op |-> "Remove", id |-> id]
GetAndRemovePacketStatus(task) ==
    [type |-> "Status", op |-> "GetAndRemove", id |-> task.id, task |-> task]

Answered(task, answer) == [task |-> task, answer |-> answer]

\* PacketSendStatus{finished}, for the DisconnectActor.
PacketSendStatus(map) ==
    [type |-> "PacketSendStatus", finished |-> \A id \in Id : map[id] = NoStatus]

-----------------------------------------------------------------------------
(* The status actor. *)

\* Mutant: GetAndRemove only gets.
ApplyGet(op) ==
    [packetStatus EXCEPT ![op.id] =
        CASE op.op = "Set" -> op.payload
          [] op.op = "Remove" -> NoStatus
          [] op.op = "GetAndRemove" -> @]

\* Mutant: nothing is ever removed.
ApplyInsert(op) == [packetStatus EXCEPT ![op.id] = IF op.op = "Set" THEN op.payload ELSE @]

\* The map after an operation.
Apply(op) ==
    [packetStatus EXCEPT ![op.id] = IF op.op = "Set" THEN op.payload ELSE NoStatus]

\* Mutant: the report is made before the operation.
ReportBefore(op) == PacketSendStatus(packetStatus)

\* What the DisconnectActor is told.
Report(op) == PacketSendStatus(Apply(op))

\* The handler: do the operation, tell the DisconnectActor whether packets are
\* still pending, answer a question.
StatusHandle ==
    /\ Handling("Status", "Status")
    /\ LET op == Head(mbox["Status"])
       IN  /\ packetStatus' = Apply(op)
           /\ answered' = IF op.op = "GetAndRemove"
                           THEN BagAdd(answered, Answered(op.task, packetStatus[op.id]))
                           ELSE answered
           /\ mbox' = [a \in Actor |->
                  IF a \in SendStatusRecipient \cap alive
                  THEN Append(mbox[a], Report(op))
                  ELSE Take("Status")[a]]
    /\ UNCHANGED <<alive, resends, timers, asking>>

-----------------------------------------------------------------------------
(* Actors that use it. *)

\* The task that asks about id and hands retry to actor a when the answer is
\* in expect.  owner is the actor whose context holds the timer, "Arbiter" for
\* a task that sleeps outside any actor.
StatusCheck(a, owner, id, retry, expect) ==
    [kind |-> "check", actor |-> a, owner |-> owner, id |-> id,
     msg |-> retry, expect |-> expect]

\* Mutant: the retry_count is passed on as it is.
RetriedAsIs(msg) == msg

\* retry_count + 1.
Retried(msg) == [msg EXCEPT !.retry = @ + 1]

\* Mutant: one attempt too many.
RetryExhaustedLate(msg) == msg.retry > MaxRetryCount + 1

\* assert_valid_retry_count: a message handled too often is given up and the
\* status of id removed.  box is what the handler did to the mailboxes before.
RetryExhausted(msg) == msg.retry > MaxRetryCount

\* Mutant: the status of a packet that is given up stays.
GiveUpSilently(box, id) == mbox' = box /\ UNCHANGED <<resends, timers>>

GiveUp(box, id) ==
    /\ mbox' = IF Closed("Status")
               THEN Post(box, "Stop", StopMessage)
               ELSE Post(box, "Status", RemovePacketStatus(id))
    /\ UNCHANGED <<resends, timers>>

\* Mutant: no return when the packet could not be sent, so the check is
\* scheduled although the message is handled again.
SetSendScheduleAlways(box, a, op, packet, check, retry) ==
    \/ /\ ~Accepts("Status")
       /\ HandleSendErrorWithResend("Status", box, a, retry)
       /\ UNCHANGED timers
    \/ /\ Accepts("Status")
       /\ IF Accepts("Send")
          THEN /\ mbox' = Post(Post(box, "Status", op), "Send", VariablePacketMessage(packet))
               /\ UNCHANGED resends
          ELSE HandleSendErrorWithResend("Send", Post(box, "Status", op), a, retry)
       /\ timers' = BagAdd(timers, check)

\* set_packet_status, send_packet, schedule_status_check: each only if the one
\* before succeeded; the first that fails makes actor a handle retry again.
SetSendSchedule(box, a, op, packet, check, retry) ==
    \/ /\ ~Accepts("Status")
       /\ HandleSendErrorWithResend("Status", box, a, retry)
       /\ UNCHANGED timers
    \/ /\ Accepts("Status")
       /\ ~Accepts("Send")
       /\ HandleSendErrorWithResend("Send", Post(box, "Status", op), a, retry)
       /\ UNCHANGED timers
    \/ /\ Accepts("Status")
       /\ Accepts("Send")
       /\ mbox' = Post(Post(box, "Status", op), "Send", VariablePacketMessage(packet))
       /\ timers' = BagAdd(timers, check)
       /\ UNCHANGED resends

\* impl_send_packet_actor: actor a handles msg, which makes it send a packet that
\* is itself to be answered.  op is what becomes of the status of the packet.
SendPacketHandle(a, msg, op, packet, expect) ==
    /\ IF RetryExhausted(msg)
       THEN GiveUp(Take(a), packet.id)
       ELSE SetSendSchedule(Take(a), a, op, packet,
                StatusCheck(a, a, packet.id, Retried(msg), expect), Retried(msg))
    /\ UNCHANGED <<alive, packetStatus, asking, answered>>

\* impl_response_packet_actor: the packet ends an exchange.  Its retry_count is
\* incremented for the resend but never read, and is left out.
ResponseHandle(a, type) ==
    /\ Handling(a, type)
    /\ LET msg == Head(mbox[a])
       IN  \/ /\ Accepts("Status")
              /\ mbox' = Post(Take(a), "Status", RemovePacketStatus(msg.packet.id))
              /\ UNCHANGED resends
           \/ /\ ~Accepts("Status")
              /\ HandleSendErrorWithResend("Status", Take(a), a, msg)
    /\ UNCHANGED <<alive, statusVars>>

-----------------------------------------------------------------------------
(* The tasks. *)

\* COMMAND_TIMEOUT is over: the task is spawned.
TimerFires ==
    \E t \in BagToSet(timers) :
        /\ timers' = BagRemove(timers, t)
        /\ asking' = BagAdd(asking, t)
        /\ UNCHANGED <<actorVars, packetStatus, answered>>

\* Mutant: the question waits for a status actor that has stopped.
AskStatusForever ==
    \E t \in BagToSet(asking) :
        /\ asking' = BagRemove(asking, t)
        /\ Accepts("Status")
        /\ mbox' = Post(mbox, "Status", GetAndRemovePacketStatus(t))
        /\ UNCHANGED <<alive, resends, packetStatus, timers, answered>>

\* status_recipient.send(..).await: waits while the mailbox is full.
AskStatus ==
    \E t \in BagToSet(asking) :
        /\ asking' = BagRemove(asking, t)
        /\ \/ /\ Accepts("Status")
              /\ mbox' = Post(mbox, "Status", GetAndRemovePacketStatus(t))
              /\ UNCHANGED answered
           \/ /\ Closed("Status")
              /\ answered' = BagAdd(answered, Answered(t, "Closed"))
              /\ UNCHANGED mbox
        /\ UNCHANGED <<alive, resends, packetStatus, timers>>

\* The answer to a status check.  A closed status actor stops the client, but
\* for a check that no actor's context owns (check_status_phase_2).
StatusChecked ==
    \E r \in BagToSet(answered) :
        /\ r.task.kind = "check"
        /\ answered' = BagRemove(answered, r)
        /\ \/ /\ r.answer \in r.task.expect
              /\ mbox' = Post(mbox, r.task.actor, r.task.msg)
           \/ /\ r.answer = "Closed"
              /\ mbox' = IF r.task.owner = "Arbiter" THEN mbox
                         ELSE Post(mbox, "Stop", StopMessage)
           \/ /\ r.answer \notin r.task.expect \cup {"Closed"}
              /\ mbox' = mbox
        /\ UNCHANGED <<alive, resends, packetStatus, timers, asking>>

TaskNext == TimerFires \/ AskStatus \/ StatusChecked

\* What may still make actor a handle a message that satisfies Test (again): the
\* message in its mailbox, a resend, or a status check wherever it has got to.
QuestionsFor(a, Test(_)) ==
    {i \in DOMAIN mbox["Status"] :
        /\ mbox["Status"][i].type = "Status"
        /\ mbox["Status"][i].op = "GetAndRemove"
        /\ mbox["Status"][i].task.actor = a
        /\ Test(mbox["Status"][i].task.msg)}

Continues(a, Test(_)) ==
    \/ \E i \in DOMAIN mbox[a] : Test(mbox[a][i])
    \/ \E t \in BagToSet(timers) \cup BagToSet(asking) : t.actor = a /\ Test(t.msg)
    \/ \E r \in BagToSet(answered) : r.task.actor = a /\ Test(r.task.msg)
    \/ \E r \in BagToSet(resends) : r.to = a /\ Test(r.msg)
    \/ QuestionsFor(a, Test) # {}

\* How many there are of them.
Copies(B, Test(_)) ==
    Cardinality(UNION {{e} \X (1 .. B[e]) : e \in {e \in BagToSet(B) : Test(e)}})
Continuations(a, Test(_)) ==
    LET InMailbox == {i \in DOMAIN mbox[a] : Test(mbox[a][i])}
        InResend(r) == r.to = a /\ Test(r.msg)
        InTask(t)   == t.actor = a /\ Test(t.msg)
        InAnswer(r) == r.task.actor = a /\ Test(r.task.msg)
    IN  Cardinality(InMailbox) + Cardinality(QuestionsFor(a, Test))
        + Copies(resends, InResend) + Copies(timers, InTask)
        + Copies(asking, InTask) + Copies(answered, InAnswer)

-----------------------------------------------------------------------------
\* The questions in a mailbox, as a bag of unanswerable ones.
Unanswerable(box) ==
    LET Questions == {j \in DOMAIN box : box[j].type = "Status" /\ box[j].op = "GetAndRemove"}
    IN  [r \in {Answered(box[j].task, "Closed") : j \in Questions} |->
            Cardinality({j \in Questions : box[j].task = r.task})]

\* Actor a handles the StopMessage: it stops, and with it go its mailbox and
\* the timers of its context.  Questions the status actor did not get to are
\* answered "Closed"; RecvActor::stopped tells the StopActor once more.
HandleStop(a) ==
    /\ Handling(a, "Stop")
    /\ alive' = alive \ {a}
    /\ mbox' = LET box == [mbox EXCEPT ![a] = <<>>]
               IN  IF a = "Recv" THEN Post(box, "Stop", StopMessage) ELSE box
    /\ timers' = [t \in {t \in BagToSet(timers) : t.owner # a} |-> timers[t]]
    /\ answered' = IF a = "Status" THEN answered (+) Unanswerable(mbox[a]) ELSE answered
    /\ UNCHANGED <<resends, packetStatus, asking>>

=============================================================================
