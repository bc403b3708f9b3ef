--------------------------- MODULE Closing_proofs ---------------------------
(***************************************************************************)
(* Proofs about Closing: what the DisconnectActor believes of the packets  *)
(* that are pending is, or is about to be, true, and a disconnection that  *)
(* waits is not forgotten.                                                 *)
(***************************************************************************)
EXTENDS Closing, OutgoingPublish_proofs

(* The inductive invariant.  BeliefIsCurrent is disturbed by whatever else  *)
(* reaches the mailbox of DisconnectActor, so the invariant also says what  *)
(* cannot: the only resend to DisconnectActor is of its last handler.       *)

NoResendToLiving ==
    \A r \in BagToSet(resends) : r.to = "Disconnect" => "Disconnect" \notin alive
PendingIsUnfinished == pendingDisconnect => ~packetSendFinished

BeliefInv ==
    /\ mbox["Disconnect"] \in Seq(SendStatusMessages \cup DisconnectMessages)
    /\ NoResendToLiving
    /\ PendingIsUnfinished
    /\ BeliefIsCurrent

ClosingInv == TypeOK /\ DisconnectTypeOK /\ BeliefInv

-----------------------------------------------------------------------------
(* What an actor is told, by the messages in its mailbox. *)

LEMMA ToldNothingNew ==
    ASSUME NEW S, NEW box \in Seq(S), NEW msg \in S, msg.type # "PacketSendStatus"
    PROVE  ToldIn(Append(box, msg)) = ToldIn(box)
  BY DEF ToldIn

LEMMA BelieveAfterOther ==
    ASSUME NEW S, NEW box \in Seq(S), NEW msg \in S, msg.type # "PacketSendStatus",
           NEW belief, NEW what, WillBelieve(box, belief, what)
    PROVE  WillBelieve(Append(box, msg), belief, what)
  <1>1. \A i \in DOMAIN box : Append(box, msg)[i] = box[i]
    OBVIOUS
  <1> QED
    BY <1>1, ToldNothingNew DEF WillBelieve, ToldIn

LEMMA BelieveAfterReport ==
    ASSUME NEW S, NEW box \in Seq(S), NEW msg \in S, msg.type = "PacketSendStatus",
           NEW belief
    PROVE  WillBelieve(Append(box, msg), belief, msg.finished)
  <1> DEFINE n == Len(box) + 1
             new == Append(box, msg)
  <1>1. n \in Nat /\ new[n] = msg /\ DOMAIN new = 1 .. n
    OBVIOUS
  <1>2. n \in ToldIn(new)
    BY <1>1 DEF ToldIn
  <1>3. ASSUME NEW i \in ToldIn(new), \A j \in ToldIn(new) : j <= i
        PROVE  new[i].finished = msg.finished
    <2>1. i \in 1 .. n /\ n <= i
      BY <1>1, <1>2, <1>3 DEF ToldIn
    <2>2. i = n
      BY <1>1, <2>1
    <2> QED
      BY <1>1, <2>2
  <1> QED
    BY <1>2, <1>3 DEF WillBelieve

\* Taking the first message: a report becomes the belief.
LEMMA BelieveAfterTake ==
    ASSUME NEW S, NEW box \in Seq(S), box # <<>>, NEW belief, NEW what,
           WillBelieve(box, belief, what)
    PROVE  WillBelieve(Tail(box),
               IF Head(box).type = "PacketSendStatus" THEN Head(box).finished ELSE belief, what)
  <1> DEFINE rest == Tail(box)
             now == IF Head(box).type = "PacketSendStatus" THEN Head(box).finished ELSE belief
  <1>1. /\ Len(box) \in Nat \ {0}
        /\ DOMAIN box = 1 .. Len(box)
        /\ DOMAIN rest = 1 .. Len(box) - 1
        /\ \A i \in 1 .. Len(box) - 1 : rest[i] = box[i + 1]
        /\ Head(box) = box[1]
    OBVIOUS
  <1> HIDE DEF rest
  <1>2. \A i \in ToldIn(rest) : i \in Nat /\ i + 1 \in ToldIn(box)
    BY <1>1 DEF ToldIn
  <1>3. \A i \in ToldIn(box) : i = 1 \/ i - 1 \in ToldIn(rest)
    <2> SUFFICES ASSUME NEW i \in ToldIn(box), i # 1
                 PROVE  i - 1 \in ToldIn(rest)
      OBVIOUS
    <2>1. i \in 1 .. Len(box) /\ box[i].type = "PacketSendStatus"
      BY <1>1 DEF ToldIn
    <2>2. i - 1 \in 1 .. Len(box) - 1 /\ (i - 1) + 1 = i
      BY <1>1, <2>1
    <2>3. rest[i - 1] = box[i]
      BY <1>1, <2>2
    <2> QED
      BY <1>1, <2>1, <2>2, <2>3 DEF ToldIn
  <1>4. ASSUME ToldIn(rest) = {} PROVE now = what
    <2>1. ToldIn(box) \subseteq {1}
      BY <1>3, <1>4
    <2>2. CASE Head(box).type = "PacketSendStatus"
      <3>1. 1 \in ToldIn(box)
        BY <1>1, <2>2 DEF ToldIn
      <3>2. \A j \in ToldIn(box) : j <= 1
        BY <2>1
      <3> QED
        BY <1>1, <2>2, <3>1, <3>2 DEF WillBelieve
    <2>3. CASE Head(box).type # "PacketSendStatus"
      <3>1. ToldIn(box) = {}
        BY <1>1, <2>1, <2>3 DEF ToldIn
      <3> QED
        BY <2>3, <3>1 DEF WillBelieve
    <2> QED
      BY <2>2, <2>3
  <1>5. ASSUME NEW i \in ToldIn(rest), \A j \in ToldIn(rest) : j <= i
        PROVE  rest[i].finished = what
    <2>1. i \in Nat /\ i + 1 \in ToldIn(box)
      BY <1>2
    <2>2. \A j \in ToldIn(box) : j <= i + 1
      <3> SUFFICES ASSUME NEW j \in ToldIn(box) PROVE j <= i + 1
        OBVIOUS
      <3>1. j \in Nat
        BY <1>1 DEF ToldIn
      <3>2. j = 1 \/ j - 1 <= i
        BY <1>3, <1>5
      <3> QED
        BY <2>1, <3>1, <3>2
    <2>3. box[i + 1].finished = what
      BY <2>1, <2>2 DEF WillBelieve
    <2>4. rest[i] = box[i + 1]
      BY <1>1 DEF ToldIn
    <2> QED
      BY <2>3, <2>4
  <1> HIDE DEF now
  <1>6. WillBelieve(rest, now, what)
    BY <1>4, <1>5 DEF WillBelieve
  <1> QED
    BY <1>6 DEF rest, now

-----------------------------------------------------------------------------
(* Steps that DisconnectActor learns nothing from. *)

\* Its mailbox is in box what it is now.
Same(box) == "Disconnect" \in DOMAIN box /\ box["Disconnect"] = mbox["Disconnect"]

Quiet ==
    /\ mbox'["Disconnect"] = mbox["Disconnect"]
    /\ alive' \subseteq alive
    /\ \A r \in BagToSet(resends') : r \in BagToSet(resends) \/ r.to # "Disconnect"
    /\ UNCHANGED packetStatus

LEMMA QuietKeepsBelief ==
    ASSUME BeliefInv, Quiet, UNCHANGED <<packetSendFinished, pendingDisconnect>>
    PROVE  BeliefInv'
  <1>1. NoResendToLiving'
    BY DEF BeliefInv, Quiet, NoResendToLiving
  <1>2. NothingPending' = NothingPending
    BY DEF Quiet, NothingPending
  <1>3. BeliefIsCurrent'
    BY <1>2 DEF BeliefInv, Quiet, BeliefIsCurrent, WillBelieve, ToldIn
  <1> QED
    BY <1>1, <1>3 DEF BeliefInv, Quiet, PendingIsUnfinished

LEMMA MailboxSame == TypeOK => Same(mbox)
  BY DisconnectAssumption DEF TypeOK, MailboxesOK, Same

LEMMA PostSame ==
    ASSUME NEW box, Same(box), NEW a, a # "Disconnect", NEW msg
    PROVE  Same(Post(box, a, msg))
  BY DEF Post, Same

LEMMA EmptiedSame ==
    ASSUME NEW box, Same(box), NEW a, a # "Disconnect"
    PROVE  Same([box EXCEPT ![a] = <<>>])
  BY DEF Same

LEMMA TakeSame ==
    ASSUME TypeOK, NEW a, a # "Disconnect"
    PROVE  Same(Take(a))
  BY MailboxSame DEF Take, Same

LEMMA PostStopSame ==
    ASSUME NEW box, Same(box)
    PROVE  Same(Post(box, "Stop", StopMessage))
  BY PostSame

LEMMA SendErrorQuiet ==
    ASSUME NEW target, NEW box, Same(box), HandleSendError(target, box)
    PROVE  mbox'["Disconnect"] = mbox["Disconnect"]
  BY PostStopSame DEF HandleSendError, Same

LEMMA SendErrorWithResendQuiet ==
    ASSUME NEW target, NEW box, Same(box), NEW a, a # "Disconnect", NEW msg,
           HandleSendErrorWithResend(target, box, a, msg)
    PROVE  /\ mbox'["Disconnect"] = mbox["Disconnect"]
           /\ \A r \in BagToSet(resends') : r \in BagToSet(resends) \/ r.to # "Disconnect"
  <1>1. mbox'["Disconnect"] = mbox["Disconnect"]
    BY PostStopSame DEF HandleSendErrorWithResend, Same
  <1>2. CASE UNCHANGED resends
    BY <1>1, <1>2
  <1>3. CASE resends' = BagAdd(resends, [to |-> a, msg |-> msg])
    BY <1>1, <1>3, BagAddElements
  <1> QED
    BY <1>2, <1>3 DEF HandleSendErrorWithResend

LEMMA GiveUpQuiet ==
    ASSUME NEW box, Same(box), NEW id, GiveUp(box, id)
    PROVE  mbox'["Disconnect"] = mbox["Disconnect"] /\ UNCHANGED resends
  <1>1. Same(Post(box, "Stop", StopMessage)) /\ Same(Post(box, "Status", RemovePacketStatus(id)))
    BY PostSame
  <1> QED
    BY <1>1 DEF GiveUp, Same

LEMMA SetSendScheduleQuiet ==
    ASSUME NEW box, Same(box), NEW a, a # "Disconnect", NEW op, NEW packet, NEW check,
           NEW retry, SetSendSchedule(box, a, op, packet, check, retry)
    PROVE  /\ mbox'["Disconnect"] = mbox["Disconnect"]
           /\ \A r \in BagToSet(resends') : r \in BagToSet(resends) \/ r.to # "Disconnect"
  <1>1. Same(Post(box, "Status", op))
    BY PostSame
  <1>2. Same(Post(Post(box, "Status", op), "Send", VariablePacketMessage(packet)))
    BY <1>1, PostSame
  <1>3. CASE ~Accepts("Status")
    BY <1>3, SendErrorWithResendQuiet DEF SetSendSchedule
  <1>4. CASE Accepts("Status") /\ ~Accepts("Send")
    BY <1>1, <1>4, SendErrorWithResendQuiet DEF SetSendSchedule
  <1>5. CASE Accepts("Status") /\ Accepts("Send")
    BY <1>2, <1>5 DEF SetSendSchedule, Same
  <1> QED
    BY <1>3, <1>4, <1>5

-----------------------------------------------------------------------------
(* Publishing is quiet but for the status actor's handler. *)

LEMMA ClientPublishQuiet ==
    ASSUME TypeOK, NEW m, ClientPublish(m)
    PROVE  Quiet
  <1>1. Same(Post(mbox, "SendPublish", Publish(m, 0)))
    BY MailboxSame, PostSame
  <1> QED
    BY <1>1 DEF ClientPublish, Quiet, Same, statusVars

LEMMA SendPublishHandleQuiet ==
    ASSUME TypeOK, SendPublishHandle
    PROVE  Quiet
  <1> DEFINE msg == Head(mbox["SendPublish"])
             m == msg.m
             box == Take("SendPublish")
             id == IF QoS[m] = 0 THEN 0 ELSE NextId
             packet == PublishPacket(m, id)
             op == SetPacketStatus(id, FirstStatus(m))
             check == StatusCheck("SendPublish", "SendPublish", id, Retried(msg), Unanswered(m))
  <1>1. Same(box)
    BY TakeSame
  <1>2. Same(Post(box, "Send", VariablePacketMessage(packet)))
    BY <1>1, PostSame
  <1>3. /\ mbox'["Disconnect"] = mbox["Disconnect"]
        /\ \A r \in BagToSet(resends') : r \in BagToSet(resends) \/ r.to # "Disconnect"
    <2>1. CASE GiveUp(box, 0)
      BY <2>1, <1>1, GiveUpQuiet
    <2>2. CASE mbox' = box /\ UNCHANGED resends
      BY <2>2, <1>1 DEF Same
    <2>3. CASE /\ IF Accepts("Send")
                  THEN mbox' = Post(box, "Send", VariablePacketMessage(packet))
                  ELSE HandleSendError("Send", box)
               /\ UNCHANGED resends
      BY <2>3, <1>1, <1>2, SendErrorQuiet DEF Same
    <2>4. CASE SetSendSchedule(box, "SendPublish", op, packet, check, Retried(msg))
      BY <2>4, <1>1, SetSendScheduleQuiet
    <2> HIDE DEF packet, op, check
    <2> QED
      BY <2>1, <2>2, <2>3, <2>4 DEF SendPublishHandle, packet, op, check
  <1> QED
    BY <1>3 DEF SendPublishHandle, Quiet

LEMMA ResponseHandleQuiet ==
    ASSUME TypeOK, NEW a, a # "Disconnect", ResponseHandle(a, a)
    PROVE  Quiet
  <1> DEFINE msg == Head(mbox[a])
  <1>1. Same(Take(a))
    BY TakeSame
  <1>2. Same(Post(Take(a), "Status", RemovePacketStatus(msg.packet.id)))
    BY <1>1, PostSame
  <1>3. CASE HandleSendErrorWithResend("Status", Take(a), a, msg)
    BY <1>1, <1>3, SendErrorWithResendQuiet DEF ResponseHandle, Quiet, statusVars
  <1>4. CASE /\ mbox' = Post(Take(a), "Status", RemovePacketStatus(msg.packet.id))
             /\ UNCHANGED resends
    BY <1>2, <1>4 DEF ResponseHandle, Quiet, Same, statusVars
  <1> QED
    BY <1>3, <1>4 DEF ResponseHandle

LEMMA PubrecHandleQuiet ==
    ASSUME TypeOK, PubrecHandle
    PROVE  Quiet
  <1> DEFINE msg == Head(mbox["Pubrec"])
             box == Take("Pubrec")
             id == msg.packet.id
             packet == [type |-> "Pubrel", id |-> id]
             op == SetPacketStatus(id, "PendingComp")
             check == StatusCheck("Pubrec", "Pubrec", id, Retried(msg), {"PendingRec"})
  <1>1. Same(box)
    BY TakeSame
  <1>2. CASE GiveUp(box, id)
    BY <1>1, <1>2, GiveUpQuiet DEF PubrecHandle, SendPacketHandle, Quiet
  <1>3. CASE SetSendSchedule(box, "Pubrec", op, packet, check, Retried(msg))
    <2> HIDE DEF packet, op, check
    <2> QED
      BY <1>1, <1>3, SetSendScheduleQuiet DEF PubrecHandle, SendPacketHandle, Quiet
  <1> QED
    BY <1>2, <1>3 DEF PubrecHandle, SendPacketHandle

-----------------------------------------------------------------------------
(* So is all that goes on in the background. *)

LEMMA ResendQuiet ==
    ASSUME TypeOK, NoResendToLiving, Resend, UNCHANGED statusVars
    PROVE  Quiet
  <1>1. PICK r \in BagToSet(resends) :
            /\ mbox' = Post(mbox, r.to, r.msg)
            /\ resends' = BagRemove(resends, r)
            /\ UNCHANGED alive
    BY DEF Resend
  <1>2. CASE r.to = "Disconnect"
    BY <1>1, <1>2, BagRemoveElements DEF NoResendToLiving, Post, Quiet, statusVars
  <1>3. CASE r.to # "Disconnect"
    <2>1. Same(Post(mbox, r.to, r.msg))
      BY <1>3, MailboxSame, PostSame
    <2> QED
      BY <1>1, <2>1, BagRemoveElements DEF Quiet, Same, statusVars
  <1> QED
    BY <1>2, <1>3

LEMMA BroadcastStopQuiet ==
    ASSUME TypeOK, BroadcastStop, UNCHANGED statusVars
    PROVE  Quiet
  BY DisconnectAssumption DEF BroadcastStop, Quiet, statusVars

LEMMA TimerFiresQuiet ==
    ASSUME TypeOK, TimerFires
    PROVE  Quiet
  BY DEF TimerFires, Quiet, actorVars

LEMMA AskStatusQuiet ==
    ASSUME TypeOK, AskStatus
    PROVE  Quiet
  <1>1. \A t : Same(Post(mbox, "Status", GetAndRemovePacketStatus(t)))
    BY MailboxSame, PostSame
  <1> QED
    BY <1>1 DEF AskStatus, Quiet, Same

LEMMA StatusCheckedQuiet ==
    ASSUME TypeOK, StatusChecked
    PROVE  Quiet
  <1>1. PICK r \in BagToSet(answered) :
            /\ \/ mbox' = Post(mbox, r.task.actor, r.task.msg)
               \/ mbox' = Post(mbox, "Stop", StopMessage)
               \/ mbox' = mbox
            /\ UNCHANGED <<alive, resends, packetStatus, timers, asking>>
    BY DEF StatusChecked
  <1>2. r.task.actor # "Disconnect"
    BY DEF TypeOK, Tasks, ChecksOf
  <1>3. Same(Post(mbox, r.task.actor, r.task.msg)) /\ Same(Post(mbox, "Stop", StopMessage))
    BY <1>2, MailboxSame, PostSame
  <1> QED
    BY <1>1, <1>3 DEF Quiet, Same

LEMMA SendHandleQuiet ==
    ASSUME TypeOK, SendHandle, UNCHANGED statusVars
    PROVE  Quiet
  <1>1. Same(Take("Send"))
    BY TakeSame
  <1> QED
    BY <1>1 DEF SendHandle, Quiet, Same, statusVars

LEMMA RecvPacketQuiet ==
    ASSUME TypeOK, RecvPacket, UNCHANGED statusVars
    PROVE  Quiet
  <1>1. Same(Post(mbox, "Dispatch", VariablePacketMessage(Head(fromBroker))))
    BY MailboxSame, PostSame
  <1> QED
    BY <1>1 DEF RecvPacket, Quiet, Same, statusVars

LEMMA DispatchHandleQuiet ==
    ASSUME TypeOK, DispatchHandle, UNCHANGED statusVars
    PROVE  Quiet
  <1> DEFINE packet == Head(mbox["Dispatch"]).packet
             box == Take("Dispatch")
  <1>1. MailboxesOK(mbox) /\ Handling("Dispatch", "Packet") /\ "Dispatch" \in Actor
    BY ActorAssumption DEF DispatchHandle, TypeOK
  <1>2. packet \in ServerPackets
    BY <1>1, TakeOK, HeadOfDispatch
  <1>3. Target[packet.type] # "Disconnect"
    BY <1>2, OutgoingAssumption DEF ServerPackets, AnswerPackets
  <1>4. Same(box)
    BY TakeSame
  <1>5. Same(Post(box, Target[packet.type], PacketMessage(packet, 0)))
    BY <1>3, <1>4, PostSame
  <1> QED
    BY <1>4, <1>5, SendErrorQuiet DEF DispatchHandle, Quiet, Same, statusVars

LEMMA RecvFailsQuiet ==
    ASSUME TypeOK, RecvFails, UNCHANGED statusVars
    PROVE  Quiet
  <1> DEFINE box == IF Accepts("Stop") THEN Post(mbox, "Stop", StopMessage) ELSE mbox
  <1>1. Same(box)
    BY MailboxSame, PostStopSame
  <1>2. mbox' = [Post(box, "Stop", StopMessage) EXCEPT !["Recv"] = <<>>]
    BY DEF RecvFails
  <1> HIDE DEF box
  <1>3. Same([Post(box, "Stop", StopMessage) EXCEPT !["Recv"] = <<>>])
    BY <1>1, PostStopSame, EmptiedSame
  <1> QED
    BY <1>2, <1>3 DEF RecvFails, Quiet, Same, statusVars

LEMMA WriteErrorQuiet ==
    ASSUME TypeOK, WriteError, UNCHANGED statusVars
    PROVE  Quiet
  <1>1. Same([Post(mbox, "Stop", StopMessage) EXCEPT !["Send"] = <<>>])
    BY MailboxSame, PostStopSame, EmptiedSame
  <1> QED
    BY <1>1 DEF WriteError, Quiet, Same, statusVars

LEMMA DispatchOrphanedQuiet ==
    ASSUME TypeOK, DispatchOrphaned, UNCHANGED statusVars
    PROVE  Quiet
  BY DEF DispatchOrphaned, Quiet, statusVars

LEMMA StopHandleQuiet ==
    ASSUME TypeOK, StopHandle
    PROVE  Quiet
  <1>1. PICK a \in Registered : HandleStop(a)
    BY DEF StopHandle
  <1> DEFINE box == [mbox EXCEPT ![a] = <<>>]
  <1>2. a # "Disconnect"
    BY DisconnectAssumption
  <1>3. Same(box)
    BY <1>2, MailboxSame, EmptiedSame
  <1>4. mbox' = IF a = "Recv" THEN Post(box, "Stop", StopMessage) ELSE box
    BY <1>1 DEF HandleStop
  <1> HIDE DEF box
  <1>5. Same(Post(box, "Stop", StopMessage))
    BY <1>3, PostStopSame
  <1> QED
    BY <1>1, <1>3, <1>4, <1>5 DEF HandleStop, Quiet, Same

LEMMA BackgroundQuiet ==
    ASSUME TypeOK, NoResendToLiving, Background
    PROVE  Quiet
  <1>1. CASE Resend /\ UNCHANGED <<statusVars, wireVars>>
    BY <1>1, ResendQuiet
  <1>2. CASE BroadcastStop /\ UNCHANGED <<statusVars, wireVars>>
    BY <1>2, BroadcastStopQuiet
  <1>3. CASE TaskNext /\ UNCHANGED wireVars
    BY <1>3, TimerFiresQuiet, AskStatusQuiet, StatusCheckedQuiet DEF TaskNext
  <1>4. CASE TransportNext /\ UNCHANGED statusVars
    BY <1>4, SendHandleQuiet, RecvPacketQuiet, DispatchHandleQuiet, RecvFailsQuiet,
       WriteErrorQuiet, DispatchOrphanedQuiet DEF TransportNext, RecvError
  <1>5. CASE StopHandle
    BY <1>5, StopHandleQuiet
  <1> QED
    BY <1>1, <1>2, <1>3, <1>4, <1>5 DEF Background

-----------------------------------------------------------------------------
(* Exchange: every step of it is quiet, or tells DisconnectActor the truth. *)

LEMMA StatusHandleBelief ==
    ASSUME TypeOK, BeliefInv, StatusHandle, UNCHANGED <<packetSendFinished, pendingDisconnect>>
    PROVE  BeliefInv'
  <1> DEFINE op == Head(mbox["Status"])
             S == SendStatusMessages \cup DisconnectMessages
  <1>1. mbox["Disconnect"] \in Seq(S) /\ Report(op) \in S
    BY DEF BeliefInv, Report, PacketSendStatus, SendStatusMessages
  <1>2. mbox'["Disconnect"] = IF "Disconnect" \in alive
                              THEN Append(mbox["Disconnect"], Report(op))
                              ELSE mbox["Disconnect"]
    <2>1. Same(Take("Status"))
      BY TakeSame
    <2> QED
      BY <2>1, DisconnectAssumption DEF StatusHandle, Same
  <1>3. Report(op).type = "PacketSendStatus" /\ Report(op).finished = NothingPending'
    BY DEF StatusHandle, Report, PacketSendStatus, NothingPending
  <1>4. mbox'["Disconnect"] \in Seq(S)
    BY <1>1, <1>2
  <1>5. BeliefIsCurrent'
    <2>1. CASE "Disconnect" \in alive
      <3>1. WillBelieve(mbox'["Disconnect"], packetSendFinished', Report(op).finished)
        BY <2>1, <1>1, <1>2, <1>3, BelieveAfterReport
      <3> QED
        BY <3>1, <1>3 DEF BeliefIsCurrent, WillBelieve, ToldIn
    <2>2. CASE "Disconnect" \notin alive
      BY <2>2 DEF StatusHandle, BeliefIsCurrent
    <2> QED
      BY <2>1, <2>2
  <1> QED
    BY <1>4, <1>5 DEF StatusHandle, BeliefInv, NoResendToLiving, PendingIsUnfinished

LEMMA ExchangeInv ==
    ASSUME TypeOK, BeliefInv, Exchange, UNCHANGED <<packetSendFinished, pendingDisconnect>>
    PROVE  TypeOK' /\ BeliefInv'
  <1>1. CASE SendPublishHandle
    BY <1>1, SendPublishHandleOK, SendPublishHandleQuiet, QuietKeepsBelief
  <1>2. CASE PubackHandle
    BY <1>2, ResponseHandleOK, ResponseHandleQuiet, QuietKeepsBelief DEF PubackHandle
  <1>3. CASE PubrecHandle
    BY <1>3, PubrecHandleOK, PubrecHandleQuiet, QuietKeepsBelief
  <1>4. CASE PubcompHandle
    BY <1>4, ResponseHandleOK, ResponseHandleQuiet, QuietKeepsBelief DEF PubcompHandle
  <1>5. CASE PublishStatusHandle
    BY <1>5, PublishStatusHandleOK, StatusHandleBelief DEF PublishStatusHandle
  <1>6. CASE BrokerRead
    <2>1. Quiet
      BY <1>6 DEF BrokerRead, Quiet, actorVars, statusVars
    <2> QED
      BY <1>6, <2>1, BrokerReadOK, QuietKeepsBelief
  <1>7. CASE Background /\ UNCHANGED outVars
    BY <1>7, BackgroundOK, BackgroundQuiet, QuietKeepsBelief DEF BeliefInv
  <1> QED
    BY <1>1, <1>2, <1>3, <1>4, <1>5, <1>6, <1>7 DEF Exchange

-----------------------------------------------------------------------------
(* DisconnectActor and the client's calls. *)

LEMMA DisconnectMessageOK ==
    ASSUME NEW force \in BOOLEAN, NEW by \in {"client", "self"}
    PROVE  /\ DisconnectMessage(force, by) \in DisconnectMessages
           /\ DisconnectMessage(force, by) \in MessagesTo("Disconnect")
           /\ DisconnectMessage(force, by).type # "PacketSendStatus"
  BY DisconnectAssumption DEF DisconnectMessage, DisconnectMessages, MessagesTo

LEMMA HeadOfDisconnect ==
    ASSUME TypeOK, BeliefInv, NEW type, Handling("Disconnect", type)
    PROVE  /\ MailboxesOK(Take("Disconnect"))
           /\ Head(mbox["Disconnect"]).type = type
           /\ Head(mbox["Disconnect"]) \in SendStatusMessages \cup DisconnectMessages
           /\ Take("Disconnect")["Disconnect"] = Tail(mbox["Disconnect"])
           /\ Tail(mbox["Disconnect"]) \in Seq(SendStatusMessages \cup DisconnectMessages)
           /\ mbox["Disconnect"] # <<>>
  <1>1. mbox["Disconnect"] \in Seq(SendStatusMessages \cup DisconnectMessages)
    BY DEF BeliefInv
  <1>2. mbox["Disconnect"] # <<>> /\ Head(mbox["Disconnect"]).type = type
    BY DEF Handling
  <1>3. MailboxesOK(Take("Disconnect"))
    BY TakeOK, DisconnectAssumption DEF TypeOK
  <1>4. Take("Disconnect")["Disconnect"] = Tail(mbox["Disconnect"])
    BY MailboxSame DEF Take, Same
  <1> QED
    BY <1>1, <1>2, <1>3, <1>4, HeadTailProperties

LEMMA ClientDisconnectInv ==
    ASSUME ClosingInv, NEW force \in BOOLEAN, ClientDisconnect(force), UNCHANGED outVars
    PROVE  ClosingInv'
  <1> DEFINE msg == DisconnectMessage(force, "client")
             S == SendStatusMessages \cup DisconnectMessages
  <1>1. /\ mbox["Disconnect"] \in Seq(S) /\ msg \in S
        /\ msg \in MessagesTo("Disconnect") /\ msg.type # "PacketSendStatus"
    BY DisconnectMessageOK DEF ClosingInv, BeliefInv
  <1>2. CASE /\ mbox' = Post(mbox, "Disconnect", msg)
             /\ Accepts("Disconnect")
    <2>1. MailboxesOK(mbox')
      BY <1>1, <1>2, PostOK, StopActorAlive DEF ClosingInv, TypeOK
    <2>2. mbox'["Disconnect"] = Append(mbox["Disconnect"], msg)
      BY <1>2, MailboxSame DEF Post, Accepts, Same, ClosingInv
    <2> HIDE DEF msg, S
    <2>3. mbox'["Disconnect"] \in Seq(S)
      BY <1>1, <2>2
    <2>4. BeliefIsCurrent'
      <3>1. NothingPending' = NothingPending
        BY DEF ClientDisconnect, NothingPending, statusVars
      <3>2. SUFFICES ASSUME {"Disconnect", "Status"} \subseteq alive
                     PROVE  WillBelieve(mbox'["Disconnect"], packetSendFinished, NothingPending)
        BY <3>1 DEF ClientDisconnect, BeliefIsCurrent, WillBelieve, ToldIn
      <3> QED
        BY <1>1, <2>2, <3>2, BelieveAfterOther DEF ClosingInv, BeliefInv, BeliefIsCurrent
    <2> QED
      BY <2>1, <2>3, <2>4
         DEF ClientDisconnect, ClosingInv, TypeOK, DisconnectTypeOK, BeliefInv, ClearAllAddrs, Idle,
             NoResendToLiving, PendingIsUnfinished, statusVars, wireVars, outVars, S
  <1>3. CASE UNCHANGED mbox
    <2>1. Quiet
      BY <1>3 DEF ClientDisconnect, Quiet, statusVars
    <2>2. BeliefInv'
      BY <2>1, QuietKeepsBelief DEF ClientDisconnect, ClosingInv
    <2> QED
      BY <1>3, <2>2
         DEF ClientDisconnect, ClosingInv, TypeOK, MailboxesOK, DisconnectTypeOK, ClearAllAddrs,
             Idle, statusVars, wireVars, outVars
  <1> QED
    BY <1>2, <1>3 DEF ClientDisconnect

LEMMA DisconnectReturnsInv ==
    ASSUME ClosingInv, DisconnectReturns, UNCHANGED outVars
    PROVE  ClosingInv'
  <1>1. Quiet
    BY DEF DisconnectReturns, Quiet, sessionVars, actorVars, statusVars
  <1>2. BeliefInv'
    BY <1>1, QuietKeepsBelief DEF DisconnectReturns, ClosingInv
  <1> QED
    BY <1>2 DEF DisconnectReturns, ClosingInv, TypeOK, MailboxesOK, DisconnectTypeOK,
                ClearAllAddrs, Idle, sessionVars, actorVars, statusVars, wireVars, outVars

LEMMA SendDisconnectInv ==
    ASSUME ClosingInv, Handling("Disconnect", "Disconnect"),
           SendDisconnect(Head(mbox["Disconnect"])),
           UNCHANGED <<statusVars, wireVars, outVars, disconnectVars>>
    PROVE  ClosingInv'
  <1> DEFINE msg == Head(mbox["Disconnect"])
             box == [mbox EXCEPT !["Disconnect"] = <<>>]
             sent == IF Accepts("Send")
                     THEN Post(box, "Send", VariablePacketMessage(DisconnectPacket))
                     ELSE IF Closed("Send") THEN Post(box, "Stop", StopMessage) ELSE box
  <1>1. msg \in DisconnectMessages
    BY HeadOfDisconnect DEF ClosingInv, SendStatusMessages
  <1>2. MailboxesOK(box) /\ "Disconnect" \in DOMAIN box /\ box["Disconnect"] = <<>>
    BY EmptiedOK, DisconnectAssumption DEF ClosingInv, TypeOK, MailboxesOK
  <1>3. VariablePacketMessage(DisconnectPacket) \in MessagesTo("Send")
    BY DEF VariablePacketMessage, DisconnectPacket, MessagesTo, VariablePacketMessages, ClientPackets
  <1> HIDE DEF box
  <1>4. MailboxesOK(sent) /\ "Disconnect" \in DOMAIN sent /\ sent["Disconnect"] = <<>>
    <2>1. MailboxesOK(Post(box, "Send", VariablePacketMessage(DisconnectPacket)))
      BY <1>2, <1>3, PostOK, StopActorAlive DEF ClosingInv
    <2>2. MailboxesOK(Post(box, "Stop", StopMessage))
      BY <1>2, PostStopOK DEF ClosingInv
    <2>3. sent \in {Post(box, "Send", VariablePacketMessage(DisconnectPacket)),
                    Post(box, "Stop", StopMessage), box}
      OBVIOUS
    <2> HIDE DEF sent
    <2>4. MailboxesOK(sent)
      BY <1>2, <2>1, <2>2, <2>3
    <2>5. sent["Disconnect"] = <<>>
      BY <1>2, <2>3 DEF Post
    <2> QED
      BY <2>4, <2>5, DisconnectAssumption DEF MailboxesOK
  <1>5. /\ mbox' = Post(sent, "Stop", StopMessage)
        /\ resends' = IF Full("Send")
                      THEN BagAdd(resends, [to |-> "Disconnect", msg |-> msg])
                      ELSE resends
        /\ alive' = alive \ {"Disconnect"}
    BY DEF SendDisconnect, box
  <1> HIDE DEF sent
  <1>6. MailboxesOK(mbox') /\ mbox'["Disconnect"] = <<>>
    <2>1. MailboxesOK(Post(sent, "Stop", StopMessage))
      BY <1>4, PostStopOK DEF ClosingInv
    <2>2. Post(sent, "Stop", StopMessage)["Disconnect"] = <<>>
      BY <1>4 DEF Post
    <2> QED
      BY <1>5, <2>1, <2>2
  <1>7. BagToSet(resends') \subseteq Resends
    <2>1. [to |-> "Disconnect", msg |-> msg] \in Resends
      BY <1>1, DisconnectAssumption DEF Resends, ResendsOf
    <2> HIDE DEF msg
    <2>2. BagToSet(BagAdd(resends, [to |-> "Disconnect", msg |-> msg])) \subseteq Resends
      BY <2>1, BagAddElements DEF ClosingInv, TypeOK
    <2> QED
      BY <1>5, <2>2 DEF ClosingInv, TypeOK
  <1>8. TypeOK'
    BY <1>5, <1>6, <1>7 DEF ClosingInv, TypeOK, statusVars, wireVars, outVars
  <1>9. BeliefInv'
    <2>1. <<>> \in Seq(SendStatusMessages \cup DisconnectMessages)
      OBVIOUS
    <2>2. "Disconnect" \notin alive'
      BY <1>5
    <2>3. PendingIsUnfinished'
      BY DEF ClosingInv, BeliefInv, PendingIsUnfinished, disconnectVars
    <2>4. NoResendToLiving' /\ BeliefIsCurrent'
      BY <2>2 DEF NoResendToLiving, BeliefIsCurrent
    <2> QED
      BY <1>6, <2>1, <2>3, <2>4 DEF BeliefInv
  <1> QED
    BY <1>6, <1>8, <1>9 DEF ClosingInv, DisconnectTypeOK, disconnectVars

\* disconnect(false) finds packets pending: DisconnectActor waits.
LEMMA DisconnectWaitsInv ==
    ASSUME ClosingInv, Handling("Disconnect", "Disconnect"),
           ~Ready(Head(mbox["Disconnect"])),
           pendingDisconnect' = TRUE, mbox' = Take("Disconnect"),
           UNCHANGED <<alive, resends, statusVars, wireVars, outVars,
                       packetSendFinished, disconnects, calling, addrs>>
    PROVE  ClosingInv'
  <1> DEFINE S == SendStatusMessages \cup DisconnectMessages
  <1>1. /\ MailboxesOK(mbox')
        /\ mbox'["Disconnect"] = Tail(mbox["Disconnect"])
        /\ mbox'["Disconnect"] \in Seq(S)
        /\ mbox["Disconnect"] \in Seq(S) /\ mbox["Disconnect"] # <<>>
        /\ Head(mbox["Disconnect"]).type # "PacketSendStatus"
    <2>1. Head(mbox["Disconnect"]).type = "Disconnect"
      BY DEF Handling
    <2>2. mbox["Disconnect"] \in Seq(S)
      BY DEF ClosingInv, BeliefInv
    <2> QED
      BY <2>1, <2>2, HeadOfDisconnect DEF ClosingInv
  <1>2. TypeOK'
    BY <1>1 DEF ClosingInv, TypeOK, statusVars, wireVars, outVars
  <1>3. BeliefIsCurrent'
    <2>1. NothingPending' = NothingPending
      BY DEF NothingPending, statusVars
    <2>2. SUFFICES ASSUME {"Disconnect", "Status"} \subseteq alive
                   PROVE  WillBelieve(mbox'["Disconnect"], packetSendFinished, NothingPending)
      BY <2>1 DEF BeliefIsCurrent, WillBelieve, ToldIn
    <2>3. WillBelieve(mbox["Disconnect"], packetSendFinished, NothingPending)
      BY <2>2 DEF ClosingInv, BeliefInv, BeliefIsCurrent
    <2> HIDE DEF S
    <2> QED
      BY <1>1, <2>3, BelieveAfterTake
  <1>4. PendingIsUnfinished'
    BY DEF PendingIsUnfinished, Ready
  <1> QED
    BY <1>1, <1>2, <1>3, <1>4
       DEF ClosingInv, BeliefInv, DisconnectTypeOK, NoResendToLiving

LEMMA PacketSendStatusInv ==
    ASSUME ClosingInv, PacketSendStatusHandle, UNCHANGED outVars
    PROVE  ClosingInv'
  <1> DEFINE S == SendStatusMessages \cup DisconnectMessages
             finished == Head(mbox["Disconnect"]).finished
             box == Take("Disconnect")
             goOn == DisconnectMessage(TRUE, "self")
  <1>1. /\ MailboxesOK(box)
        /\ box["Disconnect"] = Tail(mbox["Disconnect"])
        /\ box["Disconnect"] \in Seq(S)
        /\ mbox["Disconnect"] \in Seq(S) /\ mbox["Disconnect"] # <<>>
        /\ Head(mbox["Disconnect"]).type = "PacketSendStatus"
        /\ finished \in BOOLEAN
        /\ "Disconnect" \in alive /\ "Disconnect" \in DOMAIN box
    BY HeadOfDisconnect, DisconnectAssumption
       DEF PacketSendStatusHandle, ClosingInv, BeliefInv, SendStatusMessages, DisconnectMessages,
           Handling, MailboxesOK
  <1>2. goOn \in S /\ goOn \in MessagesTo("Disconnect") /\ goOn.type # "PacketSendStatus"
    BY DisconnectMessageOK
  <1> HIDE DEF box, goOn, finished, S
  <1>3. /\ packetSendFinished' = finished
        /\ \/ /\ pendingDisconnect' = FALSE
              /\ mbox' = Post(box, "Disconnect", goOn)
           \/ /\ ~(pendingDisconnect /\ finished)
              /\ mbox' = box
              /\ UNCHANGED pendingDisconnect
    BY DEF PacketSendStatusHandle, FinishPending, box, goOn, finished
  <1>4. MailboxesOK(mbox')
    <2>1. MailboxesOK(Post(box, "Disconnect", goOn))
      BY <1>1, <1>2, PostOK, StopActorAlive DEF ClosingInv
    <2> QED
      BY <1>1, <1>3, <2>1
  <1>5. mbox'["Disconnect"] \in {box["Disconnect"], Append(box["Disconnect"], goOn)}
    BY <1>1, <1>3 DEF Post
  <1>6. mbox'["Disconnect"] \in Seq(S)
    BY <1>1, <1>2, <1>5, AppendProperties
  <1>7. BeliefIsCurrent'
    <2>1. NothingPending' = NothingPending
      BY DEF PacketSendStatusHandle, NothingPending, statusVars
    <2>2. SUFFICES ASSUME {"Disconnect", "Status"} \subseteq alive
                   PROVE  WillBelieve(mbox'["Disconnect"], finished, NothingPending)
      BY <1>3, <2>1 DEF PacketSendStatusHandle, BeliefIsCurrent, WillBelieve, ToldIn
    <2>3. WillBelieve(mbox["Disconnect"], packetSendFinished, NothingPending)
      BY <2>2 DEF ClosingInv, BeliefInv, BeliefIsCurrent
    <2>4. WillBelieve(box["Disconnect"], finished, NothingPending)
      BY <1>1, <2>3, BelieveAfterTake DEF finished
    <2>5. WillBelieve(Append(box["Disconnect"], goOn), finished, NothingPending)
      BY <1>1, <1>2, <2>4, BelieveAfterOther
    <2> QED
      BY <1>5, <2>4, <2>5
  <1>8. PendingIsUnfinished'
    BY <1>3 DEF PendingIsUnfinished
  <1>9. TypeOK'
    BY <1>4 DEF PacketSendStatusHandle, ClosingInv, TypeOK, statusVars, wireVars, outVars
  <1> QED
    BY <1>1, <1>3, <1>6, <1>7, <1>8, <1>9
       DEF PacketSendStatusHandle, ClosingInv, BeliefInv, DisconnectTypeOK, NoResendToLiving, S

LEMMA DisconnectStepInv ==
    ASSUME ClosingInv, DisconnectStep, UNCHANGED outVars
    PROVE  ClosingInv'
  <1>1. CASE \E force \in BOOLEAN : ClientDisconnect(force)
    BY <1>1, ClientDisconnectInv
  <1>2. CASE DisconnectReturns
    BY <1>2, DisconnectReturnsInv
  <1>3. CASE DisconnectHandle
    <2>1. CASE SendDisconnect(Head(mbox["Disconnect"])) /\ UNCHANGED pendingDisconnect
      BY <1>3, <2>1, SendDisconnectInv DEF DisconnectHandle, disconnectVars
    <2>2. CASE /\ ~Ready(Head(mbox["Disconnect"]))
               /\ pendingDisconnect' = TRUE
               /\ mbox' = Take("Disconnect")
               /\ UNCHANGED <<alive, resends>>
      BY <1>3, <2>2, DisconnectWaitsInv DEF DisconnectHandle
    <2> QED
      BY <1>3, <2>1, <2>2 DEF DisconnectHandle
  <1>4. CASE PacketSendStatusHandle
    BY <1>4, PacketSendStatusInv
  <1> QED
    BY <1>1, <1>2, <1>3, <1>4 DEF DisconnectStep

-----------------------------------------------------------------------------

LEMMA ClosingInitInv == ClosingInit => ClosingInv
  <1> SUFFICES ASSUME ClosingInit PROVE ClosingInv
    OBVIOUS
  <1>1. TypeOK
    BY InitOK DEF ClosingInit
  <1>2. mbox["Disconnect"] = <<>> /\ resends = EmptyBag /\ NothingPending
    BY DisconnectAssumption
       DEF ClosingInit, Init, SessionInit, ActorsInit, StatusInit, NothingPending
  <1>3. BagToSet(resends) = {}
    BY <1>2 DEF EmptyBag, SetToBag, BagToSet
  <1>4. <<>> \in Seq(SendStatusMessages \cup DisconnectMessages)
    OBVIOUS
  <1>5. DisconnectTypeOK
    BY <1>2, <1>4 DEF ClosingInit, DisconnectInit, DisconnectTypeOK, Idle
  <1>6. BeliefIsCurrent
    <2>1. ToldIn(mbox["Disconnect"]) = {}
      BY <1>2 DEF ToldIn
    <2> QED
      BY <1>2, <2>1 DEF BeliefIsCurrent, WillBelieve, ClosingInit, DisconnectInit
  <1>7. PendingIsUnfinished
    BY DEF ClosingInit, DisconnectInit, PendingIsUnfinished
  <1> QED
    BY <1>1, <1>2, <1>3, <1>4, <1>5, <1>6, <1>7 DEF ClosingInv, BeliefInv, NoResendToLiving

LEMMA ClosingStepInv == ClosingInv /\ [ClosingNext]_closingVars => ClosingInv'
  <1> SUFFICES ASSUME ClosingInv, [ClosingNext]_closingVars PROVE ClosingInv'
    OBVIOUS
  <1>0. TypeOK /\ BeliefInv
    BY DEF ClosingInv
  <1>1. ASSUME NEW m \in OutMsg, ClosingPublish(m) PROVE ClosingInv'
    <2>1. TypeOK' /\ Quiet
      BY <1>0, <1>1, ClientPublishOK, ClientPublishQuiet DEF ClosingPublish
    <2>2. BeliefInv'
      BY <1>0, <1>1, <2>1, QuietKeepsBelief DEF ClosingPublish
    <2> QED
      BY <1>1, <2>1, <2>2 DEF ClosingPublish, ClosingInv, DisconnectTypeOK, Quiet
  <1>2. CASE PublishReturns
    <2>1. TypeOK'
      BY <1>0, <1>2, StepOK DEF PublishReturns
    <2>2. Quiet
      BY <1>2 DEF PublishReturns, Quiet, outgoingVars, sessionVars, actorVars, statusVars
    <2>3. BeliefInv'
      BY <1>0, <1>2, <2>2, QuietKeepsBelief DEF PublishReturns
    <2> QED
      BY <1>2, <2>1, <2>2, <2>3 DEF PublishReturns, ClosingInv, DisconnectTypeOK, Quiet, Idle
  <1>3. CASE Exchange /\ UNCHANGED <<disconnectVars, serverClosed>>
    <2>1. TypeOK' /\ BeliefInv'
      BY <1>0, <1>3, ExchangeInv DEF disconnectVars
    <2> QED
      BY <1>3, <2>1 DEF ClosingInv, BeliefInv, DisconnectTypeOK, disconnectVars
  <1>4. CASE DisconnectStep /\ UNCHANGED <<outVars, serverClosed>>
    BY <1>4, DisconnectStepInv
  <1>5. CASE BrokerDisconnect
    <2>1. TypeOK'
      BY <1>0, <1>5
         DEF BrokerDisconnect, TypeOK, MailboxesOK, actorVars, statusVars, outVars
    <2>2. Quiet
      BY <1>5 DEF BrokerDisconnect, Quiet, actorVars, statusVars
    <2>3. BeliefInv'
      BY <1>0, <1>5, <2>2, QuietKeepsBelief DEF BrokerDisconnect, disconnectVars
    <2> QED
      BY <1>5, <2>1, <2>2, <2>3
         DEF BrokerDisconnect, ClosingInv, DisconnectTypeOK, Quiet, disconnectVars
  <1>6. CASE ConnectionClosed
    <2>1. TypeOK' /\ Quiet
      BY <1>0, <1>6, RecvFailsOK, RecvFailsQuiet DEF ConnectionClosed
    <2>2. BeliefInv'
      BY <1>0, <1>6, <2>1, QuietKeepsBelief DEF ConnectionClosed, disconnectVars
    <2> QED
      BY <1>6, <2>1, <2>2 DEF ConnectionClosed, ClosingInv, DisconnectTypeOK, Quiet, disconnectVars
  <1>7. CASE UNCHANGED closingVars
    <2>1. TypeOK'
      BY <1>0, <1>7, StepOK DEF closingVars
    <2>2. Quiet
      BY <1>7 DEF closingVars, Quiet, outgoingVars, sessionVars, actorVars, statusVars
    <2>3. BeliefInv'
      BY <1>0, <1>7, <2>2, QuietKeepsBelief DEF closingVars, disconnectVars
    <2> QED
      BY <1>7, <2>1, <2>2, <2>3
         DEF closingVars, ClosingInv, DisconnectTypeOK, Quiet, disconnectVars
  <1> QED
    BY <1>1, <1>2, <1>3, <1>4, <1>5, <1>6, <1>7 DEF ClosingNext

\* The invariant holds in every execution.
THEOREM ClosingInvariant == ClosingSpec => []ClosingInv
  <1> QED
    BY ClosingInitInv, ClosingStepInv, PTL DEF ClosingSpec

\* DisconnectActor's variables and mailbox stay well typed: whatever is resent,
\* retried or stopped, only PacketSendStatus and Disconnect messages reach it
\* (src/actors/packets/disconnect.rs:17-88), and in particular no StopMessage:
\* client.rs:247-252 does not register it with the StopActor.
THEOREM DisconnectTypeCorrect == ClosingSpec => []DisconnectTypeOK
  <1>1. ClosingInv => DisconnectTypeOK
    BY DEF ClosingInv
  <1> QED
    BY <1>1, ClosingInvariant, PTL

\* While both actors run, what DisconnectActor believes, or will once it has
\* handled its mailbox, is whether the status map is empty
\* (src/actors/actions/status.rs:46-84, disconnect.rs:75-88).
THEOREM BeliefCorrect == ClosingSpec => []BeliefIsCurrent
  <1>1. ClosingInv => BeliefIsCurrent
    BY DEF ClosingInv, BeliefInv
  <1> QED
    BY <1>1, ClosingInvariant, PTL

\* A disconnection that waits has something to wait for: a packet is pending,
\* or the report that none is has yet to be handled (disconnect.rs:45-66).
THEOREM WaitingCorrect == ClosingSpec => []WaitsForSomething
  <1>1. ClosingInv => WaitsForSomething
    <2> SUFFICES ASSUME ClosingInv, pendingDisconnect, {"Disconnect", "Status"} \subseteq alive
                 PROVE  /\ ~packetSendFinished
                        /\ ~NothingPending \/ ToldIn(mbox["Disconnect"]) # {}
      BY DEF WaitsForSomething
    <2>1. ~packetSendFinished
      BY DEF ClosingInv, BeliefInv, PendingIsUnfinished
    <2>2. ToldIn(mbox["Disconnect"]) = {} => packetSendFinished = NothingPending
      BY DEF ClosingInv, BeliefInv, BeliefIsCurrent, WillBelieve
    <2> QED
      BY <2>1, <2>2
  <1> QED
    BY <1>1, ClosingInvariant, PTL

=============================================================================
