--------------------------- MODULE Session_proofs ---------------------------
(***************************************************************************)
(* What the proofs about the packet exchanges share.  Every exchange runs  *)
(* over the actors, tasks and wires of Session; the lemmas here say what a *)
(* step of these does to the types of what is in them, and to a message    *)
(* that is handled again and again.  What an exchange puts into mailboxes, *)
(* tasks and wires is a parameter, K.                                      *)
(***************************************************************************)
EXTENDS Session, SequenceTheorems, TLAPS

(* Operators of the community modules. *)

LEMMA BagAddElements ==
    ASSUME NEW B, NEW x
    PROVE  BagToSet(BagAdd(B, x)) = BagToSet(B) \cup {x}
  BY DEF BagAdd, BagToSet

LEMMA BagRemoveElements ==
    ASSUME NEW B, NEW x
    PROVE  BagToSet(BagRemove(B, x)) \subseteq BagToSet(B)
  BY DEF BagRemove, BagToSet

LEMMA BagUnionElements ==
    ASSUME NEW B, NEW C
    PROVE  BagToSet(B (+) C) = BagToSet(B) \cup BagToSet(C)
  BY DEF (+), BagToSet

LEMMA EmptyBagElements == BagToSet(EmptyBag) = {}
  BY DEF EmptyBag, SetToBag, BagToSet

LEMMA ModRange ==
    ASSUME NEW n \in Nat, NEW k \in Nat \ {0}
    PROVE  n % k \in 0 .. k - 1
  BY SMT

-----------------------------------------------------------------------------
(* The types of an exchange.  K.messages[a] are the messages for actor a,  *)
(* K.resends the messages that may be handled again after a full mailbox,  *)
(* K.tasks the questions to the status actor and K.timers those of them    *)
(* that wait for COMMAND_TIMEOUT, K.payload what a status says, K.client   *)
(* and K.server the packets of the two sides.                              *)

SessionOK(K) ==
    /\ DOMAIN mbox = Actor
    /\ \A a \in Actor : mbox[a] \in Seq(K.messages[a])
    /\ alive \subseteq Actor
    /\ BagToSet(resends) \subseteq K.resends
    /\ packetStatus \in [Id -> K.payload \cup {NoStatus}]
    /\ BagToSet(timers) \subseteq K.timers
    /\ BagToSet(asking) \subseteq K.tasks
    /\ BagToSet(answered) \subseteq [task : K.tasks, answer : Answer]
    /\ toBroker \in Seq(K.client)
    /\ fromBroker \in Seq(K.server)

\* Every message that a step of Session takes from one place and puts into
\* another one is for the actor that finds it there.
Wired(K) ==
    /\ \A a \in Actor : StopMessage \in K.messages[a]
    /\ \A r \in K.resends : r.msg \in K.messages[r.to]
    /\ K.timers \subseteq K.tasks
    /\ \A t \in K.tasks : /\ GetAndRemovePacketStatus(t) \in K.messages["Status"]
                          /\ t.kind = "check" => t.msg \in K.messages[t.actor]
    /\ \A op \in K.messages["Status"] :
           op.type = "Status" =>
               /\ op.id \in Id
               /\ op.op = "Set" => op.payload \in K.payload
               /\ op.op = "GetAndRemove" => op = GetAndRemovePacketStatus(op.task) /\ op.task \in K.tasks
    /\ K.payload \subseteq Payload
    /\ \A a \in SendStatusRecipient : \A f \in BOOLEAN :
           [type |-> "PacketSendStatus", finished |-> f] \in K.messages[a]
    /\ \A msg \in K.messages["Send"] : msg.type = "Packet" => msg.packet \in K.client
    /\ \A packet \in K.server : VariablePacketMessage(packet) \in K.messages["Dispatch"]
    /\ \A msg \in K.messages["Dispatch"] :
           msg.type = "Packet" =>
               PacketMessage(msg.packet, 0) \in K.messages[Target[msg.packet.type]]

\* The mailboxes, which most handlers change in several steps.
BoxesOK(K, box) ==
    /\ DOMAIN box = Actor
    /\ \A a \in Actor : box[a] \in Seq(K.messages[a])

LEMMA PostTyped ==
    ASSUME NEW K, SessionOK(K), NEW box, BoxesOK(K, box), NEW a, NEW m,
           a \in Actor => m \in K.messages[a]
    PROVE  BoxesOK(K, Post(box, a, m))
  <1>1. CASE a \notin alive
    BY <1>1 DEF Post
  <1>2. CASE a \in alive
    <2>1. Post(box, a, m) = [box EXCEPT ![a] = Append(@, m)] /\ a \in Actor
      BY <1>2 DEF Post, SessionOK
    <2>2. Append(box[a], m) \in Seq(K.messages[a])
      BY <2>1, AppendProperties DEF BoxesOK
    <2> QED
      BY <2>1, <2>2 DEF BoxesOK
  <1> QED
    BY <1>1, <1>2

LEMMA PostStopTyped ==
    ASSUME NEW K, SessionOK(K), Wired(K), NEW box, BoxesOK(K, box)
    PROVE  BoxesOK(K, Post(box, "Stop", StopMessage))
  BY PostTyped DEF Wired

\* What an actor takes from its mailbox is a message for it.
LEMMA TakeTyped ==
    ASSUME NEW K, SessionOK(K), NEW a \in Actor, NEW type, Handling(a, type)
    PROVE  /\ BoxesOK(K, Take(a))
           /\ Head(mbox[a]) \in K.messages[a]
           /\ Head(mbox[a]).type = type
           /\ mbox[a] # <<>>
  <1>1. mbox[a] \in Seq(K.messages[a]) /\ mbox[a] # <<>>
    BY DEF SessionOK, Handling
  <1>2. Head(mbox[a]) \in K.messages[a] /\ Tail(mbox[a]) \in Seq(K.messages[a])
    BY <1>1, HeadTailProperties
  <1> QED
    BY <1>2 DEF Take, SessionOK, BoxesOK, Handling

\* An actor that stops drops its mailbox.
LEMMA EmptiedTyped ==
    ASSUME NEW K, NEW box, BoxesOK(K, box), NEW a
    PROVE  BoxesOK(K, [box EXCEPT ![a] = <<>>])
  <1>1. \A b \in Actor : <<>> \in Seq(K.messages[b])
    OBVIOUS
  <1> QED
    BY <1>1 DEF BoxesOK

LEMMA SendErrorTyped ==
    ASSUME NEW K, SessionOK(K), Wired(K), NEW target, NEW box, BoxesOK(K, box),
           HandleSendError(target, box)
    PROVE  BoxesOK(K, mbox')
  BY PostStopTyped DEF HandleSendError

LEMMA SendErrorWithResendTyped ==
    ASSUME NEW K, SessionOK(K), Wired(K), NEW target, NEW box, BoxesOK(K, box), NEW a, NEW msg,
           [to |-> a, msg |-> msg] \in K.resends,
           HandleSendErrorWithResend(target, box, a, msg)
    PROVE  BoxesOK(K, mbox') /\ BagToSet(resends') \subseteq K.resends
  <1>1. BagToSet(resends) \subseteq K.resends
    BY DEF SessionOK
  <1>2. BagToSet(BagAdd(resends, [to |-> a, msg |-> msg])) \subseteq K.resends
    BY <1>1, BagAddElements
  <1> QED
    BY <1>1, <1>2, PostStopTyped DEF HandleSendErrorWithResend

LEMMA GiveUpTyped ==
    ASSUME NEW K, SessionOK(K), Wired(K), NEW box, BoxesOK(K, box), NEW id,
           RemovePacketStatus(id) \in K.messages["Status"], GiveUp(box, id)
    PROVE  BoxesOK(K, mbox')
  BY PostTyped, PostStopTyped DEF GiveUp

LEMMA SetSendScheduleTyped ==
    ASSUME NEW K, SessionOK(K), Wired(K), NEW box, BoxesOK(K, box),
           NEW a, NEW op, NEW packet, NEW check, NEW retry,
           op \in K.messages["Status"],
           VariablePacketMessage(packet) \in K.messages["Send"],
           check \in K.timers,
           [to |-> a, msg |-> retry] \in K.resends,
           SetSendSchedule(box, a, op, packet, check, retry)
    PROVE  /\ BoxesOK(K, mbox')
           /\ BagToSet(resends') \subseteq K.resends
           /\ BagToSet(timers') \subseteq K.timers
  <1>1. BoxesOK(K, Post(box, "Status", op))
    BY PostTyped
  <1>2. BoxesOK(K, Post(Post(box, "Status", op), "Send", VariablePacketMessage(packet)))
    BY <1>1, PostTyped
  <1>3. BagToSet(timers) \subseteq K.timers /\ BagToSet(resends) \subseteq K.resends
    BY DEF SessionOK
  <1>4. BagToSet(BagAdd(timers, check)) \subseteq K.timers
    BY <1>3, BagAddElements
  <1>5. CASE ~Accepts("Status")
    BY <1>3, <1>5, SendErrorWithResendTyped DEF SetSendSchedule
  <1>6. CASE Accepts("Status") /\ ~Accepts("Send")
    BY <1>1, <1>3, <1>6, SendErrorWithResendTyped DEF SetSendSchedule
  <1>7. CASE Accepts("Status") /\ Accepts("Send")
    BY <1>2, <1>3, <1>4, <1>7 DEF SetSendSchedule
  <1> QED
    BY <1>5, <1>6, <1>7

\* ResponseHandle, and what SendPacketHandle does besides taking the message.
LEMMA ResponseHandleTyped ==
    ASSUME NEW K, SessionOK(K), Wired(K), NEW a \in Actor, NEW type, ResponseHandle(a, type),
           UNCHANGED wireVars,
           RemovePacketStatus(Head(mbox[a]).packet.id) \in K.messages["Status"],
           [to |-> a, msg |-> Head(mbox[a])] \in K.resends
    PROVE  SessionOK(K)'
  <1> DEFINE msg == Head(mbox[a])
  <1>1. BoxesOK(K, Take(a))
    BY TakeTyped DEF ResponseHandle
  <1>2. BoxesOK(K, mbox') /\ BagToSet(resends') \subseteq K.resends
    <2>1. BagToSet(resends) \subseteq K.resends
      BY DEF SessionOK
    <2>2. BoxesOK(K, Post(Take(a), "Status", RemovePacketStatus(msg.packet.id)))
      BY <1>1, PostTyped
    <2> QED
      BY <2>1, <2>2, <1>1, SendErrorWithResendTyped DEF ResponseHandle
  <1> QED
    BY <1>2 DEF ResponseHandle, SessionOK, BoxesOK, statusVars, wireVars

LEMMA SendPacketHandleTyped ==
    ASSUME NEW K, SessionOK(K), Wired(K), NEW a \in Actor, NEW type, Handling(a, type),
           NEW msg, NEW op, NEW packet, NEW expect,
           SendPacketHandle(a, msg, op, packet, expect), UNCHANGED wireVars,
           RemovePacketStatus(packet.id) \in K.messages["Status"],
           op \in K.messages["Status"],
           VariablePacketMessage(packet) \in K.messages["Send"],
           ~RetryExhausted(msg) =>
               /\ StatusCheck(a, a, packet.id, Retried(msg), expect) \in K.timers
               /\ [to |-> a, msg |-> Retried(msg)] \in K.resends
    PROVE  SessionOK(K)'
  <1> DEFINE check == StatusCheck(a, a, packet.id, Retried(msg), expect)
  <1>1. BoxesOK(K, Take(a))
    BY TakeTyped
  <1>2. /\ BoxesOK(K, mbox')
        /\ BagToSet(resends') \subseteq K.resends
        /\ BagToSet(timers') \subseteq K.timers
    <2>1. CASE RetryExhausted(msg)
      BY <1>1, <2>1, GiveUpTyped DEF SendPacketHandle, GiveUp, SessionOK
    <2>2. CASE ~RetryExhausted(msg)
      <3>1. SetSendSchedule(Take(a), a, op, packet, check, Retried(msg))
        BY <2>2 DEF SendPacketHandle
      <3> HIDE DEF check
      <3> QED
        BY <3>1, <2>2, <1>1, SetSendScheduleTyped DEF check
    <2> QED
      BY <2>1, <2>2
  <1> QED
    BY <1>2 DEF SendPacketHandle, SessionOK, BoxesOK, wireVars

\* What the status actor takes, and what becomes of its map and of the tasks.
LEMMA StatusHandleTyped ==
    ASSUME NEW K, SessionOK(K), Wired(K), StatusHandle, UNCHANGED wireVars
    PROVE  SessionOK(K)' /\ Head(mbox["Status"]).id \in Id
  <1> DEFINE op == Head(mbox["Status"])
  <1>1. "Status" \in Actor /\ Handling("Status", "Status")
    BY ActorAssumption DEF StatusHandle
  <1>2. BoxesOK(K, Take("Status")) /\ op \in K.messages["Status"] /\ op.type = "Status"
    BY <1>1, TakeTyped
  <1>3. /\ op.id \in Id
        /\ op.op = "Set" => op.payload \in K.payload
        /\ op.op = "GetAndRemove" => op.task \in K.tasks
    BY <1>2 DEF Wired
  <1>4. packetStatus' \in [Id -> K.payload \cup {NoStatus}]
    BY <1>3 DEF StatusHandle, Apply, SessionOK
  <1>5. BagToSet(answered') \subseteq [task : K.tasks, answer : Answer]
    <2>1. BagToSet(answered) \subseteq [task : K.tasks, answer : Answer]
      BY DEF SessionOK
    <2>2. CASE op.op = "GetAndRemove"
      <3>1. packetStatus[op.id] \in Answer
        BY <1>3 DEF SessionOK, Wired, Answer
      <3>2. Answered(op.task, packetStatus[op.id]) \in [task : K.tasks, answer : Answer]
        BY <1>3, <2>2, <3>1 DEF Answered
      <3>3. answered' = BagAdd(answered, Answered(op.task, packetStatus[op.id]))
        BY <2>2 DEF StatusHandle
      <3> QED
        BY <2>1, <3>2, <3>3, BagAddElements
    <2>3. CASE op.op # "GetAndRemove"
      BY <2>1, <2>3 DEF StatusHandle
    <2> QED
      BY <2>2, <2>3
  <1>6. BoxesOK(K, mbox')
    <2>1. ASSUME NEW a \in Actor PROVE mbox'[a] \in Seq(K.messages[a])
      <3>1. Take("Status")[a] \in Seq(K.messages[a]) /\ mbox[a] \in Seq(K.messages[a])
        BY <1>2 DEF BoxesOK, SessionOK
      <3>2. CASE a \in SendStatusRecipient \cap alive
        <4>1. Report(op) \in K.messages[a]
          BY <3>2 DEF Report, PacketSendStatus, Wired
        <4>2. mbox'[a] = Append(mbox[a], Report(op))
          BY <3>2 DEF StatusHandle
        <4>3. Append(mbox[a], Report(op)) \in Seq(K.messages[a])
          BY <3>1, <4>1, AppendProperties
        <4> QED
          BY <4>2, <4>3
      <3>3. CASE a \notin SendStatusRecipient \cap alive
        BY <3>1, <3>3 DEF StatusHandle
      <3> QED
        BY <3>2, <3>3
    <2> QED
      BY <2>1 DEF BoxesOK, StatusHandle
  <1> QED
    BY <1>3, <1>4, <1>5, <1>6 DEF StatusHandle, SessionOK, BoxesOK, wireVars

-----------------------------------------------------------------------------
(* What goes on in the background. *)

LEMMA ResendTyped ==
    ASSUME NEW K, SessionOK(K), Wired(K), Resend, UNCHANGED <<statusVars, wireVars>>
    PROVE  SessionOK(K)'
  <1>1. PICK r \in BagToSet(resends) :
            /\ mbox' = Post(mbox, r.to, r.msg)
            /\ resends' = BagRemove(resends, r)
            /\ UNCHANGED alive
    BY DEF Resend
  <1>2. r.msg \in K.messages[r.to]
    BY DEF SessionOK, Wired
  <1>3. BoxesOK(K, mbox')
    BY <1>1, <1>2, PostTyped DEF SessionOK, BoxesOK
  <1>4. BagToSet(resends') \subseteq K.resends
    BY <1>1, BagRemoveElements DEF SessionOK
  <1> QED
    BY <1>1, <1>3, <1>4 DEF SessionOK, BoxesOK, statusVars, wireVars

LEMMA BroadcastStopTyped ==
    ASSUME NEW K, SessionOK(K), Wired(K), BroadcastStop, UNCHANGED <<statusVars, wireVars>>
    PROVE  SessionOK(K)'
  <1>1. ASSUME NEW a \in Actor PROVE mbox'[a] \in Seq(K.messages[a])
    <2>1. mbox[a] \in Seq(K.messages[a]) /\ StopMessage \in K.messages[a]
      BY DEF SessionOK, Wired
    <2>2. mbox'[a] \in {<<>>, mbox[a], Append(mbox[a], StopMessage)}
      BY DEF BroadcastStop
    <2>3. <<>> \in Seq(K.messages[a])
      OBVIOUS
    <2>4. Append(mbox[a], StopMessage) \in Seq(K.messages[a])
      BY <2>1, AppendProperties
    <2> QED
      BY <2>1, <2>2, <2>3, <2>4
  <1>2. DOMAIN mbox' = Actor
    BY DEF BroadcastStop
  <1> QED
    BY <1>1, <1>2 DEF BroadcastStop, SessionOK, statusVars, wireVars

LEMMA TimerFiresTyped ==
    ASSUME NEW K, SessionOK(K), Wired(K), TimerFires, UNCHANGED wireVars
    PROVE  SessionOK(K)'
  <1>1. PICK t \in BagToSet(timers) :
            /\ timers' = BagRemove(timers, t)
            /\ asking' = BagAdd(asking, t)
            /\ UNCHANGED <<actorVars, packetStatus, answered>>
    BY DEF TimerFires
  <1>2. BagToSet(timers') \subseteq K.timers
    BY <1>1, BagRemoveElements DEF SessionOK
  <1>3. BagToSet(asking') \subseteq K.tasks
    BY <1>1, BagAddElements DEF SessionOK, Wired
  <1> QED
    BY <1>1, <1>2, <1>3 DEF SessionOK, actorVars, wireVars

LEMMA AskStatusTyped ==
    ASSUME NEW K, SessionOK(K), Wired(K), AskStatus, UNCHANGED wireVars
    PROVE  SessionOK(K)'
  <1>1. PICK t \in BagToSet(asking) :
            /\ asking' = BagRemove(asking, t)
            /\ \/ /\ Accepts("Status")
                  /\ mbox' = Post(mbox, "Status", GetAndRemovePacketStatus(t))
                  /\ UNCHANGED answered
               \/ /\ Closed("Status")
                  /\ answered' = BagAdd(answered, Answered(t, "Closed"))
                  /\ UNCHANGED mbox
            /\ UNCHANGED <<alive, resends, packetStatus, timers>>
    BY DEF AskStatus
  <1>2. t \in K.tasks /\ GetAndRemovePacketStatus(t) \in K.messages["Status"]
    BY DEF SessionOK, Wired
  <1>3. BoxesOK(K, mbox')
    BY <1>1, <1>2, PostTyped DEF SessionOK, BoxesOK
  <1>4. BagToSet(answered') \subseteq [task : K.tasks, answer : Answer]
    <2>1. Answered(t, "Closed") \in [task : K.tasks, answer : Answer]
      BY <1>2 DEF Answered, Answer
    <2> QED
      BY <2>1, <1>1, BagAddElements DEF SessionOK
  <1>5. BagToSet(asking') \subseteq K.tasks
    BY <1>1, BagRemoveElements DEF SessionOK
  <1> QED
    BY <1>1, <1>3, <1>4, <1>5 DEF SessionOK, BoxesOK, wireVars

LEMMA StatusCheckedTyped ==
    ASSUME NEW K, SessionOK(K), Wired(K), StatusChecked, UNCHANGED wireVars
    PROVE  SessionOK(K)'
  <1>1. PICK r \in BagToSet(answered) :
            /\ r.task.kind = "check"
            /\ answered' = BagRemove(answered, r)
            /\ \/ mbox' = Post(mbox, r.task.actor, r.task.msg)
               \/ mbox' = Post(mbox, "Stop", StopMessage)
               \/ mbox' = mbox
            /\ UNCHANGED <<alive, resends, packetStatus, timers, asking>>
    BY DEF StatusChecked
  <1>2. r.task.msg \in K.messages[r.task.actor]
    BY <1>1 DEF SessionOK, Wired
  <1>3. BoxesOK(K, mbox')
    BY <1>1, <1>2, PostTyped, PostStopTyped DEF SessionOK, BoxesOK
  <1>4. BagToSet(answered') \subseteq [task : K.tasks, answer : Answer]
    BY <1>1, BagRemoveElements DEF SessionOK
  <1> QED
    BY <1>1, <1>3, <1>4 DEF SessionOK, BoxesOK, wireVars

LEMMA SendHandleTyped ==
    ASSUME NEW K, SessionOK(K), Wired(K), SendHandle, UNCHANGED statusVars
    PROVE  SessionOK(K)'
  <1>1. "Send" \in Actor /\ Handling("Send", "Packet")
    BY ActorAssumption DEF SendHandle
  <1>2. BoxesOK(K, mbox') /\ Head(mbox["Send"]).packet \in K.client
    BY <1>1, TakeTyped DEF SendHandle, Wired
  <1>3. toBroker' \in Seq(K.client)
    BY <1>2, AppendProperties DEF SendHandle, SessionOK
  <1> QED
    BY <1>2, <1>3 DEF SendHandle, SessionOK, BoxesOK, statusVars

LEMMA RecvPacketTyped ==
    ASSUME NEW K, SessionOK(K), Wired(K), RecvPacket, UNCHANGED statusVars
    PROVE  SessionOK(K)'
  <1>1. fromBroker \in Seq(K.server) /\ fromBroker # <<>>
    BY DEF RecvPacket, SessionOK
  <1>2. Head(fromBroker) \in K.server /\ fromBroker' \in Seq(K.server)
    BY <1>1, HeadTailProperties DEF RecvPacket
  <1>3. BoxesOK(K, mbox')
    BY <1>2, PostTyped DEF RecvPacket, SessionOK, BoxesOK, Wired
  <1> QED
    BY <1>2, <1>3 DEF RecvPacket, SessionOK, BoxesOK, statusVars

LEMMA DispatchHandleTyped ==
    ASSUME NEW K, SessionOK(K), Wired(K), DispatchHandle, UNCHANGED statusVars
    PROVE  SessionOK(K)'
  <1> DEFINE packet == Head(mbox["Dispatch"]).packet
             box == Take("Dispatch")
  <1>1. "Dispatch" \in Actor /\ Handling("Dispatch", "Packet")
    BY ActorAssumption DEF DispatchHandle
  <1>2. BoxesOK(K, box) /\ PacketMessage(packet, 0) \in K.messages[Target[packet.type]]
    BY <1>1, TakeTyped DEF Wired
  <1>3. BoxesOK(K, mbox')
    <2>1. CASE mbox' = Post(box, Target[packet.type], PacketMessage(packet, 0))
      BY <2>1, <1>2, PostTyped
    <2>2. CASE HandleSendError(Target[packet.type], box)
      BY <2>2, <1>2, SendErrorTyped
    <2> QED
      BY <2>1, <2>2 DEF DispatchHandle
  <1> QED
    BY <1>3 DEF DispatchHandle, SessionOK, BoxesOK, statusVars, wireVars

LEMMA RecvFailsTyped ==
    ASSUME NEW K, SessionOK(K), Wired(K), RecvFails, UNCHANGED statusVars
    PROVE  SessionOK(K)'
  <1> DEFINE box == IF Accepts("Stop") THEN Post(mbox, "Stop", StopMessage) ELSE mbox
  <1>1. BoxesOK(K, box)
    BY PostStopTyped DEF SessionOK, BoxesOK
  <1>2. BoxesOK(K, Post(box, "Stop", StopMessage))
    BY <1>1, PostStopTyped
  <1>3. mbox' = [Post(box, "Stop", StopMessage) EXCEPT !["Recv"] = <<>>]
    BY DEF RecvFails
  <1> HIDE DEF box
  <1>4. BoxesOK(K, mbox')
    BY <1>2, <1>3, EmptiedTyped
  <1>5. fromBroker' \in Seq(K.server)
    BY DEF RecvFails
  <1> QED
    BY <1>4, <1>5 DEF RecvFails, SessionOK, BoxesOK, statusVars

LEMMA PrefixTyped ==
    ASSUME NEW C, NEW s \in Seq(C), NEW n \in 0 .. Len(s)
    PROVE  SubSeq(s, 1, n) \in Seq(C)
  BY SubSeqProperties

LEMMA BufferLostTyped ==
    ASSUME NEW K, SessionOK(K), BufferLost
    PROVE  toBroker' \in Seq(K.client)
  <1>1. PICK n \in 0 .. Len(toBroker) : toBroker' = SubSeq(toBroker, 1, n)
    BY DEF BufferLost
  <1>2. toBroker \in Seq(K.client)
    BY DEF SessionOK
  <1>4. SubSeq(toBroker, 1, n) \in Seq(K.client)
    BY <1>2, PrefixTyped
  <1> QED
    BY <1>1, <1>4

LEMMA WriteErrorTyped ==
    ASSUME NEW K, SessionOK(K), Wired(K), WriteError, UNCHANGED statusVars
    PROVE  SessionOK(K)'
  <1>1. BoxesOK(K, Post(mbox, "Stop", StopMessage))
    BY PostStopTyped DEF SessionOK, BoxesOK
  <1>2. BoxesOK(K, mbox')
    BY <1>1, EmptiedTyped DEF WriteError
  <1>3. toBroker' \in Seq(K.client)
    BY BufferLostTyped DEF WriteError
  <1> QED
    BY <1>2, <1>3 DEF WriteError, SessionOK, BoxesOK, statusVars

LEMMA DispatchOrphanedTyped ==
    ASSUME NEW K, SessionOK(K), DispatchOrphaned, UNCHANGED statusVars
    PROVE  SessionOK(K)'
  BY DEF DispatchOrphaned, SessionOK, statusVars, wireVars

\* A question that dies with the status actor is answered.
LEMMA UnanswerableTyped ==
    ASSUME NEW K, SessionOK(K), Wired(K)
    PROVE  BagToSet(Unanswerable(mbox["Status"])) \subseteq [task : K.tasks, answer : Answer]
  <1>1. mbox["Status"] \in Seq(K.messages["Status"])
    BY ActorAssumption DEF SessionOK
  <1>2. ASSUME NEW j \in DOMAIN mbox["Status"],
               mbox["Status"][j].type = "Status", mbox["Status"][j].op = "GetAndRemove"
        PROVE  Answered(mbox["Status"][j].task, "Closed") \in [task : K.tasks, answer : Answer]
    <2>1. mbox["Status"][j] \in K.messages["Status"]
      BY <1>1, ElementOfSeq
    <2>2. mbox["Status"][j].task \in K.tasks
      BY <1>2, <2>1 DEF Wired
    <2> QED
      BY <2>2 DEF Answered, Answer
  <1> QED
    BY <1>2 DEF Unanswerable, BagToSet

LEMMA HandleStopTyped ==
    ASSUME NEW K, SessionOK(K), Wired(K), NEW a \in Registered, HandleStop(a)
    PROVE  /\ BoxesOK(K, mbox')
           /\ BagToSet(timers') \subseteq K.timers
           /\ BagToSet(answered') \subseteq [task : K.tasks, answer : Answer]
  <1>1. BoxesOK(K, mbox')
    <2> DEFINE box == [mbox EXCEPT ![a] = <<>>]
    <2>1. BoxesOK(K, box)
      BY EmptiedTyped DEF SessionOK, BoxesOK
    <2>2. mbox' = IF a = "Recv" THEN Post(box, "Stop", StopMessage) ELSE box
      BY DEF HandleStop
    <2> HIDE DEF box
    <2> QED
      BY <2>1, <2>2, PostStopTyped
  <1>2. BagToSet(timers') \subseteq K.timers
    BY DEF HandleStop, SessionOK, BagToSet
  <1>3. BagToSet(answered') \subseteq [task : K.tasks, answer : Answer]
    BY UnanswerableTyped, BagUnionElements DEF HandleStop, SessionOK
  <1> QED
    BY <1>1, <1>2, <1>3

LEMMA StopHandleTyped ==
    ASSUME NEW K, SessionOK(K), Wired(K), StopHandle
    PROVE  SessionOK(K)'
  <1>1. PICK a \in Registered :
            /\ HandleStop(a)
            /\ IF a = "Send" THEN BufferLost ELSE UNCHANGED toBroker
            /\ IF a = "Recv" THEN fromBroker' = <<>> ELSE UNCHANGED fromBroker
    BY DEF StopHandle
  <1>2. toBroker' \in Seq(K.client)
    BY <1>1, BufferLostTyped DEF SessionOK
  <1>3. fromBroker' \in Seq(K.server)
    <2>1. fromBroker \in Seq(K.server) /\ <<>> \in Seq(K.server)
      BY DEF SessionOK
    <2> QED
      BY <1>1, <2>1, Zenon
  <1> QED
    BY <1>1, <1>2, <1>3, HandleStopTyped DEF HandleStop, SessionOK, BoxesOK

\* No step in the background puts anything where it does not belong.
LEMMA BackgroundTyped ==
    ASSUME NEW K, SessionOK(K), Wired(K), Background
    PROVE  SessionOK(K)'
  <1>1. CASE Resend /\ UNCHANGED <<statusVars, wireVars>>
    BY <1>1, ResendTyped
  <1>2. CASE BroadcastStop /\ UNCHANGED <<statusVars, wireVars>>
    BY <1>2, BroadcastStopTyped
  <1>3. CASE TaskNext /\ UNCHANGED wireVars
    BY <1>3, TimerFiresTyped, AskStatusTyped, StatusCheckedTyped DEF TaskNext
  <1>4. CASE TransportNext /\ UNCHANGED statusVars
    BY <1>4, SendHandleTyped, RecvPacketTyped, DispatchHandleTyped, RecvFailsTyped,
       WriteErrorTyped, DispatchOrphanedTyped DEF TransportNext, RecvError
  <1>5. CASE StopHandle
    BY <1>5, StopHandleTyped
  <1> QED
    BY <1>1, <1>2, <1>3, <1>4, <1>5 DEF Background

\* Nothing is in a mailbox, task or wire when the client starts.
LEMMA SessionInitTyped ==
    ASSUME NEW K, SessionInit
    PROVE  SessionOK(K)
  BY EmptyBagElements DEF SessionInit, ActorsInit, StatusInit, TransportInit, SessionOK

=============================================================================
