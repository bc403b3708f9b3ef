---------------------------- MODULE Chain_proofs ----------------------------
(***************************************************************************)
(* Following a message that is handled again and again.  Between two times *)
(* its actor handles it, such a message is in the actor's mailbox, in a    *)
(* resend after a full mailbox, or in a status check, which is a timer, a  *)
(* task about to ask, a question in the mailbox of the status actor or an  *)
(* answer.  The lemmas follow the messages of a set S for an actor a: no   *)
(* step of Session makes two of one of them, or one where there was none.  *)
(*                                                                         *)
(* The second part follows a packet identifier: what reaches the status    *)
(* actor about it, when its status is gone for good, and what the messages *)
(* of an attempt can still do then.                                        *)
(*                                                                         *)
(* The third part counts: whatever the messages on their way are worth to  *)
(* a component, no step of Session makes them worth more.                  *)
(***************************************************************************)
EXTENDS Session_proofs, FiniteSetTheorems

(* Where a message of S may be. *)

TasksFor(K, a, S)   == {t \in K.tasks : t.actor = a /\ t.msg \in S}
ResendsFor(K, a, S) == {r \in K.resends : r.to = a /\ r.msg \in S}
Asks(K, a, S)       == {GetAndRemovePacketStatus(t) : t \in TasksFor(K, a, S)}
AnswersFor(K, a, S) == {r \in [task : K.tasks, answer : Answer] : r.task \in TasksFor(K, a, S)}

\* None, or at most one, of E is in a sequence or in a bag.
NoneIn(s, E)    == \A i \in DOMAIN s : s[i] \notin E
OnceIn(s, E)    == \A i, j \in DOMAIN s : s[i] \in E /\ s[j] \in E => i = j
NoneInBag(B, E) == \A e \in BagToSet(B) : e \notin E
OnceInBag(B, E) == \A e, f \in BagToSet(B) : e \in E /\ f \in E => e = f /\ B[e] = 1

Place == {"mailbox", "status", "resends", "timers", "asking", "answered"}

NoneButAt(here, K, a, S) ==
    /\ here # "mailbox"  => NoneIn(mbox[a], S)
    /\ here # "status"   => NoneIn(mbox["Status"], Asks(K, a, S))
    /\ here # "resends"  => NoneInBag(resends, ResendsFor(K, a, S))
    /\ here # "timers"   => NoneInBag(timers, TasksFor(K, a, S))
    /\ here # "asking"   => NoneInBag(asking, TasksFor(K, a, S))
    /\ here # "answered" => NoneInBag(answered, AnswersFor(K, a, S))

OnceEverywhere(K, a, S) ==
    /\ OnceIn(mbox[a], S)
    /\ OnceIn(mbox["Status"], Asks(K, a, S))
    /\ OnceInBag(resends, ResendsFor(K, a, S))
    /\ OnceInBag(timers, TasksFor(K, a, S))
    /\ OnceInBag(asking, TasksFor(K, a, S))
    /\ OnceInBag(answered, AnswersFor(K, a, S))

\* No message of S is anywhere; there is at most one, in one of the places.
Absent(K, a, S)    == NoneButAt("nowhere", K, a, S)
AtMostOne(K, a, S) ==
    /\ OnceEverywhere(K, a, S)
    /\ \E here \in Place : NoneButAt(here, K, a, S)

\* Only the steps of a itself, and of who sends to it, put messages of S
\* into its mailbox.
Followed(K, a, S) ==
    /\ a \in Actor \ {"Status", "Send", "Dispatch"}
    /\ StopMessage \notin S
    /\ \A f \in BOOLEAN : [type |-> "PacketSendStatus", finished |-> f] \notin S
    /\ \A msg \in K.messages["Dispatch"] :
           msg.type = "Packet" => PacketMessage(msg.packet, 0) \notin S \cup Asks(K, a, S)
    /\ \A r \in K.resends : r.to # "Status"
    /\ \A t \in K.tasks : t.actor # "Status"

-----------------------------------------------------------------------------
(* Sequences, bags, and how many elements a set of at most one has. *)

LEMMA CardinalityAtMostOne ==
    ASSUME NEW T, \A x, y \in T : x = y
    PROVE  /\ Cardinality(T) \in 0 .. 1
           /\ T = {} => Cardinality(T) = 0
  <1>1. CASE T = {}
    BY <1>1, FS_EmptySet
  <1>2. CASE T # {}
    <2>1. PICK e : T = {e}
      BY <1>2
    <2>2. Cardinality({e}) = 1
      BY FS_Singleton
    <2> QED
      BY <2>1, <2>2
  <1> QED
    BY <1>1, <1>2

LEMMA NoneInAppend ==
    ASSUME NEW M, NEW s \in Seq(M), NEW E, NEW x, NoneIn(s, E)
    PROVE  /\ x \notin E => NoneIn(Append(s, x), E)
           /\ OnceIn(Append(s, x), E)
  <1>1. DOMAIN Append(s, x) = 1 .. Len(s) + 1 /\ DOMAIN s = 1 .. Len(s) /\ Len(s) \in Nat
    BY AppendProperties, LenProperties
  <1>2. \A i \in 1 .. Len(s) + 1 : Append(s, x)[i] = IF i = Len(s) + 1 THEN x ELSE s[i]
    BY AppendProperties
  <1> QED
    BY <1>1, <1>2 DEF NoneIn, OnceIn

LEMMA OnceInAppend ==
    ASSUME NEW M, NEW s \in Seq(M), NEW E, NEW x, OnceIn(s, E), x \notin E
    PROVE  OnceIn(Append(s, x), E)
  <1>1. DOMAIN Append(s, x) = 1 .. Len(s) + 1 /\ DOMAIN s = 1 .. Len(s) /\ Len(s) \in Nat
    BY AppendProperties, LenProperties
  <1>2. \A i \in 1 .. Len(s) + 1 : Append(s, x)[i] = IF i = Len(s) + 1 THEN x ELSE s[i]
    BY AppendProperties
  <1> QED
    BY <1>1, <1>2 DEF OnceIn

LEMMA InTail ==
    ASSUME NEW M, NEW s \in Seq(M), s # <<>>, NEW E
    PROVE  /\ NoneIn(s, E) => NoneIn(Tail(s), E)
           /\ OnceIn(s, E) => OnceIn(Tail(s), E)
           /\ OnceIn(s, E) /\ Head(s) \in E => NoneIn(Tail(s), E)
  <1>1. /\ DOMAIN s = 1 .. Len(s) /\ Len(s) \in Nat /\ Len(s) # 0 /\ Head(s) = s[1]
        /\ DOMAIN Tail(s) = 1 .. Len(s) - 1
        /\ \A i \in 1 .. Len(s) - 1 : Tail(s)[i] = s[i + 1]
    BY HeadTailProperties, LenProperties, EmptySeq
  <1> QED
    BY <1>1 DEF NoneIn, OnceIn

LEMMA NoneInBagAdd ==
    ASSUME NEW B, NEW x, NEW E, NoneInBag(B, E)
    PROVE  /\ x \notin E => NoneInBag(BagAdd(B, x), E)
           /\ OnceInBag(BagAdd(B, x), E)
  BY DEF NoneInBag, OnceInBag, BagAdd, BagToSet

LEMMA OnceInBagAdd ==
    ASSUME NEW B, NEW x, NEW E, OnceInBag(B, E), x \notin E
    PROVE  OnceInBag(BagAdd(B, x), E)
  BY DEF OnceInBag, BagAdd, BagToSet

LEMMA InBagRemove ==
    ASSUME NEW B, NEW x, NEW E
    PROVE  /\ NoneInBag(B, E) => NoneInBag(BagRemove(B, x), E)
           /\ x \in BagToSet(B) /\ x \in E /\ OnceInBag(B, E) => NoneInBag(BagRemove(B, x), E)
           /\ OnceInBag(B, E) => OnceInBag(BagRemove(B, x), E)
  BY DEF NoneInBag, OnceInBag, BagRemove, BagToSet

-----------------------------------------------------------------------------
(* Steps that do not touch a message of S. *)

BoxKeeps(old, new, K, a, S) ==
    /\ NoneIn(old[a], S) => NoneIn(new[a], S)
    /\ OnceIn(old[a], S) => OnceIn(new[a], S)
    /\ NoneIn(old["Status"], Asks(K, a, S)) => NoneIn(new["Status"], Asks(K, a, S))
    /\ OnceIn(old["Status"], Asks(K, a, S)) => OnceIn(new["Status"], Asks(K, a, S))

BagKeeps(B, C, E) ==
    /\ NoneInBag(B, E) => NoneInBag(C, E)
    /\ OnceInBag(B, E) => OnceInBag(C, E)

Undisturbed(K, a, S) ==
    /\ BoxKeeps(mbox, mbox', K, a, S)
    /\ BagKeeps(resends, resends', ResendsFor(K, a, S))
    /\ BagKeeps(timers, timers', TasksFor(K, a, S))
    /\ BagKeeps(asking, asking', TasksFor(K, a, S))
    /\ BagKeeps(answered, answered', AnswersFor(K, a, S))

\* What every step of a session does to the messages of S.
Carries(K, a, S) ==
    /\ Absent(K, a, S) => Absent(K, a, S)'
    /\ AtMostOne(K, a, S) => AtMostOne(K, a, S)'

LEMMA UndisturbedCarries ==
    ASSUME NEW K, NEW a, NEW S, Undisturbed(K, a, S)
    PROVE  Carries(K, a, S)
  <1> USE DEF Undisturbed, BoxKeeps, BagKeeps
  <1>1. ASSUME NEW here, NoneButAt(here, K, a, S)
        PROVE  NoneButAt(here, K, a, S)'
    BY <1>1 DEF NoneButAt
  <1>2. OnceEverywhere(K, a, S) => OnceEverywhere(K, a, S)'
    BY DEF OnceEverywhere
  <1> QED
    BY <1>1, <1>2 DEF Carries, Absent, AtMostOne

LEMMA BoxKeepsItself ==
    ASSUME NEW K, NEW a, NEW S, NEW box
    PROVE  BoxKeeps(box, box, K, a, S)
  BY DEF BoxKeeps

LEMMA BagKeepsItself ==
    ASSUME NEW B, NEW E
    PROVE  BagKeeps(B, B, E)
  BY DEF BagKeeps

LEMMA BoxKeepsOn ==
    ASSUME NEW K, NEW a, NEW S, NEW box, NEW box2, NEW box3,
           BoxKeeps(box, box2, K, a, S), BoxKeeps(box2, box3, K, a, S)
    PROVE  BoxKeeps(box, box3, K, a, S)
  BY DEF BoxKeeps

LEMMA PostKeeps ==
    ASSUME NEW K, NEW a \in Actor, NEW S, SessionOK(K), NEW box, BoxesOK(K, box), NEW b, NEW m,
           b = a => m \notin S, b = "Status" => m \notin Asks(K, a, S)
    PROVE  BoxKeeps(box, Post(box, b, m), K, a, S)
  <1>1. CASE b \notin alive
    BY <1>1, BoxKeepsItself DEF Post
  <1>2. CASE b \in alive
    <2>1. Post(box, b, m) = [box EXCEPT ![b] = Append(@, m)] /\ b \in Actor
      BY <1>2 DEF Post, SessionOK
    <2>2. /\ box[a] \in Seq(K.messages[a])
          /\ box["Status"] \in Seq(K.messages["Status"])
          /\ DOMAIN box = Actor
      BY ActorAssumption DEF BoxesOK
    <2>3. \A c \in {a, "Status"} :
              Post(box, b, m)[c] = IF c = b THEN Append(box[c], m) ELSE box[c]
      BY <2>1, <2>2, ActorAssumption
    <2>4. /\ NoneIn(box[a], S) => NoneIn(Post(box, b, m)[a], S)
          /\ OnceIn(box[a], S) => OnceIn(Post(box, b, m)[a], S)
      <3>1. CASE a = b
        BY <2>2, <2>3, <3>1, NoneInAppend, OnceInAppend
      <3>2. CASE a # b
        BY <2>3, <3>2
      <3> QED
        BY <3>1, <3>2
    <2>5. /\ NoneIn(box["Status"], Asks(K, a, S)) => NoneIn(Post(box, b, m)["Status"], Asks(K, a, S))
          /\ OnceIn(box["Status"], Asks(K, a, S)) => OnceIn(Post(box, b, m)["Status"], Asks(K, a, S))
      <3>1. CASE "Status" = b
        BY <2>2, <2>3, <3>1, NoneInAppend, OnceInAppend
      <3>2. CASE "Status" # b
        BY <2>3, <3>2
      <3> QED
        BY <3>1, <3>2
    <2> QED
      BY <2>4, <2>5 DEF BoxKeeps
  <1> QED
    BY <1>1, <1>2

\* No question to the status actor is a StopMessage.
LEMMA PostStopKeeps ==
    ASSUME NEW K, NEW a, NEW S, SessionOK(K), Followed(K, a, S), NEW box, BoxesOK(K, box)
    PROVE  BoxKeeps(box, Post(box, "Stop", StopMessage), K, a, S)
  BY PostKeeps DEF Followed

LEMMA TakeKeeps ==
    ASSUME NEW K, NEW a \in Actor, NEW S, SessionOK(K), NEW b \in Actor, mbox[b] # <<>>
    PROVE  BoxKeeps(mbox, Take(b), K, a, S)
  <1>1. /\ mbox[a] \in Seq(K.messages[a])
        /\ mbox["Status"] \in Seq(K.messages["Status"])
        /\ "Status" \in Actor
    BY ActorAssumption DEF SessionOK
  <1>2. \A c \in Actor : Take(b)[c] = IF c = b THEN Tail(mbox[c]) ELSE mbox[c]
    BY DEF Take, SessionOK
  <1>3. /\ NoneIn(mbox[a], S) => NoneIn(Take(b)[a], S)
        /\ OnceIn(mbox[a], S) => OnceIn(Take(b)[a], S)
    <2>1. CASE a = b
      BY <1>1, <1>2, <2>1, InTail
    <2>2. CASE a # b
      BY <1>2, <2>2
    <2> QED
      BY <2>1, <2>2
  <1>4. /\ NoneIn(mbox["Status"], Asks(K, a, S)) => NoneIn(Take(b)["Status"], Asks(K, a, S))
        /\ OnceIn(mbox["Status"], Asks(K, a, S)) => OnceIn(Take(b)["Status"], Asks(K, a, S))
    <2>1. CASE "Status" = b
      BY <1>1, <1>2, <2>1, InTail
    <2>2. CASE "Status" # b
      BY <1>1, <1>2, <2>2
    <2> QED
      BY <2>1, <2>2
  <1> QED
    BY <1>3, <1>4 DEF BoxKeeps

LEMMA EmptiedKeeps ==
    ASSUME NEW K, NEW a \in Actor, NEW S, NEW box, BoxesOK(K, box), NEW b
    PROVE  BoxKeeps(box, [box EXCEPT ![b] = <<>>], K, a, S)
  <1>1. DOMAIN box = Actor /\ "Status" \in Actor
    BY ActorAssumption DEF BoxesOK
  <1>2. \A c \in Actor : [box EXCEPT ![b] = <<>>][c] = IF c = b THEN <<>> ELSE box[c]
    BY <1>1
  <1>3. \A E : NoneIn(<<>>, E) /\ OnceIn(<<>>, E)
    BY DEF NoneIn, OnceIn
  <1> QED
    BY <1>1, <1>2, <1>3 DEF BoxKeeps

LEMMA SendErrorKeeps ==
    ASSUME NEW K, NEW a, NEW S, SessionOK(K), Followed(K, a, S), NEW box, BoxesOK(K, box),
           NEW target, HandleSendError(target, box)
    PROVE  BoxKeeps(box, mbox', K, a, S)
  BY PostStopKeeps, BoxKeepsItself DEF HandleSendError

LEMMA BagAddKeeps ==
    ASSUME NEW B, NEW x, NEW E, x \notin E
    PROVE  BagKeeps(B, BagAdd(B, x), E)
  BY NoneInBagAdd, OnceInBagAdd DEF BagKeeps

LEMMA BagRemoveKeeps ==
    ASSUME NEW B, NEW x, NEW E
    PROVE  BagKeeps(B, BagRemove(B, x), E)
  BY InBagRemove DEF BagKeeps

-----------------------------------------------------------------------------
(* Steps that take a message of S from one place to another. *)

\* The resend: from the task to the mailbox.
LEMMA ResendCarries ==
    ASSUME NEW K, NEW a, NEW S, SessionOK(K), Followed(K, a, S),
           Resend, UNCHANGED <<statusVars, wireVars>>
    PROVE  Carries(K, a, S)
  <1> DEFINE E == ResendsFor(K, a, S)
  <1>1. PICK r \in BagToSet(resends) :
            /\ mbox' = Post(mbox, r.to, r.msg)
            /\ resends' = BagRemove(resends, r)
            /\ UNCHANGED alive
    BY DEF Resend
  <1>2. UNCHANGED <<timers, asking, answered>>
    BY DEF statusVars
  <1>3. a \in Actor /\ a # "Status" /\ r \in K.resends /\ r.to # "Status" /\ BoxesOK(K, mbox)
    BY DEF SessionOK, Followed, BoxesOK
  <1>4. CASE r \notin E
    <2>1. r.to = a => r.msg \notin S
      BY <1>3, <1>4 DEF ResendsFor
    <2>2. BoxKeeps(mbox, mbox', K, a, S)
      BY <1>1, <1>3, <2>1, PostKeeps
    <2>3. BagKeeps(resends, resends', E)
      BY <1>1, BagRemoveKeeps
    <2> QED
      BY <1>2, <2>2, <2>3, BagKeepsItself, UndisturbedCarries DEF Undisturbed
  <1>5. CASE r \in E
    <2>1. r.to = a /\ r.msg \in S /\ ~NoneInBag(resends, E)
      BY <1>5 DEF ResendsFor, NoneInBag
    <2>2. SUFFICES ASSUME AtMostOne(K, a, S) PROVE AtMostOne(K, a, S)'
      BY <2>1 DEF Carries, Absent, NoneButAt
    <2>3. NoneButAt("resends", K, a, S) /\ OnceEverywhere(K, a, S)
      BY <2>1, <2>2 DEF AtMostOne, NoneButAt
    <2>4. NoneInBag(resends', E) /\ OnceInBag(resends', E)
      BY <1>1, <1>5, <2>3, InBagRemove DEF OnceEverywhere
    <2>5. mbox[a] \in Seq(K.messages[a]) /\ NoneIn(mbox[a], S) /\ a \in DOMAIN mbox
      BY <1>3, <2>3 DEF NoneButAt, SessionOK
    <2>6. OnceIn(mbox'[a], S) /\ mbox'["Status"] = mbox["Status"]
      <3>1. mbox' = IF a \in alive THEN [mbox EXCEPT ![a] = Append(@, r.msg)] ELSE mbox
        BY <1>1, <2>1 DEF Post
      <3>2. mbox'[a] = mbox[a] \/ mbox'[a] = Append(mbox[a], r.msg)
        BY <2>5, <3>1
      <3>3. mbox'["Status"] = mbox["Status"]
        BY <1>3, <3>1
      <3> QED
        BY <2>3, <2>5, <3>2, <3>3, NoneInAppend DEF OnceEverywhere
    <2>7. NoneButAt("mailbox", K, a, S)'
      BY <1>2, <2>3, <2>4, <2>6 DEF NoneButAt
    <2>8. OnceEverywhere(K, a, S)'
      BY <1>2, <2>3, <2>4, <2>6 DEF OnceEverywhere
    <2> QED
      BY <2>7, <2>8 DEF AtMostOne, Place
  <1> QED
    BY <1>4, <1>5

\* COMMAND_TIMEOUT is over: from the timer to the task.
LEMMA TimerFiresCarries ==
    ASSUME NEW K, NEW a, NEW S, TimerFires
    PROVE  Carries(K, a, S)
  <1> DEFINE E == TasksFor(K, a, S)
  <1>1. PICK t \in BagToSet(timers) :
            /\ timers' = BagRemove(timers, t)
            /\ asking' = BagAdd(asking, t)
            /\ UNCHANGED <<mbox, resends, answered>>
    BY DEF TimerFires, actorVars
  <1>2. CASE t \notin E
    <2>1. BagKeeps(timers, timers', E) /\ BagKeeps(asking, asking', E)
      BY <1>1, <1>2, BagRemoveKeeps, BagAddKeeps
    <2> QED
      BY <1>1, <2>1, BagKeepsItself, BoxKeepsItself, UndisturbedCarries DEF Undisturbed
  <1>3. CASE t \in E
    <2>1. ~NoneInBag(timers, E)
      BY <1>3 DEF NoneInBag
    <2>2. SUFFICES ASSUME AtMostOne(K, a, S) PROVE AtMostOne(K, a, S)'
      BY <2>1 DEF Carries, Absent, NoneButAt
    <2>3. NoneButAt("timers", K, a, S) /\ OnceEverywhere(K, a, S)
      BY <2>1, <2>2 DEF AtMostOne, NoneButAt
    <2>4. NoneInBag(timers', E) /\ OnceInBag(timers', E)
      BY <1>1, <1>3, <2>3, InBagRemove DEF OnceEverywhere
    <2>5. OnceInBag(asking', E)
      BY <1>1, <2>3, NoneInBagAdd DEF NoneButAt
    <2>6. NoneButAt("asking", K, a, S)'
      BY <1>1, <2>3, <2>4 DEF NoneButAt
    <2>7. OnceEverywhere(K, a, S)'
      BY <1>1, <2>3, <2>4, <2>5 DEF OnceEverywhere
    <2> QED
      BY <2>6, <2>7 DEF AtMostOne, Place
  <1> QED
    BY <1>2, <1>3

\* The question and its answer speak of the same task.
LEMMA QuestionsAndAnswers ==
    ASSUME NEW K, NEW a, NEW S, NEW t \in K.tasks, NEW answer \in Answer
    PROVE  /\ GetAndRemovePacketStatus(t) \in Asks(K, a, S) <=> t \in TasksFor(K, a, S)
           /\ Answered(t, answer) \in AnswersFor(K, a, S) <=> t \in TasksFor(K, a, S)
  <1>1. \A u : GetAndRemovePacketStatus(u) = GetAndRemovePacketStatus(t) => u = t
    <2>1. \A u : GetAndRemovePacketStatus(u).task = u
      BY DEF GetAndRemovePacketStatus
    <2> QED
      BY <2>1
  <1>2. GetAndRemovePacketStatus(t) \in Asks(K, a, S) <=> t \in TasksFor(K, a, S)
    BY <1>1 DEF Asks
  <1>3. Answered(t, answer) \in [task : K.tasks, answer : Answer] /\ Answered(t, answer).task = t
    BY DEF Answered
  <1> QED
    BY <1>2, <1>3 DEF AnswersFor

\* The task asks: from the task to the question, or to the answer of a status
\* actor that has stopped.
LEMMA AskStatusCarries ==
    ASSUME NEW K, NEW a, NEW S, SessionOK(K), Followed(K, a, S), AskStatus
    PROVE  Carries(K, a, S)
  <1> DEFINE E == TasksFor(K, a, S)
             Q == Asks(K, a, S)
             F == AnswersFor(K, a, S)
  <1>1. PICK t \in BagToSet(asking) :
            /\ asking' = BagRemove(asking, t)
            /\ \/ /\ Accepts("Status")
                  /\ mbox' = Post(mbox, "Status", GetAndRemovePacketStatus(t))
                  /\ UNCHANGED answered
               \/ /\ Closed("Status")
                  /\ answered' = BagAdd(answered, Answered(t, "Closed"))
                  /\ UNCHANGED mbox
            /\ UNCHANGED <<resends, timers>>
    BY DEF AskStatus
  <1>2. /\ a \in Actor /\ a # "Status" /\ "Status" \in Actor /\ BoxesOK(K, mbox)
        /\ t \in K.tasks
    BY ActorAssumption DEF SessionOK, Followed, BoxesOK
  <1>3. /\ GetAndRemovePacketStatus(t) \in Q <=> t \in E
        /\ Answered(t, "Closed") \in F <=> t \in E
    BY <1>2, QuestionsAndAnswers DEF Answer
  <1>4. CASE t \notin E
    <2>1. BoxKeeps(mbox, mbox', K, a, S)
      BY <1>1, <1>2, <1>3, <1>4, PostKeeps, BoxKeepsItself
    <2>2. BagKeeps(asking, asking', E) /\ BagKeeps(answered, answered', F)
      BY <1>1, <1>3, <1>4, BagRemoveKeeps, BagAddKeeps, BagKeepsItself
    <2> QED
      BY <1>1, <2>1, <2>2, BagKeepsItself, UndisturbedCarries DEF Undisturbed
  <1>5. CASE t \in E
    <2>1. ~NoneInBag(asking, E)
      BY <1>5 DEF NoneInBag
    <2>2. SUFFICES ASSUME AtMostOne(K, a, S) PROVE AtMostOne(K, a, S)'
      BY <2>1 DEF Carries, Absent, NoneButAt
    <2>3. NoneButAt("asking", K, a, S) /\ OnceEverywhere(K, a, S)
      BY <2>1, <2>2 DEF AtMostOne, NoneButAt
    <2>4. NoneInBag(asking', E) /\ OnceInBag(asking', E)
      BY <1>1, <1>5, <2>3, InBagRemove DEF OnceEverywhere
    <2>5. CASE Accepts("Status")
      <3>1. /\ mbox["Status"] \in Seq(K.messages["Status"]) /\ NoneIn(mbox["Status"], Q)
            /\ DOMAIN mbox = Actor
        BY <1>2, <2>3 DEF NoneButAt, SessionOK
      <3>2. mbox' = [mbox EXCEPT !["Status"] = Append(@, GetAndRemovePacketStatus(t))]
            /\ UNCHANGED answered
        BY <1>1, <2>5 DEF Accepts, Closed, Post
      <3>3. mbox'[a] = mbox[a] /\ mbox'["Status"] = Append(mbox["Status"], GetAndRemovePacketStatus(t))
        BY <1>2, <3>1, <3>2
      <3>4. OnceIn(mbox'["Status"], Q)
        BY <3>1, <3>3, NoneInAppend
      <3>5. NoneButAt("status", K, a, S)'
        BY <1>1, <2>3, <2>4, <3>2, <3>3 DEF NoneButAt
      <3>6. OnceEverywhere(K, a, S)'
        BY <1>1, <2>3, <2>4, <3>2, <3>3, <3>4 DEF OnceEverywhere
      <3> QED
        BY <3>5, <3>6 DEF AtMostOne, Place
    <2>6. CASE Closed("Status")
      <3>1. answered' = BagAdd(answered, Answered(t, "Closed")) /\ UNCHANGED mbox
        BY <1>1, <2>6 DEF Accepts, Closed
      <3>2. OnceInBag(answered', F)
        BY <2>3, <3>1, NoneInBagAdd DEF NoneButAt
      <3>3. NoneButAt("answered", K, a, S)'
        BY <1>1, <2>3, <2>4, <3>1 DEF NoneButAt
      <3>4. OnceEverywhere(K, a, S)'
        BY <1>1, <2>3, <2>4, <3>1, <3>2 DEF OnceEverywhere
      <3> QED
        BY <3>3, <3>4 DEF AtMostOne, Place
    <2> QED
      BY <1>1, <2>5, <2>6
  <1> QED
    BY <1>4, <1>5

\* The answer says that the packet is still waiting: from the answer to the
\* mailbox.
LEMMA StatusCheckedCarries ==
    ASSUME NEW K, NEW a, NEW S, SessionOK(K), Followed(K, a, S), StatusChecked
    PROVE  Carries(K, a, S)
  <1> DEFINE F == AnswersFor(K, a, S)
  <1>1. PICK r \in BagToSet(answered) :
            /\ answered' = BagRemove(answered, r)
            /\ \/ mbox' = Post(mbox, r.task.actor, r.task.msg)
               \/ mbox' = Post(mbox, "Stop", StopMessage)
               \/ mbox' = mbox
            /\ UNCHANGED <<resends, timers, asking>>
    BY DEF StatusChecked
  <1>2. /\ a \in Actor /\ a # "Status" /\ BoxesOK(K, mbox)
        /\ r \in [task : K.tasks, answer : Answer] /\ r.task.actor # "Status"
    BY DEF SessionOK, Followed, BoxesOK
  <1>3. r \in F <=> r.task.actor = a /\ r.task.msg \in S
    BY <1>2 DEF AnswersFor, TasksFor
  <1>4. BagKeeps(answered, answered', F)
    BY <1>1, BagRemoveKeeps
  <1>5. CASE mbox' = Post(mbox, r.task.actor, r.task.msg) /\ r \in F
    <2>1. ~NoneInBag(answered, F)
      BY <1>5 DEF NoneInBag
    <2>2. SUFFICES ASSUME AtMostOne(K, a, S) PROVE AtMostOne(K, a, S)'
      BY <2>1 DEF Carries, Absent, NoneButAt
    <2>3. NoneButAt("answered", K, a, S) /\ OnceEverywhere(K, a, S)
      BY <2>1, <2>2 DEF AtMostOne, NoneButAt
    <2>4. NoneInBag(answered', F) /\ OnceInBag(answered', F)
      BY <1>1, <1>5, <2>3, InBagRemove DEF OnceEverywhere
    <2>5. mbox[a] \in Seq(K.messages[a]) /\ NoneIn(mbox[a], S) /\ DOMAIN mbox = Actor
      BY <1>2, <2>3 DEF NoneButAt, SessionOK
    <2>6. OnceIn(mbox'[a], S) /\ mbox'["Status"] = mbox["Status"]
      <3>1. mbox' = IF a \in alive THEN [mbox EXCEPT ![a] = Append(@, r.task.msg)] ELSE mbox
        BY <1>3, <1>5 DEF Post
      <3>2. mbox'[a] = mbox[a] \/ mbox'[a] = Append(mbox[a], r.task.msg)
        BY <1>2, <2>5, <3>1
      <3>3. mbox'["Status"] = mbox["Status"]
        BY <1>2, <3>1
      <3> QED
        BY <2>3, <2>5, <3>2, <3>3, NoneInAppend DEF OnceEverywhere
    <2>7. NoneButAt("mailbox", K, a, S)'
      BY <1>1, <2>3, <2>4, <2>6 DEF NoneButAt
    <2>8. OnceEverywhere(K, a, S)'
      BY <1>1, <2>3, <2>4, <2>6 DEF OnceEverywhere
    <2> QED
      BY <2>7, <2>8 DEF AtMostOne, Place
  <1>6. CASE ~(mbox' = Post(mbox, r.task.actor, r.task.msg) /\ r \in F)
    <2>1. BoxKeeps(mbox, mbox', K, a, S)
      BY <1>1, <1>2, <1>3, <1>6, PostKeeps, PostStopKeeps, BoxKeepsItself
    <2> QED
      BY <1>1, <1>4, <2>1, BagKeepsItself, UndisturbedCarries DEF Undisturbed
  <1> QED
    BY <1>5, <1>6

\* The status actor answers: from the question to the answer.
LEMMA StatusHandleCarries ==
    ASSUME NEW K, NEW a, NEW S, SessionOK(K), Wired(K), Followed(K, a, S), StatusHandle
    PROVE  Carries(K, a, S)
  <1> DEFINE Q == Asks(K, a, S)
             F == AnswersFor(K, a, S)
             op == Head(mbox["Status"])
             answer == Answered(op.task, packetStatus[op.id])
  <1>1. /\ a \in Actor /\ a # "Status" /\ "Status" \in Actor /\ BoxesOK(K, mbox)
        /\ mbox["Status"] \in Seq(K.messages["Status"]) /\ mbox["Status"] # <<>>
        /\ op \in K.messages["Status"] /\ op.type = "Status"
    BY ActorAssumption, TakeTyped DEF StatusHandle, SessionOK, Followed, BoxesOK
  <1>2. UNCHANGED <<resends, timers, asking>>
    BY DEF StatusHandle
  <1>3. BoxKeeps(mbox, mbox', K, a, S)
    <2>1. BoxKeeps(mbox, Take("Status"), K, a, S) /\ BoxesOK(K, Take("Status"))
      BY <1>1, TakeKeeps, TakeTyped DEF StatusHandle
    <2>2. Report(op) \notin S
      BY DEF Report, PacketSendStatus, Followed
    <2>3. mbox'["Status"] = Take("Status")["Status"]
      BY <1>1, StatusAssumption DEF StatusHandle
    <2>4. mbox'[a] = Append(mbox[a], Report(op)) \/ mbox'[a] = Take("Status")[a]
      BY <1>1 DEF StatusHandle
    <2>5. mbox[a] \in Seq(K.messages[a])
      BY <1>1 DEF SessionOK
    <2> QED
      BY <2>1, <2>2, <2>3, <2>4, <2>5, NoneInAppend, OnceInAppend DEF BoxKeeps
  <1>4. CASE op.op # "GetAndRemove"
    <2>1. UNCHANGED answered
      BY <1>4 DEF StatusHandle
    <2> QED
      BY <1>2, <1>3, <2>1, BagKeepsItself, UndisturbedCarries DEF Undisturbed
  <1>5. CASE op.op = "GetAndRemove"
    <2>1. /\ op = GetAndRemovePacketStatus(op.task) /\ op.task \in K.tasks /\ op.id \in Id
          /\ packetStatus[op.id] \in Answer
      BY <1>1, <1>5 DEF Wired, SessionOK, Answer
    <2>2. answered' = BagAdd(answered, answer)
      BY <1>5 DEF StatusHandle
    <2>3. op \in Q <=> answer \in F
      BY <2>1, QuestionsAndAnswers
    <2>4. CASE op \notin Q
      <3>1. BagKeeps(answered, answered', F)
        BY <2>2, <2>3, <2>4, BagAddKeeps
      <3> QED
        BY <1>2, <1>3, <3>1, BagKeepsItself, UndisturbedCarries DEF Undisturbed
    <2>5. CASE op \in Q
      <3>1. ~NoneIn(mbox["Status"], Q)
        <4>1. 1 \in DOMAIN mbox["Status"] /\ op = mbox["Status"][1]
          BY <1>1
        <4> QED
          BY <2>5, <4>1 DEF NoneIn
      <3>2. SUFFICES ASSUME AtMostOne(K, a, S) PROVE AtMostOne(K, a, S)'
        BY <3>1 DEF Carries, Absent, NoneButAt
      <3>3. NoneButAt("status", K, a, S) /\ OnceEverywhere(K, a, S)
        BY <3>1, <3>2 DEF AtMostOne, NoneButAt
      <3>4. NoneIn(mbox'["Status"], Q)
        <4>1. mbox'["Status"] = Tail(mbox["Status"])
          BY <1>1, StatusAssumption DEF StatusHandle, Take, SessionOK
        <4> QED
          BY <1>1, <2>5, <3>3, <4>1, InTail DEF OnceEverywhere
      <3>5. OnceInBag(answered', F)
        BY <2>2, <3>3, NoneInBagAdd DEF NoneButAt
      <3>6. NoneIn(mbox'[a], S) /\ OnceIn(mbox'[a], S)
        BY <1>3, <3>3 DEF BoxKeeps, NoneButAt, OnceEverywhere
      <3>7. NoneButAt("answered", K, a, S)'
        BY <1>2, <3>3, <3>4, <3>6 DEF NoneButAt
      <3>8. OnceEverywhere(K, a, S)'
        BY <1>2, <1>3, <3>3, <3>5, <3>6 DEF OnceEverywhere, BoxKeeps
      <3> QED
        BY <3>7, <3>8 DEF AtMostOne, Place
    <2> QED
      BY <2>4, <2>5
  <1> QED
    BY <1>4, <1>5

\* An actor stops.  With the status actor stop the questions in its mailbox:
\* from the question to the answer "Closed".
LEMMA UnanswerableNone ==
    ASSUME NEW K, NEW a, NEW S, SessionOK(K), Wired(K),
           NoneIn(mbox["Status"], Asks(K, a, S))
    PROVE  NoneInBag(Unanswerable(mbox["Status"]), AnswersFor(K, a, S))
  <1> DEFINE box == mbox["Status"]
  <1>1. box \in Seq(K.messages["Status"])
    BY ActorAssumption DEF SessionOK
  <1>2. SUFFICES ASSUME NEW j \in DOMAIN box, box[j].type = "Status", box[j].op = "GetAndRemove"
                 PROVE  Answered(box[j].task, "Closed") \notin AnswersFor(K, a, S)
    BY DEF NoneInBag, Unanswerable, BagToSet
  <1>3. box[j] \in K.messages["Status"]
    BY <1>1, ElementOfSeq
  <1>4. box[j] = GetAndRemovePacketStatus(box[j].task) /\ box[j].task \in K.tasks
    BY <1>2, <1>3 DEF Wired
  <1> QED
    BY <1>4, QuestionsAndAnswers DEF NoneIn, Answer

LEMMA UnanswerableOnce ==
    ASSUME NEW K, NEW a, NEW S, SessionOK(K), Wired(K),
           OnceIn(mbox["Status"], Asks(K, a, S))
    PROVE  OnceInBag(Unanswerable(mbox["Status"]), AnswersFor(K, a, S))
  <1> DEFINE box == mbox["Status"]
             Questions == {j \in DOMAIN box : box[j].type = "Status" /\ box[j].op = "GetAndRemove"}
             U == Unanswerable(box)
             F == AnswersFor(K, a, S)
  <1>1. box \in Seq(K.messages["Status"])
    BY ActorAssumption DEF SessionOK
  <1>2. ASSUME NEW j \in Questions, Answered(box[j].task, "Closed") \in F
        PROVE  box[j] \in Asks(K, a, S)
    <2>1. box[j] \in K.messages["Status"]
      BY <1>1, ElementOfSeq
    <2>2. box[j] = GetAndRemovePacketStatus(box[j].task) /\ box[j].task \in K.tasks
      BY <2>1 DEF Wired
    <2> QED
      BY <1>2, <2>2, QuestionsAndAnswers DEF Answer
  <1>3. BagToSet(U) = {Answered(box[j].task, "Closed") : j \in Questions}
    BY DEF Unanswerable, BagToSet
  <1>4. \A e \in BagToSet(U) : U[e] = Cardinality({j \in Questions : box[j].task = e.task})
    BY DEF Unanswerable, BagToSet
  <1> SUFFICES ASSUME NEW e \in BagToSet(U), NEW f \in BagToSet(U), e \in F, f \in F
               PROVE  e = f /\ U[e] = 1
    BY DEF OnceInBag
  <1>5. PICK i \in Questions : e = Answered(box[i].task, "Closed")
    BY <1>3
  <1>6. PICK j \in Questions : f = Answered(box[j].task, "Closed")
    BY <1>3
  <1>7. i = j
    BY <1>2, <1>5, <1>6 DEF OnceIn
  <1>8. {k \in Questions : box[k].task = e.task} = {i}
    <2>1. e.task = box[i].task
      BY <1>5 DEF Answered
    <2>2. ASSUME NEW k \in Questions, box[k].task = e.task
          PROVE  k = i
      <3>1. Answered(box[k].task, "Closed") \in F
        BY <2>1, <2>2, <1>5
      <3> QED
        BY <1>2, <1>5, <3>1 DEF OnceIn
    <2> QED
      BY <2>1, <2>2
  <1>9. U[e] = 1
    <2>1. U[e] = Cardinality({i})
      BY <1>4, <1>8
    <2> QED
      BY <2>1, FS_Singleton
  <1> QED
    BY <1>5, <1>6, <1>7, <1>9

LEMMA HandleStopCarries ==
    ASSUME NEW K, NEW a, NEW S, SessionOK(K), Wired(K), Followed(K, a, S),
           NEW b \in Registered, HandleStop(b)
    PROVE  Carries(K, a, S)
  <1> DEFINE E == TasksFor(K, a, S)
             F == AnswersFor(K, a, S)
             Q == Asks(K, a, S)
             U == Unanswerable(mbox["Status"])
  <1>1. a \in Actor /\ a # "Status" /\ "Status" \in Actor /\ BoxesOK(K, mbox) /\ DOMAIN mbox = Actor
    BY ActorAssumption DEF SessionOK, Followed, BoxesOK
  <1>2. UNCHANGED <<resends, asking>>
    BY DEF HandleStop
  <1>3. BagKeeps(timers, timers', E)
    BY DEF HandleStop, BagKeeps, NoneInBag, OnceInBag, BagToSet
  <1>4. BoxKeeps(mbox, mbox', K, a, S)
    <2> DEFINE box == [mbox EXCEPT ![b] = <<>>]
    <2>1. BoxesOK(K, box) /\ BoxKeeps(mbox, box, K, a, S)
      BY <1>1, EmptiedTyped, EmptiedKeeps
    <2>2. mbox' = IF b = "Recv" THEN Post(box, "Stop", StopMessage) ELSE box
      BY DEF HandleStop
    <2> HIDE DEF box
    <2> QED
      BY <2>1, <2>2, PostStopKeeps, BoxKeepsOn
  <1>5. CASE b # "Status"
    <2>1. UNCHANGED answered
      BY <1>5 DEF HandleStop
    <2> QED
      BY <1>2, <1>3, <1>4, <2>1, BagKeepsItself, UndisturbedCarries DEF Undisturbed
  <1>6. CASE b = "Status"
    <2>1. answered' = answered (+) U
      BY <1>6 DEF HandleStop
    <2>2. mbox'["Status"] = <<>>
      BY <1>1, <1>6 DEF HandleStop
    <2>3. \A x : NoneIn(<<>>, x) /\ OnceIn(<<>>, x)
      BY DEF NoneIn, OnceIn
    <2>4. CASE NoneIn(mbox["Status"], Q)
      <3>1. NoneInBag(U, F)
        BY <2>4, UnanswerableNone
      <3>2. BagKeeps(answered, answered', F)
        BY <2>1, <3>1 DEF BagKeeps, NoneInBag, OnceInBag, BagToSet, (+)
      <3> QED
        BY <1>2, <1>3, <1>4, <3>2, BagKeepsItself, UndisturbedCarries DEF Undisturbed
    <2>5. CASE ~NoneIn(mbox["Status"], Q)
      <3>1. SUFFICES ASSUME AtMostOne(K, a, S) PROVE AtMostOne(K, a, S)'
        BY <2>5 DEF Carries, Absent, NoneButAt
      <3>2. NoneButAt("status", K, a, S) /\ OnceEverywhere(K, a, S)
        BY <2>5, <3>1 DEF AtMostOne, NoneButAt
      <3>3. OnceInBag(U, F)
        BY <3>2, UnanswerableOnce DEF OnceEverywhere
      <3>4. OnceInBag(answered', F)
        BY <2>1, <3>2, <3>3 DEF NoneButAt, NoneInBag, OnceInBag, BagToSet, (+)
      <3>5. NoneButAt("answered", K, a, S)'
        BY <1>2, <1>3, <1>4, <2>2, <2>3, <3>2 DEF NoneButAt, BoxKeeps, BagKeeps
      <3>6. OnceEverywhere(K, a, S)'
        BY <1>2, <1>3, <1>4, <3>2, <3>4 DEF OnceEverywhere, BoxKeeps, BagKeeps
      <3> QED
        BY <3>5, <3>6 DEF AtMostOne, Place
    <2> QED
      BY <2>4, <2>5
  <1> QED
    BY <1>5, <1>6

LEMMA BroadcastStopCarries ==
    ASSUME NEW K, NEW a, NEW S, SessionOK(K), Followed(K, a, S),
           BroadcastStop, UNCHANGED <<statusVars, wireVars>>
    PROVE  Carries(K, a, S)
  <1>1. a \in Actor /\ "Status" \in Actor /\ StopMessage \notin S /\ StopMessage \notin Asks(K, a, S)
    BY ActorAssumption DEF Followed, Asks, GetAndRemovePacketStatus, StopMessage
  <1>2. ASSUME NEW c \in Actor, NEW E, StopMessage \notin E
        PROVE  /\ NoneIn(mbox[c], E) => NoneIn(mbox'[c], E)
               /\ OnceIn(mbox[c], E) => OnceIn(mbox'[c], E)
    <2>1. mbox[c] \in Seq(K.messages[c])
      BY DEF SessionOK
    <2>2. mbox'[c] \in {<<>>, mbox[c], Append(mbox[c], StopMessage)}
      BY DEF BroadcastStop
    <2>3. NoneIn(<<>>, E) /\ OnceIn(<<>>, E)
      BY DEF NoneIn, OnceIn
    <2> QED
      BY <1>2, <2>1, <2>2, <2>3, NoneInAppend, OnceInAppend
  <1>3. BoxKeeps(mbox, mbox', K, a, S)
    BY <1>1, <1>2 DEF BoxKeeps
  <1>4. UNCHANGED <<resends, timers, asking, answered>>
    BY DEF BroadcastStop, statusVars
  <1> QED
    BY <1>3, <1>4, BagKeepsItself, UndisturbedCarries DEF Undisturbed

\* A step of the transport changes the mailboxes only.
LEMMA OnlyBoxes ==
    ASSUME NEW K, NEW a, NEW S, UNCHANGED resends, UNCHANGED statusVars,
           BoxKeeps(mbox, mbox', K, a, S)
    PROVE  Carries(K, a, S)
  <1>1. UNCHANGED <<resends, timers, asking, answered>>
    BY DEF statusVars
  <1> QED
    BY <1>1, BagKeepsItself, UndisturbedCarries DEF Undisturbed

LEMMA DispatchHandleCarries ==
    ASSUME NEW K, NEW a, NEW S, SessionOK(K), Wired(K), Followed(K, a, S),
           DispatchHandle, UNCHANGED statusVars
    PROVE  Carries(K, a, S)
  <1> DEFINE msg == Head(mbox["Dispatch"])
             box == Take("Dispatch")
             target == Target[msg.packet.type]
  <1>1. a \in Actor /\ "Dispatch" \in Actor /\ Handling("Dispatch", "Packet")
    BY ActorAssumption DEF Followed, DispatchHandle
  <1>2. /\ BoxesOK(K, box) /\ BoxKeeps(mbox, box, K, a, S)
        /\ msg \in K.messages["Dispatch"] /\ msg.type = "Packet"
    BY <1>1, TakeTyped, TakeKeeps
  <1>3. PacketMessage(msg.packet, 0) \notin S \cup Asks(K, a, S)
    BY <1>2 DEF Followed
  <1>4. \/ mbox' = Post(box, target, PacketMessage(msg.packet, 0))
        \/ HandleSendError(target, box)
    BY DEF DispatchHandle
  <1> HIDE DEF msg, box, target
  <1>5. BoxKeeps(box, mbox', K, a, S)
    BY <1>1, <1>2, <1>3, <1>4, PostKeeps, SendErrorKeeps
  <1>6. BoxKeeps(mbox, mbox', K, a, S)
    BY <1>2, <1>5, BoxKeepsOn
  <1> QED
    BY <1>6, OnlyBoxes DEF DispatchHandle

LEMMA TransportNextCarries ==
    ASSUME NEW K, NEW a, NEW S, SessionOK(K), Wired(K), Followed(K, a, S),
           TransportNext, UNCHANGED statusVars
    PROVE  Carries(K, a, S)
  <1>1. a \in Actor /\ a # "Dispatch" /\ BoxesOK(K, mbox)
    BY DEF Followed, SessionOK, BoxesOK
  <1>2. CASE SendHandle
    <2>1. BoxKeeps(mbox, mbox', K, a, S)
      BY <1>1, <1>2, ActorAssumption, TakeKeeps DEF SendHandle, Handling
    <2> QED
      BY <1>2, <2>1, OnlyBoxes DEF SendHandle
  <1>3. CASE RecvPacket
    <2>1. BoxKeeps(mbox, mbox', K, a, S)
      BY <1>1, <1>3, PostKeeps, BoxKeepsItself DEF RecvPacket
    <2> QED
      BY <1>3, <2>1, OnlyBoxes DEF RecvPacket
  <1>4. CASE DispatchHandle
    BY <1>4, DispatchHandleCarries
  <1>5. CASE RecvFails
    <2> DEFINE box == IF Accepts("Stop") THEN Post(mbox, "Stop", StopMessage) ELSE mbox
    <2>1. BoxesOK(K, box) /\ BoxKeeps(mbox, box, K, a, S)
      BY <1>1, PostStopTyped, PostStopKeeps, BoxKeepsItself
    <2>2. mbox' = [Post(box, "Stop", StopMessage) EXCEPT !["Recv"] = <<>>]
      BY <1>5 DEF RecvFails
    <2> HIDE DEF box
    <2> DEFINE told == Post(box, "Stop", StopMessage)
    <2>3. BoxesOK(K, told) /\ BoxKeeps(box, told, K, a, S)
      BY <2>1, PostStopTyped, PostStopKeeps
    <2> HIDE DEF told
    <2>4. BoxKeeps(told, [told EXCEPT !["Recv"] = <<>>], K, a, S)
      BY <1>1, <2>3, EmptiedKeeps
    <2>5. BoxKeeps(mbox, mbox', K, a, S)
      BY <2>1, <2>2, <2>3, <2>4, BoxKeepsOn DEF told
    <2> QED
      BY <1>5, <2>5, OnlyBoxes DEF RecvFails
  <1>6. CASE WriteError
    <2> DEFINE box == Post(mbox, "Stop", StopMessage)
    <2>1. BoxesOK(K, box) /\ BoxKeeps(mbox, box, K, a, S)
      BY <1>1, PostStopTyped, PostStopKeeps
    <2>2. mbox' = [box EXCEPT !["Send"] = <<>>]
      BY <1>6 DEF WriteError
    <2> HIDE DEF box
    <2>3. BoxKeeps(box, [box EXCEPT !["Send"] = <<>>], K, a, S)
      BY <1>1, <2>1, EmptiedKeeps
    <2>4. BoxKeeps(mbox, mbox', K, a, S)
      BY <2>1, <2>2, <2>3, BoxKeepsOn
    <2> QED
      BY <1>6, <2>4, OnlyBoxes DEF WriteError
  <1>7. CASE DispatchOrphaned
    BY <1>7, BoxKeepsItself, OnlyBoxes DEF DispatchOrphaned
  <1> QED
    BY <1>2, <1>3, <1>4, <1>5, <1>6, <1>7 DEF TransportNext, RecvError

\* Nothing in the background makes a second copy of a message of S.
LEMMA BackgroundCarries ==
    ASSUME NEW K, NEW a, NEW S, SessionOK(K), Wired(K), Followed(K, a, S), Background
    PROVE  Carries(K, a, S)
  <1>1. CASE Resend /\ UNCHANGED <<statusVars, wireVars>>
    BY <1>1, ResendCarries
  <1>2. CASE BroadcastStop /\ UNCHANGED <<statusVars, wireVars>>
    BY <1>2, BroadcastStopCarries
  <1>3. CASE TaskNext /\ UNCHANGED wireVars
    BY <1>3, TimerFiresCarries, AskStatusCarries, StatusCheckedCarries DEF TaskNext
  <1>4. CASE TransportNext /\ UNCHANGED statusVars
    BY <1>4, TransportNextCarries
  <1>5. CASE StopHandle
    BY <1>5, HandleStopCarries DEF StopHandle
  <1> QED
    BY <1>1, <1>2, <1>3, <1>4, <1>5 DEF Background

-----------------------------------------------------------------------------
(* What the handlers of other actors do to the messages of S. *)

LEMMA SendErrorWithResendKeeps ==
    ASSUME NEW K, NEW a, NEW S, SessionOK(K), Followed(K, a, S), NEW box, BoxesOK(K, box),
           NEW target, NEW b, NEW msg, [to |-> b, msg |-> msg] \notin ResendsFor(K, a, S),
           HandleSendErrorWithResend(target, box, b, msg)
    PROVE  /\ BoxKeeps(box, mbox', K, a, S)
           /\ BagKeeps(resends, resends', ResendsFor(K, a, S))
  <1>1. CASE Closed(target)
    <2>1. mbox' = Post(box, "Stop", StopMessage) /\ UNCHANGED resends
      BY <1>1 DEF HandleSendErrorWithResend, Closed, Full
    <2> QED
      BY <2>1, PostStopKeeps, BagKeepsItself
  <1>2. CASE Full(target)
    <2>1. mbox' = box /\ resends' = BagAdd(resends, [to |-> b, msg |-> msg])
      BY <1>2 DEF HandleSendErrorWithResend, Closed, Full
    <2> QED
      BY <2>1, BoxKeepsItself, BagAddKeeps
  <1> QED
    BY <1>1, <1>2 DEF HandleSendErrorWithResend

\* What is asked is about to be handled by the actor that asks.
LEMMA NotAsked ==
    ASSUME NEW K, NEW a, NEW S, NEW op, op.op \in {"Set", "Remove"}
    PROVE  op \notin Asks(K, a, S)
  BY DEF Asks, GetAndRemovePacketStatus

LEMMA GiveUpKeeps ==
    ASSUME NEW K, NEW a, NEW S, SessionOK(K), Followed(K, a, S), NEW box, BoxesOK(K, box),
           NEW id, GiveUp(box, id)
    PROVE  BoxKeeps(box, mbox', K, a, S)
  <1>1. RemovePacketStatus(id) \notin Asks(K, a, S)
    BY NotAsked DEF RemovePacketStatus
  <1>2. a \in Actor /\ a # "Status"
    BY DEF Followed
  <1> QED
    BY <1>1, <1>2, PostKeeps, PostStopKeeps DEF GiveUp

LEMMA SetSendScheduleKeeps ==
    ASSUME NEW K, NEW a, NEW S, SessionOK(K), Wired(K), Followed(K, a, S),
           NEW box, BoxesOK(K, box),
           NEW b, NEW op, NEW packet, NEW check, NEW retry,
           op \in K.messages["Status"], op.op \in {"Set", "Remove"},
           [to |-> b, msg |-> retry] \notin ResendsFor(K, a, S),
           check \notin TasksFor(K, a, S),
           SetSendSchedule(box, b, op, packet, check, retry)
    PROVE  /\ BoxKeeps(box, mbox', K, a, S)
           /\ BagKeeps(resends, resends', ResendsFor(K, a, S))
           /\ BagKeeps(timers, timers', TasksFor(K, a, S))
  <1> DEFINE set == Post(box, "Status", op)
  <1>1. a \in Actor /\ a \notin {"Status", "Send"}
    BY DEF Followed
  <1>2. op \notin Asks(K, a, S)
    BY NotAsked
  <1>3. BoxesOK(K, set) /\ BoxKeeps(box, set, K, a, S)
    BY <1>1, <1>2, PostTyped, PostKeeps
  <1>4. CASE ~Accepts("Status")
    <2>1. HandleSendErrorWithResend("Status", box, b, retry) /\ UNCHANGED timers
      BY <1>4 DEF SetSendSchedule
    <2> QED
      BY <2>1, SendErrorWithResendKeeps, BagKeepsItself
  <1>5. CASE Accepts("Status") /\ ~Accepts("Send")
    <2>1. HandleSendErrorWithResend("Send", set, b, retry) /\ UNCHANGED timers
      BY <1>5 DEF SetSendSchedule
    <2> HIDE DEF set
    <2> QED
      BY <1>3, <2>1, SendErrorWithResendKeeps, BoxKeepsOn, BagKeepsItself
  <1>6. CASE Accepts("Status") /\ Accepts("Send")
    <2>1. /\ mbox' = Post(set, "Send", VariablePacketMessage(packet))
          /\ timers' = BagAdd(timers, check)
          /\ UNCHANGED resends
      BY <1>6 DEF SetSendSchedule
    <2> HIDE DEF set
    <2>2. BoxKeeps(set, mbox', K, a, S)
      BY <1>1, <1>3, <2>1, PostKeeps
    <2> QED
      BY <1>3, <2>1, <2>2, BoxKeepsOn, BagAddKeeps, BagKeepsItself
  <1> QED
    BY <1>4, <1>5, <1>6

LEMMA ResponseHandleCarries ==
    ASSUME NEW K, NEW a, NEW S, SessionOK(K), Wired(K), Followed(K, a, S),
           NEW b \in Actor \ {a}, NEW type, ResponseHandle(b, type)
    PROVE  Carries(K, a, S)
  <1> DEFINE msg == Head(mbox[b])
             remove == RemovePacketStatus(msg.packet.id)
             box == Take(b)
  <1>1. a \in Actor /\ a # "Status" /\ BoxesOK(K, box) /\ BoxKeeps(mbox, box, K, a, S)
    BY TakeTyped, TakeKeeps DEF ResponseHandle, Followed
  <1>2. remove \notin Asks(K, a, S) /\ [to |-> b, msg |-> msg] \notin ResendsFor(K, a, S)
    BY NotAsked DEF RemovePacketStatus, ResendsFor
  <1>3. \/ mbox' = Post(box, "Status", remove) /\ UNCHANGED resends
        \/ HandleSendErrorWithResend("Status", box, b, msg)
    BY DEF ResponseHandle
  <1> HIDE DEF msg, remove, box
  <1>4. BoxKeeps(box, mbox', K, a, S) /\ BagKeeps(resends, resends', ResendsFor(K, a, S))
    BY <1>1, <1>2, <1>3, PostKeeps, SendErrorWithResendKeeps, BagKeepsItself
  <1>5. BoxKeeps(mbox, mbox', K, a, S)
    BY <1>1, <1>4, BoxKeepsOn
  <1>6. UNCHANGED <<timers, asking, answered>>
    BY DEF ResponseHandle, statusVars
  <1> QED
    BY <1>4, <1>5, <1>6, BagKeepsItself, UndisturbedCarries DEF Undisturbed

LEMMA SendPacketHandleCarries ==
    ASSUME NEW K, NEW a, NEW S, SessionOK(K), Wired(K), Followed(K, a, S),
           NEW b \in Actor \ {a}, NEW type, Handling(b, type),
           NEW msg, NEW op, NEW packet, NEW expect,
           op \in K.messages["Status"], op.op \in {"Set", "Remove"},
           SendPacketHandle(b, msg, op, packet, expect)
    PROVE  Carries(K, a, S)
  <1> DEFINE box == Take(b)
             check == StatusCheck(b, b, packet.id, Retried(msg), expect)
  <1>1. BoxesOK(K, box) /\ BoxKeeps(mbox, box, K, a, S)
    BY TakeTyped, TakeKeeps DEF Handling, Followed
  <1>2. /\ [to |-> b, msg |-> Retried(msg)] \notin ResendsFor(K, a, S)
        /\ check \notin TasksFor(K, a, S)
    BY DEF ResendsFor, TasksFor, StatusCheck
  <1>3. \/ GiveUp(box, packet.id)
        \/ SetSendSchedule(box, b, op, packet, check, Retried(msg))
    BY DEF SendPacketHandle
  <1> HIDE DEF box, check
  <1>4. /\ BoxKeeps(box, mbox', K, a, S)
        /\ BagKeeps(resends, resends', ResendsFor(K, a, S))
        /\ BagKeeps(timers, timers', TasksFor(K, a, S))
    <2>1. CASE GiveUp(box, packet.id)
      BY <1>1, <2>1, GiveUpKeeps, BagKeepsItself DEF GiveUp
    <2>2. CASE SetSendSchedule(box, b, op, packet, check, Retried(msg))
      BY <1>1, <1>2, <2>2, SetSendScheduleKeeps
    <2> QED
      BY <1>3, <2>1, <2>2
  <1>5. BoxKeeps(mbox, mbox', K, a, S)
    BY <1>1, <1>4, BoxKeepsOn
  <1>6. UNCHANGED <<asking, answered>>
    BY DEF SendPacketHandle
  <1> QED
    BY <1>4, <1>5, <1>6, BagKeepsItself, UndisturbedCarries DEF Undisturbed

-----------------------------------------------------------------------------
(* What the handler of a itself does: it takes a message of S, and nothing *)
(* of S is left until it lets one be handled again.                        *)

AbsentWith(box, K, a, S) ==
    /\ NoneIn(box[a], S)
    /\ NoneIn(box["Status"], Asks(K, a, S))
    /\ NoneInBag(resends, ResendsFor(K, a, S))
    /\ NoneInBag(timers, TasksFor(K, a, S))
    /\ NoneInBag(asking, TasksFor(K, a, S))
    /\ NoneInBag(answered, AnswersFor(K, a, S))

LEMMA AbsentIsAtMostOne ==
    ASSUME NEW K, NEW a, NEW S
    PROVE  /\ Absent(K, a, S) => AtMostOne(K, a, S)
           /\ Absent(K, a, S)' => AtMostOne(K, a, S)'
  <1> USE DEF Absent, AtMostOne, NoneButAt, OnceEverywhere, NoneIn, OnceIn,
              NoneInBag, OnceInBag, Place
  <1>1. Absent(K, a, S) => AtMostOne(K, a, S)
    OBVIOUS
  <1>2. Absent(K, a, S)' => AtMostOne(K, a, S)'
    OBVIOUS
  <1> QED
    BY <1>1, <1>2

LEMMA AbsentFromPart ==
    ASSUME NEW K, NEW a, NEW S, NEW T, T \subseteq S
    PROVE  /\ Absent(K, a, S) => Absent(K, a, T)
           /\ Absent(K, a, S)' => Absent(K, a, T)'
           /\ \A box : AbsentWith(box, K, a, S) => AbsentWith(box, K, a, T)
           /\ Followed(K, a, S) => Followed(K, a, T)
  <1>1. /\ TasksFor(K, a, T) \subseteq TasksFor(K, a, S)
        /\ ResendsFor(K, a, T) \subseteq ResendsFor(K, a, S)
    BY DEF TasksFor, ResendsFor
  <1>2. /\ Asks(K, a, T) \subseteq Asks(K, a, S)
        /\ AnswersFor(K, a, T) \subseteq AnswersFor(K, a, S)
    BY <1>1 DEF Asks, AnswersFor
  <1>3. \A s, D, E : D \subseteq E => /\ NoneIn(s, E) => NoneIn(s, D)
                                      /\ NoneInBag(s, E) => NoneInBag(s, D)
    BY DEF NoneIn, NoneInBag
  <1>4. Absent(K, a, S) => Absent(K, a, T)
    BY <1>1, <1>2, <1>3 DEF Absent, NoneButAt
  <1>5. Absent(K, a, S)' => Absent(K, a, T)'
    BY <1>1, <1>2, <1>3 DEF Absent, NoneButAt
  <1>6. \A box : AbsentWith(box, K, a, S) => AbsentWith(box, K, a, T)
    BY <1>1, <1>2, <1>3 DEF AbsentWith
  <1>7. Followed(K, a, S) => Followed(K, a, T)
    BY <1>2 DEF Followed
  <1> QED
    BY <1>4, <1>5, <1>6, <1>7

LEMMA TakenOnce ==
    ASSUME NEW K, NEW a \in Actor \ {"Status"}, NEW S, SessionOK(K), AtMostOne(K, a, S),
           mbox[a] # <<>>, Head(mbox[a]) \in S
    PROVE  AbsentWith(Take(a), K, a, S)
  <1>1. mbox[a] \in Seq(K.messages[a]) /\ "Status" \in Actor /\ DOMAIN mbox = Actor
    BY ActorAssumption DEF SessionOK
  <1>2. ~NoneIn(mbox[a], S)
    <2>1. 1 \in DOMAIN mbox[a] /\ Head(mbox[a]) = mbox[a][1]
      BY <1>1
    <2> QED
      BY <2>1 DEF NoneIn
  <1>3. NoneButAt("mailbox", K, a, S) /\ OnceIn(mbox[a], S)
    BY <1>2 DEF AtMostOne, NoneButAt, OnceEverywhere
  <1>4. NoneIn(Tail(mbox[a]), S)
    BY <1>1, <1>3, InTail
  <1>5. Take(a)[a] = Tail(mbox[a]) /\ Take(a)["Status"] = mbox["Status"]
    BY <1>1 DEF Take
  <1> QED
    BY <1>3, <1>4, <1>5 DEF AbsentWith, NoneButAt

LEMMA AbsentAfter ==
    ASSUME NEW K, NEW a, NEW S, NEW box, AbsentWith(box, K, a, S),
           BoxKeeps(box, mbox', K, a, S),
           BagKeeps(resends, resends', ResendsFor(K, a, S)),
           BagKeeps(timers, timers', TasksFor(K, a, S)),
           UNCHANGED <<asking, answered>>
    PROVE  Absent(K, a, S)'
  BY DEF AbsentWith, Absent, NoneButAt, BoxKeeps, BagKeeps

\* A full mailbox: the message is handled again after RESEND_DELAY.
LEMMA SendErrorWithResendMoves ==
    ASSUME NEW K, NEW a, NEW S, SessionOK(K), Followed(K, a, S), NEW box, BoxesOK(K, box),
           AbsentWith(box, K, a, S), NEW target, NEW retry,
           HandleSendErrorWithResend(target, box, a, retry),
           UNCHANGED <<timers, asking, answered>>
    PROVE  AtMostOne(K, a, S)'
  <1>1. CASE Closed(target)
    <2>1. mbox' = Post(box, "Stop", StopMessage) /\ UNCHANGED resends
      BY <1>1 DEF HandleSendErrorWithResend, Closed, Full
    <2> QED
      BY <2>1, PostStopKeeps, BagKeepsItself, AbsentAfter, AbsentIsAtMostOne
  <1>2. CASE Full(target)
    <2>1. mbox' = box /\ resends' = BagAdd(resends, [to |-> a, msg |-> retry])
      BY <1>2 DEF HandleSendErrorWithResend, Closed, Full
    <2>2. OnceInBag(resends', ResendsFor(K, a, S))
      BY <2>1, NoneInBagAdd DEF AbsentWith
    <2>3. NoneButAt("resends", K, a, S)'
      BY <2>1 DEF AbsentWith, NoneButAt
    <2>4. OnceEverywhere(K, a, S)'
      BY <2>1, <2>2 DEF AbsentWith, OnceEverywhere, NoneIn, OnceIn, NoneInBag, OnceInBag
    <2> QED
      BY <2>3, <2>4 DEF AtMostOne, Place
  <1> QED
    BY <1>1, <1>2 DEF HandleSendErrorWithResend

\* The three steps of an attempt, of which the first that fails is the last.
LEMMA SetSendScheduleMoves ==
    ASSUME NEW K, NEW a, NEW S, SessionOK(K), Wired(K), Followed(K, a, S),
           NEW box, BoxesOK(K, box), AbsentWith(box, K, a, S),
           NEW op, NEW packet, NEW check, NEW retry,
           op \in K.messages["Status"], op.op \in {"Set", "Remove"}, check.msg = retry,
           SetSendSchedule(box, a, op, packet, check, retry),
           UNCHANGED <<asking, answered>>
    PROVE  AtMostOne(K, a, S)' /\ Absent(K, a, S \ {retry})'
  <1> DEFINE T == S \ {retry}
             set == Post(box, "Status", op)
  <1>1. Absent(K, a, T)'
    <2>1. Followed(K, a, T) /\ AbsentWith(box, K, a, T)
      BY AbsentFromPart
    <2>2. [to |-> a, msg |-> retry] \notin ResendsFor(K, a, T) /\ check \notin TasksFor(K, a, T)
      BY DEF ResendsFor, TasksFor
    <2> HIDE DEF T
    <2>3. /\ BoxKeeps(box, mbox', K, a, T)
          /\ BagKeeps(resends, resends', ResendsFor(K, a, T))
          /\ BagKeeps(timers, timers', TasksFor(K, a, T))
      BY <2>1, <2>2, SetSendScheduleKeeps
    <2> QED
      BY <2>1, <2>3, AbsentAfter
  <1>2. a \in Actor /\ a \notin {"Status", "Send"} /\ op \notin Asks(K, a, S)
    BY NotAsked DEF Followed
  <1>3. BoxesOK(K, set) /\ BoxKeeps(box, set, K, a, S)
    BY <1>2, PostTyped, PostKeeps
  <1>4. AbsentWith(set, K, a, S)
    BY <1>3 DEF AbsentWith, BoxKeeps
  <1>5. AtMostOne(K, a, S)'
    <2>1. CASE ~Accepts("Status")
      <3>1. HandleSendErrorWithResend("Status", box, a, retry) /\ UNCHANGED timers
        BY <2>1 DEF SetSendSchedule
      <3> QED
        BY <3>1, SendErrorWithResendMoves
    <2>2. CASE Accepts("Status") /\ ~Accepts("Send")
      <3>1. HandleSendErrorWithResend("Send", set, a, retry) /\ UNCHANGED timers
        BY <2>2 DEF SetSendSchedule
      <3> HIDE DEF set
      <3> QED
        BY <3>1, <1>3, <1>4, SendErrorWithResendMoves
    <2>3. CASE Accepts("Status") /\ Accepts("Send")
      <3>1. /\ mbox' = Post(set, "Send", VariablePacketMessage(packet))
            /\ timers' = BagAdd(timers, check)
            /\ UNCHANGED resends
        BY <2>3 DEF SetSendSchedule
      <3> HIDE DEF set
      <3>2. BoxKeeps(set, mbox', K, a, S)
        BY <1>2, <1>3, <3>1, PostKeeps
      <3>3. OnceInBag(timers', TasksFor(K, a, S))
        BY <3>1, NoneInBagAdd DEF AbsentWith
      <3>4. NoneButAt("timers", K, a, S)'
        BY <1>4, <3>1, <3>2 DEF AbsentWith, NoneButAt, BoxKeeps
      <3>5. OnceEverywhere(K, a, S)'
        <4>1. NoneIn(mbox'[a], S) /\ NoneIn(mbox'["Status"], Asks(K, a, S))
          BY <1>4, <3>2 DEF AbsentWith, BoxKeeps
        <4>2. OnceIn(mbox'[a], S) /\ OnceIn(mbox'["Status"], Asks(K, a, S))
          BY <4>1 DEF NoneIn, OnceIn
        <4> QED
          BY <4>2, <3>1, <3>3 DEF AbsentWith, OnceEverywhere, NoneInBag, OnceInBag
      <3> QED
        BY <3>4, <3>5 DEF AtMostOne, Place
    <2> QED
      BY <2>1, <2>2, <2>3
  <1> QED
    BY <1>1, <1>5

\* The first message of S.
LEMMA PostFirst ==
    ASSUME NEW K, NEW a, NEW S, SessionOK(K), Followed(K, a, S), Absent(K, a, S), NEW msg,
           mbox' = Post(mbox, a, msg), UNCHANGED <<resends, timers, asking, answered>>
    PROVE  AtMostOne(K, a, S)' /\ Absent(K, a, S \ {msg})'
  <1>1. a \in Actor /\ a # "Status" /\ BoxesOK(K, mbox)
    BY DEF Followed, SessionOK, BoxesOK
  <1>2. Absent(K, a, S \ {msg})'
    <2> DEFINE T == S \ {msg}
    <2>1. Absent(K, a, T) /\ msg \notin T
      BY AbsentFromPart
    <2> HIDE DEF T
    <2>2. BoxKeeps(mbox, mbox', K, a, T)
      BY <1>1, <2>1, PostKeeps
    <2>3. Carries(K, a, T)
      BY <2>2, BagKeepsItself, UndisturbedCarries DEF Undisturbed
    <2> QED
      BY <2>1, <2>3 DEF Carries, T
  <1>3. mbox[a] \in Seq(K.messages[a]) /\ NoneIn(mbox[a], S) /\ DOMAIN mbox = Actor
    BY <1>1 DEF SessionOK, Absent, NoneButAt
  <1>4. OnceIn(mbox'[a], S) /\ mbox'["Status"] = mbox["Status"]
    <2>1. mbox'[a] = mbox[a] \/ mbox'[a] = Append(mbox[a], msg)
      BY <1>1, <1>3 DEF Post
    <2>2. mbox'["Status"] = mbox["Status"]
      BY <1>1, <1>3 DEF Post
    <2>3. OnceIn(mbox[a], S)
      BY <1>3 DEF NoneIn, OnceIn
    <2> QED
      BY <1>3, <2>1, <2>2, <2>3, NoneInAppend
  <1>5. NoneButAt("mailbox", K, a, S)'
    BY <1>4 DEF Absent, NoneButAt
  <1>6. OnceEverywhere(K, a, S)'
    BY <1>4 DEF Absent, NoneButAt, OnceEverywhere, NoneIn, OnceIn, NoneInBag, OnceInBag
  <1> QED
    BY <1>2, <1>5, <1>6 DEF AtMostOne, Place

-----------------------------------------------------------------------------
(* The mailbox of an actor c after a step: without messages from its front, *)
(* and with new ones, none of them in X, at its end.                        *)

Grown(s, t, X) ==
    \E d \in Nat : /\ Len(s) <= Len(t) + d
                   /\ \A i \in DOMAIN t : IF i + d <= Len(s) THEN t[i] = s[i + d] ELSE t[i] \notin X

\* Nothing of F is ahead of an element of E.
FirstOf(s, E, F) == \A j, k \in DOMAIN s : s[j] \in F /\ s[k] \in E => ~(j < k)

LEMMA GrownItself ==
    ASSUME NEW M, NEW s \in Seq(M), NEW X
    PROVE  Grown(s, s, X)
  <1>1. Len(s) \in Nat /\ DOMAIN s = 1 .. Len(s)
    BY LenProperties
  <1>2. Len(s) <= Len(s) + 0 /\ \A i \in DOMAIN s : IF i + 0 <= Len(s) THEN s[i] = s[i + 0] ELSE s[i] \notin X
    BY <1>1
  <1> QED
    BY <1>2 DEF Grown

LEMMA GrownAppend ==
    ASSUME NEW M, NEW s \in Seq(M), NEW X, NEW x, x \notin X
    PROVE  Grown(s, Append(s, x), X)
  <1> DEFINE t == Append(s, x)
  <1>1. /\ Len(s) \in Nat /\ Len(t) = Len(s) + 1 /\ DOMAIN t = 1 .. Len(s) + 1
        /\ \A i \in 1 .. Len(s) : t[i] = s[i]
        /\ t[Len(s) + 1] = x
    BY AppendProperties, LenProperties
  <1> HIDE DEF t
  <1>2. Len(s) <= Len(t) + 0 /\ \A i \in DOMAIN t : IF i + 0 <= Len(s) THEN t[i] = s[i + 0] ELSE t[i] \notin X
    BY <1>1
  <1> QED
    BY <1>2 DEF Grown, t

LEMMA GrownTail ==
    ASSUME NEW M, NEW s \in Seq(M), s # <<>>, NEW X
    PROVE  Grown(s, Tail(s), X)
  <1> DEFINE t == Tail(s)
  <1>1. /\ Len(s) \in Nat /\ Len(s) # 0 /\ Len(t) = Len(s) - 1 /\ DOMAIN t = 1 .. Len(s) - 1
        /\ \A i \in 1 .. Len(s) - 1 : t[i] = s[i + 1]
    BY HeadTailProperties, LenProperties, EmptySeq
  <1> HIDE DEF t
  <1>2. Len(s) <= Len(t) + 1 /\ \A i \in DOMAIN t : IF i + 1 <= Len(s) THEN t[i] = s[i + 1] ELSE t[i] \notin X
    BY <1>1
  <1> QED
    BY <1>2 DEF Grown, t

LEMMA GrownEmpty ==
    ASSUME NEW M, NEW s \in Seq(M), NEW X
    PROVE  Grown(s, <<>>, X)
  <1>1. Len(s) \in Nat
    BY LenProperties
  <1> DEFINE n == Len(s)
  <1>2. n \in Nat /\ Len(s) <= Len(<<>>) + n /\ DOMAIN <<>> = {}
    BY <1>1
  <1> QED
    BY <1>2 DEF Grown

LEMMA GrownOn ==
    ASSUME NEW M, NEW s \in Seq(M), NEW t \in Seq(M), NEW u \in Seq(M), NEW X,
           Grown(s, t, X), Grown(t, u, X)
    PROVE  Grown(s, u, X)
  <1>1. /\ Len(s) \in Nat /\ Len(t) \in Nat /\ Len(u) \in Nat
        /\ DOMAIN s = 1 .. Len(s) /\ DOMAIN t = 1 .. Len(t) /\ DOMAIN u = 1 .. Len(u)
    BY LenProperties
  <1>2. PICK d \in Nat :
            /\ Len(s) <= Len(t) + d
            /\ \A i \in DOMAIN t : IF i + d <= Len(s) THEN t[i] = s[i + d] ELSE t[i] \notin X
    BY DEF Grown
  <1>3. PICK e \in Nat :
            /\ Len(t) <= Len(u) + e
            /\ \A i \in DOMAIN u : IF i + e <= Len(t) THEN u[i] = t[i + e] ELSE u[i] \notin X
    BY DEF Grown
  <1>4. Len(s) <= Len(u) + (d + e)
    BY <1>1, <1>2, <1>3
  <1>5. ASSUME NEW i \in DOMAIN u
        PROVE  IF i + (d + e) <= Len(s) THEN u[i] = s[i + (d + e)] ELSE u[i] \notin X
    <2>1. CASE i + e <= Len(t)
      <3>1. i + e \in DOMAIN t /\ u[i] = t[i + e]
        BY <1>1, <1>3, <2>1
      <3>2. IF (i + e) + d <= Len(s) THEN t[i + e] = s[(i + e) + d] ELSE t[i + e] \notin X
        BY <1>2, <3>1
      <3>3. (i + e) + d = i + (d + e)
        BY <1>1
      <3> QED
        BY <3>1, <3>2, <3>3
    <2>2. CASE ~(i + e <= Len(t))
      BY <1>1, <1>2, <1>3, <2>2
    <2> QED
      BY <2>1, <2>2
  <1>6. d + e \in Nat
    OBVIOUS
  <1> QED
    BY <1>4, <1>5, <1>6 DEF Grown

\* What stays out stays out, and what is first stays first.
LEMMA GrownKeeps ==
    ASSUME NEW M, NEW s \in Seq(M), NEW t \in Seq(M), NEW X, Grown(s, t, X), NEW F
    PROVE  /\ NoneIn(s, X) => NoneIn(t, X)
           /\ FirstOf(s, X, F) => FirstOf(t, X, F)
  <1>1. /\ Len(s) \in Nat /\ Len(t) \in Nat
        /\ DOMAIN s = 1 .. Len(s) /\ DOMAIN t = 1 .. Len(t)
    BY LenProperties
  <1>2. PICK d \in Nat :
            /\ Len(s) <= Len(t) + d
            /\ \A i \in DOMAIN t : IF i + d <= Len(s) THEN t[i] = s[i + d] ELSE t[i] \notin X
    BY DEF Grown
  <1>3. NoneIn(s, X) => NoneIn(t, X)
    BY <1>1, <1>2 DEF NoneIn
  <1>4. ASSUME FirstOf(s, X, F), NEW j \in DOMAIN t, NEW k \in DOMAIN t, t[j] \in F, t[k] \in X, j < k
        PROVE  FALSE
    <2>1. k + d <= Len(s) /\ t[k] = s[k + d]
      BY <1>2, <1>4
    <2>2. j + d <= Len(s) /\ t[j] = s[j + d]
      BY <1>1, <1>2, <1>4, <2>1
    <2>3. j + d \in DOMAIN s /\ k + d \in DOMAIN s /\ j + d < k + d
      BY <1>1, <1>4, <2>1, <2>2
    <2> QED
      BY <1>4, <2>1, <2>2, <2>3 DEF FirstOf
  <1> QED
    BY <1>3, <1>4 DEF FirstOf

LEMMA FirstAppended ==
    ASSUME NEW M, NEW s \in Seq(M), NEW x, NEW E, NEW F, NoneIn(s, F), E \subseteq F
    PROVE  FirstOf(Append(s, x), E, F)
  <1>1. DOMAIN Append(s, x) = 1 .. Len(s) + 1 /\ DOMAIN s = 1 .. Len(s) /\ Len(s) \in Nat
    BY AppendProperties, LenProperties
  <1>2. \A i \in 1 .. Len(s) : Append(s, x)[i] = s[i]
    BY AppendProperties
  <1> QED
    BY <1>1, <1>2 DEF NoneIn, FirstOf

LEMMA FirstTaken ==
    ASSUME NEW M, NEW s \in Seq(M), s # <<>>, NEW E, NEW F, FirstOf(s, E, F), Head(s) \in F
    PROVE  NoneIn(Tail(s), E)
  <1>1. /\ DOMAIN s = 1 .. Len(s) /\ Len(s) \in Nat /\ Len(s) # 0 /\ Head(s) = s[1]
        /\ DOMAIN Tail(s) = 1 .. Len(s) - 1
        /\ \A i \in 1 .. Len(s) - 1 : Tail(s)[i] = s[i + 1]
    BY HeadTailProperties, LenProperties, EmptySeq
  <1> QED
    BY <1>1 DEF NoneIn, FirstOf

LEMMA PostGrown ==
    ASSUME NEW K, SessionOK(K), NEW box, BoxesOK(K, box), NEW c \in Actor, NEW X,
           NEW b, NEW m, b = c => m \notin X
    PROVE  Grown(box[c], Post(box, b, m)[c], X)
  <1>1. box[c] \in Seq(K.messages[c]) /\ DOMAIN box = Actor
    BY DEF BoxesOK
  <1>2. CASE b \in alive /\ b = c
    <2>1. Post(box, b, m)[c] = Append(box[c], m)
      BY <1>1, <1>2 DEF Post
    <2> QED
      BY <1>1, <1>2, <2>1, GrownAppend
  <1>3. CASE ~(b \in alive /\ b = c)
    <2>1. Post(box, b, m)[c] = box[c]
      BY <1>1, <1>3 DEF Post
    <2> QED
      BY <1>1, <2>1, GrownItself
  <1> QED
    BY <1>2, <1>3

LEMMA TakeGrows ==
    ASSUME NEW K, SessionOK(K), NEW c \in Actor, NEW X, NEW b, mbox[b] # <<>>
    PROVE  Grown(mbox[c], Take(b)[c], X)
  <1>1. mbox[c] \in Seq(K.messages[c]) /\ DOMAIN mbox = Actor
    BY DEF SessionOK
  <1>2. Take(b)[c] = IF b = c THEN Tail(mbox[c]) ELSE mbox[c]
    BY <1>1 DEF Take
  <1> QED
    BY <1>1, <1>2, GrownTail, GrownItself

LEMMA EmptiedGrows ==
    ASSUME NEW K, NEW box, BoxesOK(K, box), NEW c \in Actor, NEW X, NEW b
    PROVE  Grown(box[c], [box EXCEPT ![b] = <<>>][c], X)
  <1>1. box[c] \in Seq(K.messages[c]) /\ DOMAIN box = Actor
    BY DEF BoxesOK
  <1>2. [box EXCEPT ![b] = <<>>][c] = IF b = c THEN <<>> ELSE box[c]
    BY <1>1
  <1> QED
    BY <1>1, <1>2, GrownEmpty, GrownItself

LEMMA BoxGrowsOn ==
    ASSUME NEW K, NEW c \in Actor, NEW X, NEW box, NEW box2, NEW box3,
           BoxesOK(K, box), BoxesOK(K, box2), BoxesOK(K, box3),
           Grown(box[c], box2[c], X), Grown(box2[c], box3[c], X)
    PROVE  Grown(box[c], box3[c], X)
  <1>1. /\ box[c] \in Seq(K.messages[c])
        /\ box2[c] \in Seq(K.messages[c])
        /\ box3[c] \in Seq(K.messages[c])
    BY DEF BoxesOK
  <1> QED
    BY <1>1, GrownOn

LEMMA SendErrorGrows ==
    ASSUME NEW K, SessionOK(K), NEW box, BoxesOK(K, box), NEW c \in Actor, NEW X,
           StopMessage \notin X, NEW target,
           \/ HandleSendError(target, box)
           \/ \E a, msg : HandleSendErrorWithResend(target, box, a, msg)
    PROVE  Grown(box[c], mbox'[c], X)
  <1>1. mbox' = Post(box, "Stop", StopMessage) \/ mbox' = box
    BY DEF HandleSendError, HandleSendErrorWithResend
  <1>2. box[c] \in Seq(K.messages[c])
    BY DEF BoxesOK
  <1> QED
    BY <1>1, <1>2, PostGrown, GrownItself

\* What may arrive in the mailbox of c is what a step in the background has for it.
NothingFor(K, c, X) ==
    /\ StopMessage \notin X
    /\ \A r \in BagToSet(resends) : r.to = c => r.msg \notin X
    /\ \A r \in BagToSet(answered) :
           r.task.actor = c /\ r.answer \in r.task.expect => r.task.msg \notin X
    /\ c = "Status" => \A t \in BagToSet(asking) : GetAndRemovePacketStatus(t) \notin X
    /\ c = "Dispatch" => \A packet \in K.server : VariablePacketMessage(packet) \notin X
    /\ \A msg \in K.messages["Dispatch"] :
           msg.type = "Packet" /\ Target[msg.packet.type] = c => PacketMessage(msg.packet, 0) \notin X

LEMMA TaskGrows ==
    ASSUME NEW K, SessionOK(K), NEW c \in Actor, NEW X, NothingFor(K, c, X), TaskNext
    PROVE  Grown(mbox[c], mbox'[c], X)
  <1>1. BoxesOK(K, mbox) /\ mbox[c] \in Seq(K.messages[c])
    BY DEF SessionOK, BoxesOK
  <1>2. CASE TimerFires
    BY <1>1, <1>2, GrownItself DEF TimerFires, actorVars
  <1>3. CASE AskStatus
    <2>1. PICK t \in BagToSet(asking) :
              \/ mbox' = Post(mbox, "Status", GetAndRemovePacketStatus(t))
              \/ mbox' = mbox
      BY <1>3 DEF AskStatus
    <2> QED
      BY <1>1, <2>1, PostGrown, GrownItself DEF NothingFor
  <1>4. CASE StatusChecked
    <2>1. PICK r \in BagToSet(answered) :
              \/ r.answer \in r.task.expect /\ mbox' = Post(mbox, r.task.actor, r.task.msg)
              \/ mbox' = Post(mbox, "Stop", StopMessage)
              \/ mbox' = mbox
      BY <1>4 DEF StatusChecked
    <2>2. CASE r.answer \in r.task.expect /\ mbox' = Post(mbox, r.task.actor, r.task.msg)
      BY <1>1, <2>2, PostGrown DEF NothingFor
    <2> QED
      BY <1>1, <2>1, <2>2, PostGrown, GrownItself DEF NothingFor
  <1> QED
    BY <1>2, <1>3, <1>4 DEF TaskNext

LEMMA DispatchGrows ==
    ASSUME NEW K, SessionOK(K), Wired(K), NEW c \in Actor, NEW X, NothingFor(K, c, X),
           DispatchHandle
    PROVE  Grown(mbox[c], mbox'[c], X)
  <1> DEFINE msg == Head(mbox["Dispatch"])
             box == Take("Dispatch")
             target == Target[msg.packet.type]
  <1>1. "Dispatch" \in Actor /\ Handling("Dispatch", "Packet")
    BY ActorAssumption DEF DispatchHandle
  <1>2. /\ BoxesOK(K, box) /\ Grown(mbox[c], box[c], X) /\ BoxesOK(K, mbox)
        /\ msg \in K.messages["Dispatch"] /\ msg.type = "Packet"
    BY <1>1, TakeTyped, TakeGrows DEF SessionOK, BoxesOK
  <1>3. target = c => PacketMessage(msg.packet, 0) \notin X
    BY <1>2 DEF NothingFor
  <1>4. PacketMessage(msg.packet, 0) \in K.messages[target]
    BY <1>2 DEF Wired
  <1>5. \/ mbox' = Post(box, target, PacketMessage(msg.packet, 0))
        \/ HandleSendError(target, box)
    BY DEF DispatchHandle
  <1> HIDE DEF msg, box, target
  <1>6. Grown(box[c], mbox'[c], X)
    BY <1>2, <1>3, <1>5, PostGrown, SendErrorGrows DEF NothingFor
  <1>7. BoxesOK(K, mbox')
    BY <1>2, <1>4, <1>5, PostTyped, SendErrorTyped
  <1> QED
    BY <1>2, <1>6, <1>7, BoxGrowsOn

LEMMA TransportGrows ==
    ASSUME NEW K, SessionOK(K), Wired(K), NEW c \in Actor, NEW X, NothingFor(K, c, X),
           TransportNext
    PROVE  Grown(mbox[c], mbox'[c], X)
  <1>1. BoxesOK(K, mbox) /\ mbox[c] \in Seq(K.messages[c]) /\ StopMessage \notin X
    BY DEF SessionOK, BoxesOK, NothingFor
  <1>2. CASE SendHandle
    BY <1>2, TakeGrows DEF SendHandle, Handling
  <1>3. CASE RecvPacket
    <2>1. fromBroker # <<>> /\ fromBroker \in Seq(K.server)
      BY <1>3 DEF RecvPacket, SessionOK
    <2>2. Head(fromBroker) \in K.server
      BY <2>1, HeadTailProperties
    <2>3. c = "Dispatch" => VariablePacketMessage(Head(fromBroker)) \notin X
      BY <2>2 DEF NothingFor
    <2>4. mbox' = Post(mbox, "Dispatch", VariablePacketMessage(Head(fromBroker))) \/ mbox' = mbox
      BY <1>3 DEF RecvPacket
    <2> QED
      BY <1>1, <2>3, <2>4, PostGrown, GrownItself
  <1>4. CASE DispatchHandle
    BY <1>4, DispatchGrows
  <1>5. CASE RecvFails
    <2> DEFINE box == IF Accepts("Stop") THEN Post(mbox, "Stop", StopMessage) ELSE mbox
               told == Post(box, "Stop", StopMessage)
    <2>1. BoxesOK(K, box) /\ Grown(mbox[c], box[c], X)
      BY <1>1, PostStopTyped, PostGrown, GrownItself
    <2>2. mbox' = [told EXCEPT !["Recv"] = <<>>]
      BY <1>5 DEF RecvFails
    <2> HIDE DEF box
    <2>3. BoxesOK(K, told) /\ Grown(box[c], told[c], X)
      BY <1>1, <2>1, PostStopTyped, PostGrown
    <2> HIDE DEF told
    <2>4. BoxesOK(K, mbox') /\ Grown(told[c], mbox'[c], X)
      BY <2>2, <2>3, EmptiedTyped, EmptiedGrows
    <2>5. Grown(mbox[c], told[c], X)
      BY <1>1, <2>1, <2>3, BoxGrowsOn
    <2> QED
      BY <1>1, <2>3, <2>4, <2>5, BoxGrowsOn
  <1>6. CASE WriteError
    <2> DEFINE told == Post(mbox, "Stop", StopMessage)
    <2>1. BoxesOK(K, told) /\ Grown(mbox[c], told[c], X)
      BY <1>1, PostStopTyped, PostGrown
    <2>2. mbox' = [told EXCEPT !["Send"] = <<>>]
      BY <1>6 DEF WriteError
    <2> HIDE DEF told
    <2>3. BoxesOK(K, mbox') /\ Grown(told[c], mbox'[c], X)
      BY <2>1, <2>2, EmptiedTyped, EmptiedGrows
    <2> QED
      BY <1>1, <2>1, <2>3, BoxGrowsOn
  <1>7. CASE DispatchOrphaned
    BY <1>1, <1>7, GrownItself DEF DispatchOrphaned
  <1> QED
    BY <1>2, <1>3, <1>4, <1>5, <1>6, <1>7 DEF TransportNext, RecvError

LEMMA BackgroundGrows ==
    ASSUME NEW K, SessionOK(K), Wired(K), NEW c \in Actor, NEW X, NothingFor(K, c, X), Background
    PROVE  Grown(mbox[c], mbox'[c], X)
  <1>1. BoxesOK(K, mbox) /\ mbox[c] \in Seq(K.messages[c]) /\ DOMAIN mbox = Actor
    BY DEF SessionOK, BoxesOK
  <1>2. CASE Resend
    <2>1. PICK r \in BagToSet(resends) : mbox' = Post(mbox, r.to, r.msg)
      BY <1>2 DEF Resend
    <2> QED
      BY <1>1, <2>1, PostGrown DEF NothingFor
  <1>3. CASE BroadcastStop
    <2>1. mbox'[c] \in {<<>>, mbox[c], Append(mbox[c], StopMessage)}
      BY <1>3 DEF BroadcastStop
    <2>2. StopMessage \notin X
      BY DEF NothingFor
    <2> QED
      BY <1>1, <2>1, <2>2, GrownEmpty, GrownItself, GrownAppend
  <1>4. CASE StopHandle
    <2>1. PICK b \in Registered : HandleStop(b)
      BY <1>4 DEF StopHandle
    <2> DEFINE box == [mbox EXCEPT ![b] = <<>>]
    <2>2. BoxesOK(K, box) /\ Grown(mbox[c], box[c], X)
      BY <1>1, EmptiedTyped, EmptiedGrows
    <2>3. mbox' = Post(box, "Stop", StopMessage) \/ mbox' = box
      BY <2>1 DEF HandleStop
    <2> HIDE DEF box
    <2>4. BoxesOK(K, mbox')
      BY <2>2, <2>3, PostStopTyped
    <2>5. Grown(box[c], mbox'[c], X)
      <3>1. box[c] \in Seq(K.messages[c])
        BY <2>2 DEF BoxesOK
      <3> QED
        BY <2>2, <2>3, <3>1, PostGrown, GrownItself DEF NothingFor
    <2> QED
      BY <1>1, <2>2, <2>4, <2>5, BoxGrowsOn
  <1> QED
    BY <1>2, <1>3, <1>4, TaskGrows, TransportGrows DEF Background

-----------------------------------------------------------------------------
(* The identifier of an attempt.  Once a status of identifier id that is   *)
(* one of P is gone it stays away, as long as nobody takes id again.       *)

StatusOps(K, id)     == {op \in K.messages["Status"] : op.type = "Status" /\ op.id = id}
StatusSets(K, id, P) == {op \in StatusOps(K, id) : op.op = "Set" /\ op.payload \in P}

\* No status of id that is one of P is in the map or about to be.
Clear(K, id, P) == packetStatus[id] \notin P /\ NoneIn(mbox["Status"], StatusSets(K, id, P))

\* Such a status is set before anything else is done with its identifier.
SetFirst(K, id, P) == FirstOf(mbox["Status"], StatusSets(K, id, P), StatusOps(K, id))

\* The status actor is not the actor of a packet, and nothing sent to it is repeated.
StatusApart(K) ==
    /\ \A r \in K.resends : r.to \in Actor \ {"Status"}
    /\ \A t \in K.tasks : t.actor \in Actor \ {"Status"}
    /\ \A msg \in K.messages["Dispatch"] :
           msg.type = "Packet" => Target[msg.packet.type] \in Actor \ {"Status"}
    /\ SendStatusRecipient \subseteq Actor \ {"Status"}

LEMMA BackgroundMap == Background => packetStatus' = packetStatus
  BY DEF Background, Resend, BroadcastStop, TaskNext, TimerFires, AskStatus, StatusChecked,
         TransportNext, StopHandle, HandleStop, statusVars

LEMMA StatusGrows ==
    ASSUME NEW K, SessionOK(K), SessionOK(K)', NEW id, NEW P, Grown(mbox["Status"], mbox'["Status"], StatusSets(K, id, P))
    PROVE  /\ NoneIn(mbox["Status"], StatusSets(K, id, P)) => NoneIn(mbox'["Status"], StatusSets(K, id, P))
           /\ SetFirst(K, id, P) => SetFirst(K, id, P)'
  <1>1. /\ mbox["Status"] \in Seq(K.messages["Status"])
        /\ mbox'["Status"] \in Seq(K.messages["Status"])
    BY ActorAssumption DEF SessionOK
  <1>2. PICK E : E = StatusSets(K, id, P)
    OBVIOUS
  <1>3. PICK F : F = StatusOps(K, id)
    OBVIOUS
  <1>4. /\ NoneIn(mbox["Status"], E) => NoneIn(mbox'["Status"], E)
        /\ FirstOf(mbox["Status"], E, F) => FirstOf(mbox'["Status"], E, F)
    BY <1>1, <1>2, GrownKeeps
  <1> QED
    BY <1>2, <1>3, <1>4 DEF SetFirst

LEMMA BackgroundClear ==
    ASSUME NEW K, SessionOK(K), Wired(K), StatusApart(K), NEW id, NEW P, Background
    PROVE  /\ Clear(K, id, P) => Clear(K, id, P)'
           /\ SetFirst(K, id, P) => SetFirst(K, id, P)'
  <1>1. NothingFor(K, "Status", StatusSets(K, id, P))
    <2>1. StopMessage \notin StatusSets(K, id, P)
      BY DEF StatusSets, StatusOps, StopMessage
    <2>2. \A t : GetAndRemovePacketStatus(t) \notin StatusSets(K, id, P)
      BY DEF StatusSets, GetAndRemovePacketStatus
    <2> QED
      BY <2>1, <2>2 DEF NothingFor, StatusApart, SessionOK
  <1>2. Grown(mbox["Status"], mbox'["Status"], StatusSets(K, id, P))
    BY <1>1, BackgroundGrows, ActorAssumption
  <1>3. SessionOK(K)'
    BY BackgroundTyped
  <1> QED
    BY <1>2, <1>3, StatusGrows, BackgroundMap DEF Clear

\* What the status actor does with an operation.
LEMMA StatusHandleClear ==
    ASSUME NEW K, SessionOK(K), Wired(K), NEW id \in Id, NEW P, NoStatus \notin P,
           SetFirst(K, id, P), StatusHandle
    PROVE  LET op == Head(mbox["Status"])
           IN  /\ SetFirst(K, id, P)'
               /\ Clear(K, id, P) => Clear(K, id, P)'
               /\ op.id = id /\ (op.op = "Set" => op.payload \notin P) => Clear(K, id, P)'
               /\ op.id # id => packetStatus'[id] = packetStatus[id]
               /\ packetStatus[id] # NoStatus /\ packetStatus'[id] = NoStatus => op.id = id
  <1> DEFINE op == Head(mbox["Status"])
  <1>1. /\ "Status" \in Actor /\ Handling("Status", "Status")
        /\ mbox["Status"] \in Seq(K.messages["Status"]) /\ mbox["Status"] # <<>>
        /\ op \in K.messages["Status"] /\ op.type = "Status"
    BY ActorAssumption, TakeTyped DEF StatusHandle, SessionOK
  <1>2. mbox'["Status"] = Tail(mbox["Status"])
    BY <1>1, StatusAssumption DEF StatusHandle, Take, SessionOK
  <1>3. Tail(mbox["Status"]) \in Seq(K.messages["Status"])
    BY <1>1, HeadTailProperties
  <1>4. PICK E : E = StatusSets(K, id, P)
    OBVIOUS
  <1>5. PICK F : F = StatusOps(K, id)
    OBVIOUS
  <1>6. /\ FirstOf(mbox["Status"], E, F) => FirstOf(mbox'["Status"], E, F)
        /\ NoneIn(mbox["Status"], E) => NoneIn(mbox'["Status"], E)
    <2>1. Grown(mbox["Status"], mbox'["Status"], E)
      BY <1>1, <1>2, GrownTail
    <2> QED
      BY <1>1, <1>2, <1>3, <2>1, GrownKeeps
  <1>7. op.id = id => NoneIn(mbox'["Status"], E)
    <2>1. op.id = id => op \in F
      BY <1>1, <1>5 DEF StatusOps
    <2>2. FirstOf(mbox["Status"], E, F)
      BY <1>4, <1>5 DEF SetFirst
    <2> QED
      BY <1>1, <1>2, <2>1, <2>2, FirstTaken
  <1>8. packetStatus' = Apply(op) /\ DOMAIN packetStatus = Id /\ op.id \in Id
    BY <1>1 DEF StatusHandle, SessionOK, Wired
  <1>9. /\ op.id # id => packetStatus'[id] = packetStatus[id]
        /\ op.id = id => packetStatus'[id] = IF op.op = "Set" THEN op.payload ELSE NoStatus
    BY <1>8 DEF Apply
  <1>10. op.id = id /\ op.op = "Set" /\ op.payload \in P => ~NoneIn(mbox["Status"], E)
    <2>1. 1 \in DOMAIN mbox["Status"] /\ mbox["Status"][1] = op
      BY <1>1
    <2>2. op.id = id /\ op.op = "Set" /\ op.payload \in P => op \in E
      BY <1>1, <1>4 DEF StatusSets, StatusOps
    <2> QED
      BY <2>1, <2>2 DEF NoneIn
  <1> HIDE DEF op
  <1>11. SetFirst(K, id, P)'
    BY <1>4, <1>5, <1>6 DEF SetFirst
  <1>12. op.id = id /\ (op.op = "Set" => op.payload \notin P) => Clear(K, id, P)'
    BY <1>4, <1>7, <1>9 DEF Clear
  <1>13. Clear(K, id, P) => Clear(K, id, P)'
    BY <1>4, <1>6, <1>9, <1>10, <1>12 DEF Clear
  <1> QED
    BY <1>9, <1>11, <1>12, <1>13 DEF op

-----------------------------------------------------------------------------
(* An attempt that is settled.  What is left of the messages of S are       *)
(* checks of the status of id, and none of them has found it.              *)

Granted(K, a, S) == {r \in AnswersFor(K, a, S) : r.answer \in r.task.expect}

Silent(K, a, S) ==
    /\ NoneIn(mbox[a], S)
    /\ NoneInBag(resends, ResendsFor(K, a, S))
    /\ NoneInBag(answered, Granted(K, a, S))

\* K, but for the checks of other identifiers.
OtherTasks(K, a, S, id) == {t \in TasksFor(K, a, S) : t.id # id}
OtherAsks(K, a, S, id) == {GetAndRemovePacketStatus(t) : t \in OtherTasks(K, a, S, id)}
AttemptK(K, a, S, id) ==
    [messages |-> [b \in Actor |-> IF b = "Status" THEN K.messages[b] \ OtherAsks(K, a, S, id)
                                   ELSE K.messages[b]],
     resends |-> K.resends,
     tasks |-> K.tasks \ OtherTasks(K, a, S, id),
     timers |-> K.timers \ OtherTasks(K, a, S, id),
     payload |-> K.payload, client |-> K.client, server |-> K.server]

HeldTo(K, a, S, id) == Silent(K, a, S) /\ SessionOK(AttemptK(K, a, S, id))

LEMMA AttemptFields ==
    ASSUME NEW K, NEW a, NEW S, NEW id
    PROVE  LET A == AttemptK(K, a, S, id)
           IN  /\ \A b \in Actor \ {"Status"} : A.messages[b] = K.messages[b]
               /\ A.messages["Status"] = K.messages["Status"] \ OtherAsks(K, a, S, id)
               /\ A.resends = K.resends
               /\ A.tasks = K.tasks \ OtherTasks(K, a, S, id)
               /\ A.timers = K.timers \ OtherTasks(K, a, S, id)
               /\ A.payload = K.payload /\ A.client = K.client /\ A.server = K.server
  BY ActorAssumption DEF AttemptK

LEMMA AskedOther ==
    ASSUME NEW K, NEW a, NEW S, NEW id, NEW t
    PROVE  GetAndRemovePacketStatus(t) \in OtherAsks(K, a, S, id) => t \in OtherTasks(K, a, S, id)
  BY DEF OtherAsks, GetAndRemovePacketStatus

LEMMA AttemptWired ==
    ASSUME NEW K, Wired(K), StatusApart(K), NEW a, NEW S, NEW id
    PROVE  Wired(AttemptK(K, a, S, id))
  <1> DEFINE A == AttemptK(K, a, S, id)
             Q == OtherAsks(K, a, S, id)
             O == OtherTasks(K, a, S, id)
  <1>1. /\ \A b \in Actor \ {"Status"} : A.messages[b] = K.messages[b]
        /\ A.messages["Status"] = K.messages["Status"] \ Q
        /\ A.resends = K.resends
        /\ A.tasks = K.tasks \ O /\ A.timers = K.timers \ O
        /\ A.payload = K.payload /\ A.client = K.client /\ A.server = K.server
    BY AttemptFields
  <1>2. /\ {"Send", "Dispatch", "Status"} \subseteq Actor
        /\ \A q \in Q : q.type = "Status" /\ q.op = "GetAndRemove" /\ q.task \in O
                        /\ q = GetAndRemovePacketStatus(q.task)
        /\ \A t : GetAndRemovePacketStatus(t) \in Q => t \in O
    BY ActorAssumption, AskedOther DEF OtherAsks, GetAndRemovePacketStatus
  <1> HIDE DEF A, Q, O
  <1>3. \A b \in Actor : StopMessage \in A.messages[b]
    BY <1>1, <1>2 DEF Wired, StopMessage
  <1>4. \A r \in A.resends : r.msg \in A.messages[r.to]
    BY <1>1 DEF Wired, StatusApart
  <1>5. A.timers \subseteq A.tasks
    BY <1>1 DEF Wired
  <1>6. ASSUME NEW t \in A.tasks
        PROVE  /\ GetAndRemovePacketStatus(t) \in A.messages["Status"]
               /\ t.kind = "check" => t.msg \in A.messages[t.actor]
    <2>1. t \in K.tasks /\ t \notin O
      BY <1>1
    <2>2. GetAndRemovePacketStatus(t) \in K.messages["Status"]
      BY <2>1 DEF Wired
    <2>3. t.kind = "check" => t.msg \in K.messages[t.actor]
      BY <2>1 DEF Wired
    <2>4. t.actor \in Actor \ {"Status"}
      BY <2>1 DEF StatusApart
    <2> QED
      BY <1>1, <1>2, <2>1, <2>2, <2>3, <2>4
  <1>7. ASSUME NEW op \in A.messages["Status"], op.type = "Status"
        PROVE  /\ op.id \in Id
               /\ op.op = "Set" => op.payload \in A.payload
               /\ op.op = "GetAndRemove" => op = GetAndRemovePacketStatus(op.task) /\ op.task \in A.tasks
    <2>1. op \in K.messages["Status"] /\ op \notin Q
      BY <1>1
    <2>2. /\ op.id \in Id
          /\ op.op = "Set" => op.payload \in K.payload
          /\ op.op = "GetAndRemove" => op = GetAndRemovePacketStatus(op.task) /\ op.task \in K.tasks
      BY <1>7, <2>1 DEF Wired
    <2>3. op = GetAndRemovePacketStatus(op.task) => op.task \notin O
      BY <2>1 DEF Q, O, OtherAsks
    <2> QED
      BY <1>1, <2>2, <2>3
  <1>8. A.payload \subseteq Payload
    BY <1>1 DEF Wired
  <1>9. \A b \in SendStatusRecipient : \A f \in BOOLEAN :
            [type |-> "PacketSendStatus", finished |-> f] \in A.messages[b]
    BY <1>1 DEF Wired, StatusApart
  <1>10. \A msg \in A.messages["Send"] : msg.type = "Packet" => msg.packet \in A.client
    BY <1>1, <1>2 DEF Wired
  <1>11. \A packet \in A.server : VariablePacketMessage(packet) \in A.messages["Dispatch"]
    BY <1>1, <1>2 DEF Wired
  <1>12. \A msg \in A.messages["Dispatch"] :
             msg.type = "Packet" =>
                 PacketMessage(msg.packet, 0) \in A.messages[Target[msg.packet.type]]
    <2>1. A.messages["Dispatch"] = K.messages["Dispatch"]
      BY <1>1, <1>2
    <2>2. ASSUME NEW msg \in K.messages["Dispatch"], msg.type = "Packet"
          PROVE  PacketMessage(msg.packet, 0) \in A.messages[Target[msg.packet.type]]
      <3>1. PacketMessage(msg.packet, 0) \in K.messages[Target[msg.packet.type]]
        BY <2>2 DEF Wired
      <3>2. Target[msg.packet.type] \in Actor \ {"Status"}
        BY <2>2 DEF StatusApart
      <3> QED
        BY <1>1, <3>1, <3>2
    <2> QED
      BY <2>1, <2>2
  <1>13. Wired(A)
    BY <1>3, <1>4, <1>5, <1>6, <1>7, <1>8, <1>9, <1>10, <1>11, <1>12 DEF Wired
  <1> QED
    BY <1>13 DEF A

LEMMA BackgroundResends ==
    ASSUME Background
    PROVE  BagToSet(resends') \subseteq BagToSet(resends)
  <1>1. CASE Resend
    BY <1>1, BagRemoveElements DEF Resend
  <1>2. CASE UNCHANGED resends
    BY <1>2
  <1> QED
    BY <1>1, <1>2
       DEF Background, BroadcastStop, TaskNext, TimerFires, AskStatus, StatusChecked, actorVars,
           TransportNext, SendHandle, RecvPacket, DispatchHandle, RecvError, RecvFails, WriteError,
           DispatchOrphaned, StopHandle, HandleStop

\* Only the status actor answers a question with what the map says.
LEMMA BackgroundAnswers ==
    ASSUME Background
    PROVE  \A r \in BagToSet(answered') : r \in BagToSet(answered) \/ r.answer = "Closed"
  <1>1. CASE AskStatus
    <2>1. \/ UNCHANGED answered
          \/ \E t : answered' = BagAdd(answered, Answered(t, "Closed"))
      BY <1>1 DEF AskStatus
    <2>2. CASE UNCHANGED answered
      BY <2>2
    <2>3. CASE \E t : answered' = BagAdd(answered, Answered(t, "Closed"))
      <3>1. PICK t : answered' = BagAdd(answered, Answered(t, "Closed"))
        BY <2>3
      <3>2. BagToSet(answered') = BagToSet(answered) \cup {Answered(t, "Closed")}
        BY <3>1, BagAddElements
      <3>3. Answered(t, "Closed").answer = "Closed"
        BY DEF Answered
      <3> QED
        BY <3>2, <3>3
    <2> QED
      BY <2>1, <2>2, <2>3
  <1>2. CASE StatusChecked
    BY <1>2, BagRemoveElements DEF StatusChecked
  <1>3. CASE StopHandle
    <2>1. \/ UNCHANGED answered
          \/ \E box : answered' = answered (+) Unanswerable(box)
      BY <1>3 DEF StopHandle, HandleStop
    <2>2. \A box : \A r \in BagToSet(Unanswerable(box)) : r.answer = "Closed"
      BY DEF Unanswerable, BagToSet, Answered
    <2> QED
      BY <2>1, <2>2, BagUnionElements
  <1>4. CASE UNCHANGED answered
    BY <1>4
  <1> QED
    BY <1>1, <1>2, <1>3, <1>4
       DEF Background, Resend, BroadcastStop, TaskNext, TimerFires, TransportNext, statusVars

LEMMA SilentKept ==
    ASSUME NEW K, SessionOK(K), SessionOK(K)', NEW a \in Actor, NEW S, Silent(K, a, S),
           Grown(mbox[a], mbox'[a], S),
           BagKeeps(resends, resends', ResendsFor(K, a, S)),
           NoneInBag(answered', Granted(K, a, S))
    PROVE  Silent(K, a, S)'
  <1>1. mbox[a] \in Seq(K.messages[a]) /\ mbox'[a] \in Seq(K.messages[a])
    BY DEF SessionOK
  <1>2. NoneIn(mbox'[a], S)
    BY <1>1, GrownKeeps DEF Silent
  <1> QED
    BY <1>2 DEF Silent, BagKeeps

LEMMA BackgroundSilent ==
    ASSUME NEW K, SessionOK(K), Wired(K), NEW a, NEW S, Followed(K, a, S),
           \A t \in K.tasks : "Closed" \notin t.expect,
           Silent(K, a, S), Background
    PROVE  Silent(K, a, S)'
  <1>1. a \in Actor \ {"Status", "Dispatch"}
    BY DEF Followed
  <1>2. /\ BagToSet(answered) \subseteq [task : K.tasks, answer : Answer]
        /\ BagToSet(resends) \subseteq K.resends
    BY DEF SessionOK
  <1>3. NothingFor(K, a, S)
    <2>1. \A r \in BagToSet(resends) : r.to = a => r.msg \notin S
      BY <1>2 DEF Silent, NoneInBag, ResendsFor
    <2>2. \A r \in BagToSet(answered) :
              r.task.actor = a /\ r.answer \in r.task.expect => r.task.msg \notin S
      BY <1>2 DEF Silent, NoneInBag, Granted, AnswersFor, TasksFor
    <2> QED
      BY <1>1, <2>1, <2>2 DEF NothingFor, Followed
  <1>4. Grown(mbox[a], mbox'[a], S)
    BY <1>1, <1>3, BackgroundGrows
  <1>5. SessionOK(K)'
    BY BackgroundTyped
  <1>6. BagKeeps(resends, resends', ResendsFor(K, a, S))
    <2>1. NoneInBag(resends, ResendsFor(K, a, S)) /\ NoneInBag(resends', ResendsFor(K, a, S))
      BY BackgroundResends DEF Silent, NoneInBag
    <2> QED
      BY <2>1 DEF BagKeeps, NoneInBag, OnceInBag
  <1>7. NoneInBag(answered', Granted(K, a, S))
    <2>1. ASSUME NEW r \in BagToSet(answered')
          PROVE  r \notin Granted(K, a, S)
      <3>1. CASE r \in BagToSet(answered)
        BY <3>1 DEF Silent, NoneInBag
      <3>2. CASE r.answer = "Closed"
        BY <3>2 DEF Granted, AnswersFor
      <3> QED
        BY <3>1, <3>2, BackgroundAnswers
    <2> QED
      BY <2>1 DEF NoneInBag
  <1> QED
    BY <1>1, <1>4, <1>5, <1>6, <1>7, SilentKept

\* In the background an attempt that is settled stays settled.
LEMMA BackgroundHeld ==
    ASSUME NEW K, SessionOK(K), Wired(K), StatusApart(K), NEW a, NEW S, Followed(K, a, S),
           \A t \in K.tasks : "Closed" \notin t.expect,
           NEW id, HeldTo(K, a, S, id), Background
    PROVE  HeldTo(K, a, S, id)'
  <1>1. Silent(K, a, S)'
    BY BackgroundSilent DEF HeldTo
  <1>2. PICK A : A = AttemptK(K, a, S, id)
    OBVIOUS
  <1>3. SessionOK(A) /\ Wired(A)
    BY <1>2, AttemptWired DEF HeldTo
  <1>4. SessionOK(A)'
    BY <1>3, BackgroundTyped
  <1> QED
    BY <1>1, <1>2, <1>4 DEF HeldTo

\* So it does when the status actor finds no status of id.
LEMMA StatusHandleHeld ==
    ASSUME NEW K, SessionOK(K), Wired(K), StatusApart(K), NEW a, NEW S, Followed(K, a, S),
           NEW id, HeldTo(K, a, S, id), StatusHandle, UNCHANGED wireVars,
           LET op == Head(mbox["Status"])
           IN  op.op = "GetAndRemove" /\ op.id = id /\ op.task \in TasksFor(K, a, S)
                   => packetStatus[id] \notin op.task.expect
    PROVE  HeldTo(K, a, S, id)'
  <1> DEFINE op == Head(mbox["Status"])
             report == Report(op)
  <1>1. PICK A : A = AttemptK(K, a, S, id)
    OBVIOUS
  <1>2. SessionOK(A) /\ Wired(A) /\ SessionOK(A)' /\ SessionOK(K)'
    <2>1. SessionOK(A) /\ Wired(A)
      BY <1>1, AttemptWired DEF HeldTo
    <2> QED
      BY <2>1, StatusHandleTyped
  <1>3. "Status" \in Actor /\ a \in Actor \ {"Status"} /\ Handling("Status", "Status")
    BY ActorAssumption DEF Followed, StatusHandle
  <1>4. Grown(mbox[a], mbox'[a], S)
    <2>1. mbox[a] \in Seq(K.messages[a]) /\ DOMAIN mbox = Actor
      BY <1>3 DEF SessionOK
    <2>2. mbox'[a] = mbox[a] \/ mbox'[a] = Append(mbox[a], report)
      BY <1>3, <2>1 DEF StatusHandle, Take
    <2>3. report \notin S
      BY DEF Report, PacketSendStatus, Followed
    <2> HIDE DEF report
    <2> QED
      BY <2>1, <2>2, <2>3, GrownItself, GrownAppend
  <1>5. NoneInBag(answered', Granted(K, a, S))
    <2>1. NoneInBag(answered, Granted(K, a, S))
      BY DEF HeldTo, Silent
    <2>2. CASE op.op = "GetAndRemove"
      <3>1. op \in A.messages["Status"] /\ op.type = "Status"
        BY <1>2, <1>3, TakeTyped
      <3>2. op = GetAndRemovePacketStatus(op.task) /\ op.task \in A.tasks
        BY <1>2, <2>2, <3>1 DEF Wired
      <3>3. A.tasks = K.tasks \ OtherTasks(K, a, S, id)
        BY <1>1, AttemptFields
      <3>4. op.id = op.task.id
        BY <3>2 DEF GetAndRemovePacketStatus
      <3>5. op.task \in TasksFor(K, a, S) => op.id = id
        BY <3>2, <3>3, <3>4 DEF OtherTasks
      <3>6. answered' = BagAdd(answered, Answered(op.task, packetStatus[op.id]))
        BY <2>2 DEF StatusHandle
      <3>7. Answered(op.task, packetStatus[op.id]) \notin Granted(K, a, S)
        BY <2>2, <3>5 DEF Answered, Granted, AnswersFor
      <3> HIDE DEF op
      <3> QED
        BY <2>1, <3>6, <3>7, NoneInBagAdd
    <2>3. CASE op.op # "GetAndRemove"
      BY <2>1, <2>3 DEF StatusHandle
    <2> QED
      BY <2>2, <2>3
  <1>6. BagKeeps(resends, resends', ResendsFor(K, a, S))
    BY BagKeepsItself DEF StatusHandle
  <1>7. Silent(K, a, S)'
    BY <1>2, <1>3, <1>4, <1>5, <1>6, SilentKept DEF HeldTo
  <1> QED
    BY <1>1, <1>2, <1>7 DEF HeldTo

\* And when other actors do something else.
LEMMA HeldElsewhere ==
    ASSUME NEW K, SessionOK(K), SessionOK(K)', NEW a \in Actor, NEW S,
           NEW id, HeldTo(K, a, S, id), SessionOK(AttemptK(K, a, S, id))',
           Grown(mbox[a], mbox'[a], S),
           BagKeeps(resends, resends', ResendsFor(K, a, S)), UNCHANGED answered
    PROVE  HeldTo(K, a, S, id)'
  <1>1. NoneInBag(answered', Granted(K, a, S))
    BY DEF HeldTo, Silent
  <1>2. Silent(K, a, S)'
    BY <1>1, SilentKept DEF HeldTo
  <1> QED
    BY <1>2 DEF HeldTo

\* What a response actor b does to the mailbox of c.
LEMMA ResponseHandleGrows ==
    ASSUME NEW K, SessionOK(K), Wired(K), NEW b \in Actor, NEW type, ResponseHandle(b, type),
           RemovePacketStatus(Head(mbox[b]).packet.id) \in K.messages["Status"],
           NEW c \in Actor, NEW X, StopMessage \notin X,
           c = "Status" => RemovePacketStatus(Head(mbox[b]).packet.id) \notin X
    PROVE  Grown(mbox[c], mbox'[c], X)
  <1> DEFINE msg == Head(mbox[b])
             remove == RemovePacketStatus(msg.packet.id)
             box == Take(b)
  <1>1. BoxesOK(K, box) /\ mbox[b] # <<>>
    BY TakeTyped DEF ResponseHandle
  <1>2. Grown(mbox[c], box[c], X) /\ BoxesOK(K, mbox)
    BY <1>1, TakeGrows DEF SessionOK, BoxesOK
  <1>3. \/ mbox' = Post(box, "Status", remove)
        \/ HandleSendErrorWithResend("Status", box, b, msg)
    BY DEF ResponseHandle
  <1>4. remove \in K.messages["Status"] /\ (c = "Status" => remove \notin X)
    OBVIOUS
  <1> HIDE DEF msg, remove, box
  <1>5. CASE mbox' = Post(box, "Status", remove)
    <2>1. BoxesOK(K, mbox') /\ Grown(box[c], mbox'[c], X)
      BY <1>1, <1>4, <1>5, PostTyped, PostGrown
    <2> QED
      BY <1>1, <1>2, <2>1, BoxGrowsOn
  <1>6. CASE HandleSendErrorWithResend("Status", box, b, msg)
    <2>1. mbox' = Post(box, "Stop", StopMessage) \/ mbox' = box
      BY <1>6 DEF HandleSendErrorWithResend
    <2>2. BoxesOK(K, mbox')
      BY <1>1, <2>1, PostStopTyped
    <2>3. Grown(box[c], mbox'[c], X)
      BY <1>1, <1>6, SendErrorGrows
    <2> QED
      BY <1>1, <1>2, <2>2, <2>3, BoxGrowsOn
  <1> QED
    BY <1>3, <1>5, <1>6

\* A response actor b that answers no message of S.
LEMMA ResponseHandleHeld ==
    ASSUME NEW K, SessionOK(K), Wired(K), StatusApart(K), NEW a, NEW S, Followed(K, a, S),
           NEW id, HeldTo(K, a, S, id),
           NEW b \in Actor \ {a}, NEW type, ResponseHandle(b, type), UNCHANGED wireVars,
           RemovePacketStatus(Head(mbox[b]).packet.id) \in K.messages["Status"],
           [to |-> b, msg |-> Head(mbox[b])] \in K.resends
    PROVE  HeldTo(K, a, S, id)'
  <1> DEFINE msg == Head(mbox[b])
  <1>1. PICK A : A = AttemptK(K, a, S, id)
    OBVIOUS
  <1>2. RemovePacketStatus(msg.packet.id) \in A.messages["Status"]
    <2>1. A.messages["Status"] = K.messages["Status"] \ OtherAsks(K, a, S, id)
      BY <1>1, AttemptFields
    <2>2. RemovePacketStatus(msg.packet.id) \notin OtherAsks(K, a, S, id)
      BY DEF OtherAsks, RemovePacketStatus, GetAndRemovePacketStatus
    <2> QED
      BY <2>1, <2>2
  <1>3. [to |-> b, msg |-> msg] \in A.resends
    BY <1>1, AttemptFields
  <1>4. SessionOK(A) /\ Wired(A)
    BY <1>1, AttemptWired DEF HeldTo
  <1>5. SessionOK(A)' /\ SessionOK(K)'
    BY <1>2, <1>3, <1>4, ResponseHandleTyped
  <1>6. a \in Actor \ {"Status"} /\ StopMessage \notin S
    BY DEF Followed
  <1>7. Grown(mbox[a], mbox'[a], S)
    BY <1>6, ResponseHandleGrows
  <1>8. BagKeeps(resends, resends', ResendsFor(K, a, S)) /\ UNCHANGED answered
    <2>1. \/ UNCHANGED resends
          \/ resends' = BagAdd(resends, [to |-> b, msg |-> msg])
      BY DEF ResponseHandle, HandleSendErrorWithResend
    <2>2. [to |-> b, msg |-> msg] \notin ResendsFor(K, a, S)
      BY DEF ResendsFor
    <2> QED
      BY <2>1, <2>2, BagAddKeeps, BagKeepsItself DEF ResponseHandle, statusVars
  <1> QED
    BY <1>1, <1>5, <1>6, <1>7, <1>8, HeldElsewhere

\* What the sender of a packet b does to the mailbox of c.
LEMMA SendPacketHandleGrows ==
    ASSUME NEW K, SessionOK(K), Wired(K), NEW b \in Actor, NEW type, Handling(b, type),
           NEW msg, NEW op, NEW packet, NEW expect,
           SendPacketHandle(b, msg, op, packet, expect),
           RemovePacketStatus(packet.id) \in K.messages["Status"],
           op \in K.messages["Status"],
           VariablePacketMessage(packet) \in K.messages["Send"],
           NEW c \in Actor \ {"Send"}, NEW X, StopMessage \notin X,
           c = "Status" => RemovePacketStatus(packet.id) \notin X /\ op \notin X
    PROVE  Grown(mbox[c], mbox'[c], X)
  <1> DEFINE box == Take(b)
             remove == RemovePacketStatus(packet.id)
             sent == VariablePacketMessage(packet)
             set == Post(box, "Status", op)
  <1>1. BoxesOK(K, box) /\ mbox[b] # <<>>
    BY TakeTyped
  <1>2. Grown(mbox[c], box[c], X) /\ BoxesOK(K, mbox)
    BY <1>1, TakeGrows DEF SessionOK, BoxesOK
  <1>3. \/ mbox' = Post(box, "Status", remove)
        \/ mbox' \in {box, Post(box, "Stop", StopMessage)}
        \/ mbox' \in {set, Post(set, "Stop", StopMessage), Post(set, "Send", sent)}
    BY DEF SendPacketHandle, GiveUp, SetSendSchedule, HandleSendErrorWithResend
  <1> HIDE DEF box, remove, sent
  <1>4. Grown(box[c], set[c], X) /\ BoxesOK(K, set)
    BY <1>1, PostGrown, PostTyped
  <1> HIDE DEF set
  <1>5. Grown(mbox[c], set[c], X)
    BY <1>1, <1>2, <1>4, BoxGrowsOn
  <1>6. ASSUME NEW old, BoxesOK(K, old), Grown(mbox[c], old[c], X), NEW d, NEW m,
               d \in Actor => m \in K.messages[d], d = c => m \notin X, mbox' = Post(old, d, m)
        PROVE  Grown(mbox[c], mbox'[c], X)
    <2>1. BoxesOK(K, mbox') /\ Grown(old[c], mbox'[c], X)
      BY <1>6, PostTyped, PostGrown
    <2> QED
      BY <1>2, <1>6, <2>1, BoxGrowsOn
  <1>7. /\ remove \in K.messages["Status"] /\ (c = "Status" => remove \notin X)
        /\ sent \in K.messages["Send"]
        /\ "Stop" \in Actor => StopMessage \in K.messages["Stop"]
    BY DEF remove, sent, Wired
  <1> QED
    BY <1>1, <1>2, <1>3, <1>4, <1>5, <1>6, <1>7

\* A sender of a packet b that sends none for a message of S.
LEMMA SendPacketHandleHeld ==
    ASSUME NEW K, SessionOK(K), Wired(K), StatusApart(K), NEW a, NEW S, Followed(K, a, S),
           NEW id, HeldTo(K, a, S, id),
           NEW b \in Actor \ {a}, NEW type, Handling(b, type),
           NEW msg, NEW op, NEW packet, NEW expect,
           SendPacketHandle(b, msg, op, packet, expect), UNCHANGED wireVars,
           RemovePacketStatus(packet.id) \in K.messages["Status"],
           op \in K.messages["Status"], op.op \in {"Set", "Remove"},
           VariablePacketMessage(packet) \in K.messages["Send"],
           ~RetryExhausted(msg) =>
               /\ StatusCheck(b, b, packet.id, Retried(msg), expect) \in K.timers
               /\ [to |-> b, msg |-> Retried(msg)] \in K.resends
    PROVE  HeldTo(K, a, S, id)'
  <1> DEFINE check == StatusCheck(b, b, packet.id, Retried(msg), expect)
             resend == [to |-> b, msg |-> Retried(msg)]
  <1>1. PICK A : A = AttemptK(K, a, S, id)
    OBVIOUS
  <1>2. /\ A.messages["Status"] = K.messages["Status"] \ OtherAsks(K, a, S, id)
        /\ A.messages["Send"] = K.messages["Send"]
        /\ A.resends = K.resends
        /\ A.timers = K.timers \ OtherTasks(K, a, S, id)
    BY <1>1, AttemptFields, ActorAssumption
  <1>3. RemovePacketStatus(packet.id) \in A.messages["Status"] /\ op \in A.messages["Status"]
    <2>1. \A x \in OtherAsks(K, a, S, id) : x.op = "GetAndRemove"
      BY DEF OtherAsks, GetAndRemovePacketStatus
    <2>2. RemovePacketStatus(packet.id).op = "Remove"
      BY DEF RemovePacketStatus
    <2> QED
      BY <1>2, <2>1, <2>2
  <1>4. check \notin OtherTasks(K, a, S, id)
    BY DEF OtherTasks, TasksFor, StatusCheck
  <1>5. SessionOK(A) /\ Wired(A)
    BY <1>1, AttemptWired DEF HeldTo
  <1>6. SessionOK(A)'
    BY <1>2, <1>3, <1>4, <1>5, SendPacketHandleTyped
  <1>7. SessionOK(K)'
    BY SendPacketHandleTyped
  <1>8. a \in Actor \ {"Status", "Send"} /\ StopMessage \notin S
    BY DEF Followed
  <1>9. Grown(mbox[a], mbox'[a], S)
    BY <1>8, SendPacketHandleGrows
  <1>10. BagKeeps(resends, resends', ResendsFor(K, a, S)) /\ UNCHANGED answered
    <2>1. UNCHANGED resends \/ resends' = BagAdd(resends, resend)
      BY DEF SendPacketHandle, GiveUp, SetSendSchedule, HandleSendErrorWithResend
    <2>2. resend \notin ResendsFor(K, a, S)
      BY DEF ResendsFor
    <2> HIDE DEF resend
    <2> QED
      BY <2>1, <2>2, BagAddKeeps, BagKeepsItself DEF SendPacketHandle
  <1> QED
    BY <1>1, <1>6, <1>7, <1>8, <1>9, <1>10, HeldElsewhere

-----------------------------------------------------------------------------
(* The attempt itself. *)

LEMMA SeqWithout ==
    ASSUME NEW M, NEW s \in Seq(M), NEW Q, NoneIn(s, Q)
    PROVE  s \in Seq(M \ Q)
  <1>1. Len(s) \in Nat /\ DOMAIN s = 1 .. Len(s)
    BY LenProperties
  <1>2. \A i \in 1 .. Len(s) : s[i] \in M \ Q
    BY <1>1, ElementOfSeq DEF NoneIn
  <1>3. SubSeq(s, 1, Len(s)) \in Seq(M \ Q)
    BY <1>1, <1>2, SubSeqProperties
  <1>4. SubSeq(s, 1, Len(s)) = s
    BY SubSeqFull
  <1> QED
    BY <1>3, <1>4

\* Where no question about S is there is none of another identifier.
LEMMA AttemptAlone ==
    ASSUME NEW K, SessionOK(K), NEW a, NEW S, NEW id,
           NoneIn(mbox["Status"], Asks(K, a, S)),
           NoneInBag(timers, TasksFor(K, a, S)),
           NoneInBag(asking, TasksFor(K, a, S)),
           NoneInBag(answered, AnswersFor(K, a, S))
    PROVE  SessionOK(AttemptK(K, a, S, id))
  <1> DEFINE A == AttemptK(K, a, S, id)
             O == OtherTasks(K, a, S, id)
             Q == OtherAsks(K, a, S, id)
  <1>1. /\ \A b \in Actor \ {"Status"} : A.messages[b] = K.messages[b]
        /\ A.messages["Status"] = K.messages["Status"] \ Q
        /\ A.resends = K.resends
        /\ A.tasks = K.tasks \ O /\ A.timers = K.timers \ O
        /\ A.payload = K.payload /\ A.client = K.client /\ A.server = K.server
    BY AttemptFields
  <1>2. O \subseteq TasksFor(K, a, S) /\ Q \subseteq Asks(K, a, S)
    BY DEF OtherTasks, OtherAsks, Asks
  <1>3. mbox["Status"] \in Seq(K.messages["Status"] \ Q)
    <2>1. mbox["Status"] \in Seq(K.messages["Status"])
      BY ActorAssumption DEF SessionOK
    <2>2. NoneIn(mbox["Status"], Q)
      BY <1>2 DEF NoneIn
    <2> HIDE DEF Q
    <2> QED
      BY <2>1, <2>2, SeqWithout
  <1>4. \A b \in Actor : mbox[b] \in Seq(A.messages[b])
    BY <1>1, <1>3 DEF SessionOK
  <1>5. BagToSet(timers) \subseteq A.timers
    BY <1>1, <1>2 DEF SessionOK, NoneInBag
  <1>6. BagToSet(asking) \subseteq A.tasks
    BY <1>1, <1>2 DEF SessionOK, NoneInBag
  <1>7. BagToSet(answered) \subseteq [task : A.tasks, answer : Answer]
    <2>1. ASSUME NEW r \in BagToSet(answered)
          PROVE  r \in [task : A.tasks, answer : Answer]
      <3>1. r \in [task : K.tasks, answer : Answer] /\ r \notin AnswersFor(K, a, S)
        BY DEF SessionOK, NoneInBag
      <3>2. r.task \notin O
        BY <1>2, <3>1 DEF AnswersFor
      <3>3. r.task \in K.tasks \ O /\ r.answer \in Answer /\ r = [task |-> r.task, answer |-> r.answer]
        BY <3>1, <3>2
      <3> HIDE DEF O
      <3> QED
        BY <1>1, <3>3
    <2> QED
      BY <2>1
  <1>8. /\ DOMAIN mbox = Actor /\ alive \subseteq Actor
        /\ BagToSet(resends) \subseteq A.resends
        /\ packetStatus \in [Id -> A.payload \cup {NoStatus}]
        /\ toBroker \in Seq(A.client) /\ fromBroker \in Seq(A.server)
    BY <1>1 DEF SessionOK
  <1> HIDE DEF A
  <1>9. SessionOK(A)
    BY <1>4, <1>5, <1>6, <1>7, <1>8 DEF SessionOK
  <1> QED
    BY <1>9 DEF A

\* The packet is on its way, and nothing of S is left but the check of its status.
LEMMA AttemptHeld ==
    ASSUME NEW K, SessionOK(K), Wired(K), StatusApart(K), NEW a, NEW S, Followed(K, a, S),
           NEW box, BoxesOK(K, box), box["Status"] = mbox["Status"], AbsentWith(box, K, a, S),
           NEW op, NEW packet, NEW check, NEW retry,
           op \in K.messages["Status"], op.op \in {"Set", "Remove"},
           VariablePacketMessage(packet) \in K.messages["Send"],
           check \in K.timers, [to |-> a, msg |-> retry] \in K.resends,
           SetSendSchedule(box, a, op, packet, check, retry), Accepts("Status"), Accepts("Send"),
           alive' \subseteq Actor,
           UNCHANGED <<packetStatus, asking, answered, wireVars>>
    PROVE  HeldTo(K, a, S, check.id)'
  <1> DEFINE set == Post(box, "Status", op)
             new == Post(set, "Send", VariablePacketMessage(packet))
             id == check.id
  <1>1. mbox' = new /\ timers' = BagAdd(timers, check) /\ UNCHANGED resends
    BY DEF SetSendSchedule
  <1>2. a \in Actor /\ a \notin {"Status", "Send"} /\ op \notin Asks(K, a, S)
    BY NotAsked DEF Followed
  <1>3. Silent(K, a, S)'
    <2>1. BoxKeeps(box, set, K, a, S) /\ BoxesOK(K, set)
      BY <1>2, PostKeeps, PostTyped
    <2> HIDE DEF set
    <2>2. BoxKeeps(set, new, K, a, S)
      BY <1>2, <2>1, PostKeeps
    <2>3. NoneIn(mbox'[a], S)
      BY <1>1, <2>1, <2>2 DEF BoxKeeps, AbsentWith
    <2>4. NoneInBag(answered', Granted(K, a, S))
      BY DEF AbsentWith, NoneInBag, Granted
    <2> QED
      BY <1>1, <2>3, <2>4 DEF Silent, AbsentWith
  <1>4. PICK A : A = AttemptK(K, a, S, id)
    OBVIOUS
  <1>5. /\ \A b \in Actor \ {"Status"} : A.messages[b] = K.messages[b]
        /\ A.messages["Status"] = K.messages["Status"] \ OtherAsks(K, a, S, id)
        /\ A.resends = K.resends
        /\ A.timers = K.timers \ OtherTasks(K, a, S, id)
    BY <1>4, AttemptFields
  <1>6. SessionOK(A) /\ Wired(A)
    BY <1>4, AttemptAlone, AttemptWired DEF AbsentWith
  <1>7. BoxesOK(A, box)
    <2>1. A.messages["Status"] = K.messages["Status"] \ OtherAsks(K, a, S, id)
      BY <1>5
    <2>2. box["Status"] \in Seq(A.messages["Status"])
      BY <1>6, ActorAssumption DEF SessionOK
    <2> QED
      BY <1>5, <2>2 DEF BoxesOK
  <1>8. /\ op \in A.messages["Status"]
        /\ VariablePacketMessage(packet) \in A.messages["Send"]
        /\ check \in A.timers
        /\ [to |-> a, msg |-> retry] \in A.resends
    <2>1. op \notin OtherAsks(K, a, S, id)
      BY DEF OtherAsks, GetAndRemovePacketStatus
    <2>2. check \notin OtherTasks(K, a, S, id)
      BY DEF OtherTasks
    <2> QED
      BY <1>5, <2>1, <2>2, ActorAssumption
  <1>9. /\ BoxesOK(A, mbox')
        /\ BagToSet(resends') \subseteq A.resends
        /\ BagToSet(timers') \subseteq A.timers
    BY <1>6, <1>7, <1>8, SetSendScheduleTyped
  <1>10. SessionOK(A)'
    BY <1>6, <1>9 DEF SessionOK, BoxesOK, wireVars
  <1> QED
    BY <1>3, <1>4, <1>10 DEF HeldTo

-----------------------------------------------------------------------------
(* What is there stays there: a step that takes no message of S anywhere. *)

LEMMA StaysThere ==
    /\ \A M : \A s \in Seq(M) : \A x, E : NoneIn(Append(s, x), E) => NoneIn(s, E)
    /\ \A M : \A s \in Seq(M) : \A E :
           s # <<>> /\ Head(s) \notin E /\ NoneIn(Tail(s), E) => NoneIn(s, E)
    /\ \A B, x, E : NoneInBag(BagAdd(B, x), E) => NoneInBag(B, E)
  <1>1. ASSUME NEW M, NEW s \in Seq(M), NEW x, NEW E, NoneIn(Append(s, x), E)
        PROVE  NoneIn(s, E)
    <2>1. DOMAIN Append(s, x) = 1 .. Len(s) + 1 /\ DOMAIN s = 1 .. Len(s) /\ Len(s) \in Nat
      BY AppendProperties, LenProperties
    <2>2. \A i \in 1 .. Len(s) : Append(s, x)[i] = s[i]
      BY AppendProperties
    <2> QED
      BY <1>1, <2>1, <2>2 DEF NoneIn
  <1>2. ASSUME NEW M, NEW s \in Seq(M), NEW E, s # <<>>, Head(s) \notin E, NoneIn(Tail(s), E)
        PROVE  NoneIn(s, E)
    <2>1. /\ DOMAIN s = 1 .. Len(s) /\ Len(s) \in Nat /\ Len(s) # 0 /\ Head(s) = s[1]
          /\ DOMAIN Tail(s) = 1 .. Len(s) - 1
          /\ \A i \in 1 .. Len(s) - 1 : Tail(s)[i] = s[i + 1]
      BY <1>2, HeadTailProperties, LenProperties, EmptySeq
    <2>2. ASSUME NEW i \in 1 .. Len(s) PROVE s[i] \notin E
      <3>1. CASE i = 1
        BY <1>2, <2>1, <3>1
      <3>2. CASE i # 1
        <4>1. i - 1 \in 1 .. Len(s) - 1 /\ (i - 1) + 1 = i
          BY <2>1, <3>2
        <4> QED
          BY <1>2, <2>1, <4>1 DEF NoneIn
      <3> QED
        BY <3>1, <3>2
    <2> QED
      BY <2>1, <2>2 DEF NoneIn
  <1>3. ASSUME NEW B, NEW x, NEW E, NoneInBag(BagAdd(B, x), E)
        PROVE  NoneInBag(B, E)
    BY <1>3, BagAddElements DEF NoneInBag
  <1> QED
    BY <1>1, <1>2, <1>3

\* A message of S that is handled makes another one.
LEMMA PostNext ==
    ASSUME NEW K, SessionOK(K), NEW a, NEW S, Followed(K, a, S), NEW box, BoxesOK(K, box),
           AbsentWith(box, K, a, S), NEW msg,
           mbox' = Post(box, a, msg), UNCHANGED <<resends, timers, asking, answered>>
    PROVE  AtMostOne(K, a, S)'
  <1>1. /\ a \in Actor \ {"Status"} /\ "Status" \in Actor
        /\ box[a] \in Seq(K.messages[a]) /\ DOMAIN box = Actor
        /\ NoneIn(box[a], S)
    BY ActorAssumption DEF Followed, BoxesOK, AbsentWith
  <1>2. mbox'["Status"] = box["Status"] /\ mbox'[a] \in {box[a], Append(box[a], msg)}
    BY <1>1 DEF Post
  <1>3. OnceIn(mbox'[a], S)
    <2>1. OnceIn(box[a], S)
      BY <1>1 DEF NoneIn, OnceIn
    <2> QED
      BY <1>1, <1>2, <2>1, NoneInAppend
  <1>4. NoneIn(mbox'["Status"], Asks(K, a, S)) /\ OnceIn(mbox'["Status"], Asks(K, a, S))
    BY <1>2 DEF AbsentWith, NoneIn, OnceIn
  <1>5. NoneButAt("mailbox", K, a, S)'
    BY <1>4 DEF AbsentWith, NoneButAt
  <1>6. OnceEverywhere(K, a, S)'
    BY <1>3, <1>4 DEF AbsentWith, OnceEverywhere, NoneInBag, OnceInBag
  <1> QED
    BY <1>5, <1>6 DEF AtMostOne, Place

-----------------------------------------------------------------------------
(* Counting what is on its way.  w[a][m] is the weight of message m in the  *)
(* mailbox of actor a: how often something may still be done because of it. *)
(* A resend, a task and a packet from the server weigh as much as the       *)
(* message they will become.  The lemmas say that no step of Session makes  *)
(* the total heavier.                                                      *)

\* One token for every unit of weight, in mailboxes and in a bag.
BoxTokens(box, w) ==
    {t \in [at : DOMAIN box, place : Nat, nr : Nat] :
        t.place \in DOMAIN box[t.at] /\ t.nr \in 1 .. w[t.at][box[t.at][t.place]]}
BagTokens(B, v) ==
    {t \in [at : DOMAIN B, place : Nat, nr : Nat] :
        t.place \in 1 .. B[t.at] /\ t.nr \in 1 .. v[t.at]}

\* The tokens of one message.
Token(e, n, i) == [at |-> e, place |-> n, nr |-> i]
Block(e, n, k) == [at : {e}, place : {n}, nr : 1 .. k]

\* A set that another one has room for.
LEMMA InjectedFinite ==
    ASSUME NEW S, NEW T, IsFiniteSet(T), NEW f, \A x \in S : f[x] \in T,
           \A x, y \in S : f[x] = f[y] => x = y
    PROVE  IsFiniteSet(S)
  <1>1. CASE S = {}
    BY <1>1, FS_EmptySet
  <1>2. CASE S # {}
    <2>1. PICK s0 : s0 \in S
      BY <1>2
    <2>2. PICK q \in Seq(T) : \A t \in T : \E n \in 1 .. Len(q) : q[n] = t
      BY DEF IsFiniteSet
    <2> DEFINE g(t) == IF \E s \in S : f[s] = t THEN CHOOSE s \in S : f[s] = t ELSE s0
               p == [n \in 1 .. Len(q) |-> g(q[n])]
    <2>3. \A t : g(t) \in S
      BY <2>1
    <2>4. \A s \in S : g(f[s]) = s
      OBVIOUS
    <2>5. Len(q) \in Nat
      BY <2>2
    <2> HIDE DEF g
    <2>6. p \in Seq(S) /\ Len(p) = Len(q)
      BY <2>3, <2>5
    <2>7. \A s \in S : \E n \in 1 .. Len(p) : p[n] = s
      <3> TAKE s \in S
      <3>1. PICK n \in 1 .. Len(q) : q[n] = f[s]
        BY <2>2
      <3>2. p[n] = s
        BY <2>4, <3>1
      <3> QED
        BY <2>6, <3>2
    <2> QED
      BY <2>6, <2>7 DEF IsFiniteSet
  <1> QED
    BY <1>1, <1>2

LEMMA Injected ==
    ASSUME NEW S, NEW T, IsFiniteSet(T), NEW f, \A x \in S : f[x] \in T,
           \A x, y \in S : f[x] = f[y] => x = y
    PROVE  /\ IsFiniteSet(S)
           /\ Cardinality(S) \in Nat /\ Cardinality(T) \in Nat
           /\ Cardinality(S) <= Cardinality(T)
  <1>1. IsFiniteSet(S)
    BY InjectedFinite
  <1>2. Cardinality(S) \in Nat /\ Cardinality(T) \in Nat
    BY <1>1, FS_CardinalityType
  <1>3. ASSUME Cardinality(T) < Cardinality(S) PROVE FALSE
    <2> DEFINE g == [x \in S |-> f[x]]
    <2>1. g \in [S -> T]
      OBVIOUS
    <2>2. \A x, y \in S : g[x] = g[y] => x = y
      OBVIOUS
    <2> HIDE DEF g
    <2>3. \E x, y \in S : x # y /\ g[x] = g[y]
      BY <1>1, <1>3, <2>1, FS_PigeonHole
    <2> QED
      BY <2>2, <2>3
  <1> QED
    BY <1>1, <1>2, <1>3

LEMMA BlockSize ==
    ASSUME NEW e, NEW n, NEW k \in Nat
    PROVE  IsFiniteSet(Block(e, n, k)) /\ Cardinality(Block(e, n, k)) = k
  <1> DEFINE X == Block(e, n, k)
             f == [i \in 1 .. k |-> Token(e, n, i)]
             g == [t \in X |-> t.nr]
  <1>1. /\ \A i \in 1 .. k : f[i] \in X
        /\ \A i, j \in 1 .. k : f[i] = f[j] => i = j
        /\ \A t \in X : g[t] \in 1 .. k
        /\ \A t, u \in X : g[t] = g[u] => t = u
    BY DEF Block, Token
  <1>2. IsFiniteSet(1 .. k) /\ Cardinality(1 .. k) = k
    BY FS_Interval
  <1> HIDE DEF f, g, X
  <1>3. IsFiniteSet(X) /\ Cardinality(X) \in Nat /\ Cardinality(X) <= k
    BY <1>1, <1>2, Injected
  <1>4. k <= Cardinality(X)
    BY <1>1, <1>2, <1>3, Injected
  <1>5. IsFiniteSet(X) /\ Cardinality(X) = k
    BY <1>3, <1>4
  <1> QED
    BY <1>5 DEF X

LEMMA FewerTokens ==
    ASSUME NEW S, IsFiniteSet(S), NEW T, T \subseteq S
    PROVE  /\ IsFiniteSet(T)
           /\ Cardinality(T) \in Nat /\ Cardinality(S) \in Nat
           /\ Cardinality(T) <= Cardinality(S)
  BY FS_Subset, FS_CardinalityType

\* At most the tokens of S and those of one message more.
LEMMA BlockAdded ==
    ASSUME NEW S, IsFiniteSet(S), NEW e, NEW n, NEW k \in Nat, NEW T, T \subseteq S \cup Block(e, n, k)
    PROVE  /\ IsFiniteSet(T)
           /\ Cardinality(T) \in Nat /\ Cardinality(S) \in Nat
           /\ Cardinality(T) <= Cardinality(S) + k
  <1> DEFINE X == Block(e, n, k)
  <1>1. IsFiniteSet(X) /\ Cardinality(X) = k
    BY BlockSize
  <1>2. T \subseteq S \cup X
    OBVIOUS
  <1> HIDE DEF X
  <1>3. /\ IsFiniteSet(S \cup X)
        /\ Cardinality(S \cup X) = Cardinality(S) + Cardinality(X) - Cardinality(S \cap X)
    BY <1>1, FS_Union
  <1>4. IsFiniteSet(S \cap X) /\ Cardinality(S \cap X) \in Nat /\ Cardinality(S) \in Nat
    BY FS_Intersection, FS_CardinalityType
  <1>5. Cardinality(S \cup X) <= Cardinality(S) + k
    BY <1>1, <1>3, <1>4
  <1>6. IsFiniteSet(T) /\ Cardinality(T) \in Nat /\ Cardinality(T) <= Cardinality(S \cup X)
        /\ Cardinality(S \cup X) \in Nat
    BY <1>2, <1>3, FewerTokens
  <1> QED
    BY <1>4, <1>5, <1>6

\* The tokens of S have room for those of T and of one message of S.
LEMMA BlockRemoved ==
    ASSUME NEW S, IsFiniteSet(S), NEW e, NEW n, NEW k \in Nat, Block(e, n, k) \subseteq S,
           NEW T, NEW f, \A x \in T : f[x] \in S \ Block(e, n, k),
           \A x, y \in T : f[x] = f[y] => x = y
    PROVE  /\ IsFiniteSet(T)
           /\ Cardinality(T) \in Nat /\ Cardinality(S) \in Nat
           /\ Cardinality(T) + k <= Cardinality(S)
  <1> DEFINE X == Block(e, n, k)
             R == S \ X
  <1>1. IsFiniteSet(X) /\ Cardinality(X) = k
    BY BlockSize
  <1>2. /\ \A x \in T : f[x] \in R
        /\ X \subseteq S /\ S \cap X = X
    OBVIOUS
  <1>3. IsFiniteSet(R) /\ Cardinality(R) = Cardinality(S) - Cardinality(S \cap X)
    BY FS_Difference
  <1> HIDE DEF X, R
  <1>4. IsFiniteSet(T) /\ Cardinality(T) \in Nat /\ Cardinality(T) <= Cardinality(R)
    BY <1>2, <1>3, Injected
  <1>5. Cardinality(S) \in Nat
    BY FS_CardinalityType
  <1>6. Cardinality(S \cap X) = k
    BY <1>1, <1>2
  <1> QED
    BY <1>3, <1>4, <1>5, <1>6

LEMMA AppendTokens ==
    ASSUME NEW box, NEW w, NEW b \in DOMAIN box, NEW M, box[b] \in Seq(M), NEW m, w[b][m] \in Nat,
           IsFiniteSet(BoxTokens(box, w))
    PROVE  LET T == BoxTokens([box EXCEPT ![b] = Append(@, m)], w)
           IN  /\ IsFiniteSet(T)
               /\ Cardinality(T) \in Nat /\ Cardinality(BoxTokens(box, w)) \in Nat
               /\ Cardinality(T) <= Cardinality(BoxTokens(box, w)) + w[b][m]
  <1> DEFINE new == [box EXCEPT ![b] = Append(@, m)]
             n   == Len(box[b]) + 1
  <1>1. DOMAIN new = DOMAIN box /\ \A c \in DOMAIN box : new[c] = IF c = b THEN Append(box[b], m) ELSE box[c]
    OBVIOUS
  <1>2. /\ DOMAIN Append(box[b], m) = 1 .. n /\ DOMAIN box[b] = 1 .. n - 1 /\ n \in Nat
        /\ \A i \in 1 .. n : Append(box[b], m)[i] = IF i = n THEN m ELSE box[b][i]
    BY AppendProperties, LenProperties
  <1> HIDE DEF new, n
  <1>3. ASSUME NEW t \in BoxTokens(new, w)
        PROVE  t \in BoxTokens(box, w) \cup Block(b, n, w[b][m])
    <2>1. PICK c \in DOMAIN box, i \in Nat, j \in Nat :
              t = Token(c, i, j) /\ i \in DOMAIN new[c] /\ j \in 1 .. w[c][new[c][i]]
      BY <1>1, <1>3 DEF BoxTokens, Token
    <2>2. CASE c = b /\ i = n
      BY <1>1, <1>2, <2>1, <2>2 DEF Block, Token
    <2>3. CASE ~(c = b /\ i = n)
      <3>1. i \in DOMAIN box[c] /\ new[c][i] = box[c][i]
        BY <1>1, <1>2, <2>1, <2>3
      <3> QED
        BY <2>1, <3>1 DEF BoxTokens, Token
    <2> QED
      BY <2>2, <2>3
  <1>4. BoxTokens(new, w) \subseteq BoxTokens(box, w) \cup Block(b, n, w[b][m])
    BY <1>3
  <1>5. /\ IsFiniteSet(BoxTokens(new, w))
        /\ Cardinality(BoxTokens(new, w)) \in Nat /\ Cardinality(BoxTokens(box, w)) \in Nat
        /\ Cardinality(BoxTokens(new, w)) <= Cardinality(BoxTokens(box, w)) + w[b][m]
    BY <1>4, BlockAdded
  <1> QED
    BY <1>5 DEF new

LEMMA TailTokens ==
    ASSUME NEW box, NEW w, NEW b \in DOMAIN box, NEW M, box[b] \in Seq(M), box[b] # <<>>,
           w[b][Head(box[b])] \in Nat, IsFiniteSet(BoxTokens(box, w))
    PROVE  LET T == BoxTokens([box EXCEPT ![b] = Tail(@)], w)
           IN  /\ IsFiniteSet(T)
               /\ Cardinality(T) \in Nat /\ Cardinality(BoxTokens(box, w)) \in Nat
               /\ Cardinality(T) + w[b][Head(box[b])] <= Cardinality(BoxTokens(box, w))
  <1> DEFINE new == [box EXCEPT ![b] = Tail(@)]
             k   == w[b][Head(box[b])]
             S   == BoxTokens(box, w)
             T   == BoxTokens(new, w)
             X   == Block(b, 1, k)
             f   == [t \in T |-> IF t.at = b THEN Token(b, t.place + 1, t.nr) ELSE t]
  <1>1. DOMAIN new = DOMAIN box /\ \A c \in DOMAIN box : new[c] = IF c = b THEN Tail(box[b]) ELSE box[c]
    OBVIOUS
  <1>2. /\ Head(box[b]) = box[b][1] /\ 1 \in DOMAIN box[b]
        /\ \A i \in DOMAIN Tail(box[b]) : i + 1 \in DOMAIN box[b] /\ Tail(box[b])[i] = box[b][i + 1] /\ i # 0
    BY HeadTailProperties, LenProperties, EmptySeq
  <1> HIDE DEF new
  <1>3. ASSUME NEW t \in T
        PROVE  \E c \in DOMAIN box, i \in Nat, j \in Nat :
                   t = Token(c, i, j) /\ i \in DOMAIN new[c] /\ j \in 1 .. w[c][new[c][i]]
    BY <1>1, <1>3 DEF BoxTokens, Token
  <1>4. ASSUME NEW t \in T
        PROVE  f[t] \in S \ X
    <2>1. PICK c \in DOMAIN box, i \in Nat, j \in Nat :
              t = Token(c, i, j) /\ i \in DOMAIN new[c] /\ j \in 1 .. w[c][new[c][i]]
      BY <1>3
    <2>2. CASE c = b
      <3>1. f[t] = Token(b, i + 1, j)
        BY <2>1, <2>2 DEF Token
      <3>2. i + 1 \in DOMAIN box[b] /\ new[b][i] = box[b][i + 1] /\ i + 1 # 1 /\ i + 1 \in Nat
        BY <1>1, <1>2, <2>1, <2>2
      <3>3. Token(b, i + 1, j) \in S
        BY <2>1, <2>2, <3>2 DEF BoxTokens, Token
      <3>4. Token(b, i + 1, j) \notin X
        BY <3>2 DEF Block, Token
      <3> QED
        BY <3>1, <3>3, <3>4
    <2>3. CASE c # b
      <3>1. f[t] = Token(c, i, j)
        BY <2>1, <2>3 DEF Token
      <3>2. Token(c, i, j) \in S
        BY <1>1, <2>1, <2>3 DEF BoxTokens, Token
      <3>3. Token(c, i, j) \notin X
        BY <2>3 DEF Block, Token
      <3> QED
        BY <3>1, <3>2, <3>3
    <2> QED
      BY <2>2, <2>3
  <1>5. ASSUME NEW s \in T, NEW t \in T, f[s] = f[t]
        PROVE  s = t
    <2>1. PICK c \in DOMAIN box, i \in Nat, j \in Nat : s = Token(c, i, j)
      BY <1>3
    <2>2. PICK d \in DOMAIN box, p \in Nat, q \in Nat : t = Token(d, p, q)
      BY <1>3
    <2>3. /\ f[s] = IF c = b THEN Token(b, i + 1, j) ELSE Token(c, i, j)
          /\ f[t] = IF d = b THEN Token(b, p + 1, q) ELSE Token(d, p, q)
      BY <2>1, <2>2 DEF Token
    <2> QED
      BY <1>5, <2>1, <2>2, <2>3 DEF Token
  <1>6. /\ \A t \in T : f[t] \in S \ X
        /\ \A s, t \in T : f[s] = f[t] => s = t
    BY <1>4, <1>5
  <1>7. X \subseteq S
    BY <1>2 DEF BoxTokens, Token, Block
  <1> HIDE DEF f, S, T, k
  <1>8. IsFiniteSet(S) /\ k \in Nat
    BY DEF S, k
  <1>9. /\ IsFiniteSet(T)
        /\ Cardinality(T) \in Nat /\ Cardinality(S) \in Nat
        /\ Cardinality(T) + k <= Cardinality(S)
    BY <1>6, <1>7, <1>8, BlockRemoved
  <1> QED
    BY <1>9 DEF T, S, k, new

\* A message without weight brings no tokens, and one that is gone has none.
LEMMA PaddedTokens ==
    ASSUME NEW box, NEW new, NEW w, DOMAIN new = DOMAIN box,
           \A b \in DOMAIN box :
               \/ new[b] \in {box[b], <<>>}
               \/ \E M : box[b] \in Seq(M) /\ \E m : w[b][m] = 0 /\ new[b] = Append(box[b], m),
           IsFiniteSet(BoxTokens(box, w))
    PROVE  /\ IsFiniteSet(BoxTokens(new, w))
           /\ Cardinality(BoxTokens(new, w)) \in Nat /\ Cardinality(BoxTokens(box, w)) \in Nat
           /\ Cardinality(BoxTokens(new, w)) <= Cardinality(BoxTokens(box, w))
  <1>1. ASSUME NEW t \in BoxTokens(new, w)
        PROVE  t \in BoxTokens(box, w)
    <2>1. PICK c \in DOMAIN box, i \in Nat, j \in Nat :
              t = Token(c, i, j) /\ i \in DOMAIN new[c] /\ j \in 1 .. w[c][new[c][i]]
      BY DEF BoxTokens, Token
    <2>2. i \in DOMAIN box[c] /\ new[c][i] = box[c][i]
      <3>1. CASE new[c] \in {box[c], <<>>}
        BY <2>1, <3>1
      <3>2. CASE \E M : box[c] \in Seq(M) /\ \E m : w[c][m] = 0 /\ new[c] = Append(box[c], m)
        <4>1. PICK M, m : box[c] \in Seq(M) /\ w[c][m] = 0 /\ new[c] = Append(box[c], m)
          BY <3>2
        <4>2. /\ DOMAIN new[c] = 1 .. Len(box[c]) + 1 /\ DOMAIN box[c] = 1 .. Len(box[c]) /\ Len(box[c]) \in Nat
              /\ \A n \in 1 .. Len(box[c]) + 1 : new[c][n] = IF n = Len(box[c]) + 1 THEN m ELSE box[c][n]
          BY <4>1, AppendProperties, LenProperties
        <4>3. i # Len(box[c]) + 1
          BY <2>1, <4>1, <4>2
        <4> QED
          BY <2>1, <4>2, <4>3
      <3> QED
        BY <3>1, <3>2
    <2> QED
      BY <2>1, <2>2 DEF BoxTokens, Token
  <1> QED
    BY <1>1, FewerTokens

\* A bag can be counted where its elements have weight.
Countable(B, v) ==
    /\ IsFiniteSet(BagTokens(B, v))
    /\ \A e \in BagToSet(B) : v[e] # 0 => B[e] \in Nat \ {0}

BagLoad(B, v) == Cardinality(BagTokens(B, v))

LEMMA BagAddTokens ==
    ASSUME NEW B, NEW v, Countable(B, v), NEW x, v[x] \in Nat
    PROVE  /\ Countable(BagAdd(B, x), v)
           /\ BagLoad(BagAdd(B, x), v) \in Nat /\ BagLoad(B, v) \in Nat
           /\ BagLoad(BagAdd(B, x), v) <= BagLoad(B, v) + v[x]
  <1> DEFINE C == BagAdd(B, x)
             n == IF x \in DOMAIN B THEN B[x] + 1 ELSE 1
  <1>1. /\ DOMAIN C = DOMAIN B \cup {x}
        /\ \A e \in DOMAIN C : C[e] = IF e = x THEN n ELSE B[e]
    BY DEF BagAdd
  <1>2. v[x] # 0 => n \in Nat /\ n # 0
    BY DEF Countable, BagToSet
  <1>3. \A e \in BagToSet(C) : v[e] # 0 => C[e] \in Nat \ {0}
    BY <1>1, <1>2 DEF Countable, BagToSet
  <1>4. v[x] # 0 => (x \notin DOMAIN B /\ n = 1) \/ (x \in DOMAIN B /\ B[x] \in Nat /\ n = B[x] + 1)
    BY DEF Countable, BagToSet
  <1> HIDE DEF C, n
  <1>5. ASSUME NEW t \in BagTokens(C, v)
        PROVE  t \in BagTokens(B, v) \cup Block(x, n, v[x])
    <2>1. PICK e \in DOMAIN C, i \in Nat, j \in Nat :
              t = Token(e, i, j) /\ i \in 1 .. C[e] /\ j \in 1 .. v[e]
      BY DEF BagTokens, Token
    <2>2. CASE e # x
      BY <1>1, <2>1, <2>2 DEF BagTokens, Token
    <2>3. CASE e = x
      <3>1. v[x] # 0 /\ i \in 1 .. n
        BY <1>1, <2>1, <2>3
      <3>2. CASE i = n
        BY <2>1, <2>3, <3>2 DEF Block, Token
      <3>3. CASE i # n
        <4>1. x \in DOMAIN B /\ i \in 1 .. B[x]
          BY <1>2, <1>4, <3>1, <3>3
        <4> QED
          BY <2>1, <2>3, <4>1 DEF BagTokens, Token
      <3> QED
        BY <3>2, <3>3
    <2> QED
      BY <2>2, <2>3
  <1>6. IsFiniteSet(BagTokens(B, v)) /\ BagTokens(C, v) \subseteq BagTokens(B, v) \cup Block(x, n, v[x])
    BY <1>5 DEF Countable
  <1>7. /\ IsFiniteSet(BagTokens(C, v))
        /\ BagLoad(C, v) \in Nat /\ BagLoad(B, v) \in Nat
        /\ BagLoad(C, v) <= BagLoad(B, v) + v[x]
    BY <1>6, BlockAdded DEF BagLoad
  <1> QED
    BY <1>3, <1>7 DEF C, Countable

LEMMA BagRemoveTokens ==
    ASSUME NEW B, NEW v, Countable(B, v), NEW x \in BagToSet(B), v[x] \in Nat
    PROVE  /\ Countable(BagRemove(B, x), v)
           /\ BagLoad(BagRemove(B, x), v) \in Nat /\ BagLoad(B, v) \in Nat
           /\ BagLoad(BagRemove(B, x), v) + v[x] <= BagLoad(B, v)
  <1> DEFINE C == BagRemove(B, x)
             X == IF v[x] = 0 THEN {} ELSE Block(x, B[x], v[x])
  <1>1. /\ x \in DOMAIN B /\ DOMAIN C \subseteq DOMAIN B
        /\ \A e \in DOMAIN C : C[e] = IF e = x THEN B[x] - 1 ELSE B[e]
        /\ x \in DOMAIN C => B[x] # 1
    BY DEF BagRemove, BagToSet
  <1>2. v[x] # 0 => B[x] \in Nat \ {0}
    BY DEF Countable
  <1>3. \A e \in BagToSet(C) : v[e] # 0 => C[e] \in Nat \ {0}
    BY <1>1, <1>2 DEF Countable, BagToSet
  <1>4. Block(x, B[x], v[x]) \subseteq BagTokens(B, v)
    <2>1. CASE v[x] = 0
      BY <2>1 DEF Block
    <2>2. CASE v[x] # 0
      BY <1>1, <1>2, <2>2 DEF BagTokens, Block, Token
    <2> QED
      BY <2>1, <2>2
  <1> HIDE DEF C
  <1> DEFINE f == [t \in BagTokens(C, v) |-> t]
  <1>5. ASSUME NEW t \in BagTokens(C, v)
        PROVE  f[t] \in BagTokens(B, v) \ Block(x, B[x], v[x])
    <2>1. PICK e \in DOMAIN C, i \in Nat, j \in Nat :
              t = Token(e, i, j) /\ i \in 1 .. C[e] /\ j \in 1 .. v[e]
      BY DEF BagTokens, Token
    <2>2. f[t] = Token(e, i, j)
      BY <2>1
    <2> HIDE DEF f
    <2>3. CASE e # x
      BY <1>1, <2>1, <2>2, <2>3 DEF BagTokens, Block, Token
    <2>4. CASE e = x
      <3>1. v[x] # 0 /\ i \in 1 .. B[x] - 1 /\ x \in DOMAIN B
        BY <1>1, <2>1, <2>4
      <3>2. i \in 1 .. B[x] /\ i # B[x]
        BY <1>2, <3>1
      <3> QED
        BY <2>1, <2>2, <2>4, <3>1, <3>2 DEF BagTokens, Block, Token
    <2> QED
      BY <2>3, <2>4
  <1>6. \A s, t \in BagTokens(C, v) : f[s] = f[t] => s = t
    OBVIOUS
  <1> HIDE DEF f
  <1>7. /\ IsFiniteSet(BagTokens(C, v))
        /\ BagLoad(C, v) \in Nat /\ BagLoad(B, v) \in Nat
        /\ BagLoad(C, v) + v[x] <= BagLoad(B, v)
    BY <1>4, <1>5, <1>6, BlockRemoved DEF BagLoad, Countable
  <1> QED
    BY <1>3, <1>7 DEF C, Countable

\* A bag that has of no element with weight more than B.
LEMMA FewerInBag ==
    ASSUME NEW B, NEW v, Countable(B, v), NEW C,
           \A e \in BagToSet(C) : v[e] = 0 \/ (e \in BagToSet(B) /\ C[e] = B[e])
    PROVE  /\ Countable(C, v)
           /\ BagLoad(C, v) \in Nat /\ BagLoad(B, v) \in Nat
           /\ BagLoad(C, v) <= BagLoad(B, v)
  <1>1. BagTokens(C, v) \subseteq BagTokens(B, v)
    BY DEF BagTokens, BagToSet
  <1>2. \A e \in BagToSet(C) : v[e] # 0 => C[e] \in Nat \ {0}
    BY DEF Countable
  <1> QED
    BY <1>1, <1>2, FewerTokens DEF Countable, BagLoad

-----------------------------------------------------------------------------
(* The load of a session. *)

Wire(s) == [c \in {"wire"} |-> s]

TaskWeight(K, w)   == [t \in K.tasks |-> w["Status"][GetAndRemovePacketStatus(t)]]
ResendWeight(K, w) == [r \in K.resends |-> w[r.to][r.msg]]
AnswerWeight(K, w) ==
    [r \in [task : K.tasks, answer : Answer] |->
        IF r.answer = "Closed" THEN 0 ELSE w["Status"][GetAndRemovePacketStatus(r.task)]]
WireWeight(K, w) ==
    [c \in {"wire"} |-> [packet \in K.server |-> w["Dispatch"][VariablePacketMessage(packet)]]]

\* No message weighs more than the one it comes from.
Weighed(K, w) ==
    /\ \A r \in K.resends : r.to \in Actor
    /\ \A a \in Actor : \A m \in K.messages[a] : w[a][m] \in Nat
    /\ \A a \in Actor : w[a][StopMessage] = 0
    /\ \A a \in SendStatusRecipient : \A f \in BOOLEAN :
           w[a][[type |-> "PacketSendStatus", finished |-> f]] = 0
    /\ \A t \in K.tasks : "Closed" \notin t.expect
    /\ \A t \in K.tasks :
           t.kind = "check" => w[t.actor][t.msg] <= w["Status"][GetAndRemovePacketStatus(t)]
    /\ \A msg \in K.messages["Dispatch"] :
           msg.type = "Packet" =>
               w[Target[msg.packet.type]][PacketMessage(msg.packet, 0)] <= w["Dispatch"][msg]

BoxCountable(box, w) == IsFiniteSet(BoxTokens(box, w))
BoxLoad(box, w)      == Cardinality(BoxTokens(box, w))

Counted(K, w) ==
    /\ BoxCountable(mbox, w)
    /\ BoxCountable(Wire(fromBroker), WireWeight(K, w))
    /\ Countable(resends, ResendWeight(K, w))
    /\ Countable(timers, TaskWeight(K, w))
    /\ Countable(asking, TaskWeight(K, w))
    /\ Countable(answered, AnswerWeight(K, w))

Load(K, w) ==
    BoxLoad(mbox, w) + BoxLoad(Wire(fromBroker), WireWeight(K, w))
    + BagLoad(resends, ResendWeight(K, w)) + BagLoad(timers, TaskWeight(K, w))
    + BagLoad(asking, TaskWeight(K, w)) + BagLoad(answered, AnswerWeight(K, w))

\* What every step of a session does to the load.
Lightens(K, w) == Counted(K, w)' /\ Load(K, w)' <= Load(K, w)

LEMMA LoadsAreNat ==
    ASSUME NEW K, NEW w, Counted(K, w)
    PROVE  /\ BoxLoad(mbox, w) \in Nat
           /\ BoxLoad(Wire(fromBroker), WireWeight(K, w)) \in Nat
           /\ BagLoad(resends, ResendWeight(K, w)) \in Nat
           /\ BagLoad(timers, TaskWeight(K, w)) \in Nat
           /\ BagLoad(asking, TaskWeight(K, w)) \in Nat
           /\ BagLoad(answered, AnswerWeight(K, w)) \in Nat
           /\ Load(K, w) \in Nat
  <1>1. /\ BoxLoad(mbox, w) \in Nat
        /\ BoxLoad(Wire(fromBroker), WireWeight(K, w)) \in Nat
        /\ BagLoad(resends, ResendWeight(K, w)) \in Nat
        /\ BagLoad(timers, TaskWeight(K, w)) \in Nat
        /\ BagLoad(asking, TaskWeight(K, w)) \in Nat
        /\ BagLoad(answered, AnswerWeight(K, w)) \in Nat
    BY FS_CardinalityType DEF Counted, BoxCountable, BoxLoad, Countable, BagLoad
  <1> QED
    BY <1>1 DEF Load

\* Nothing is on its way when the client starts.
LEMMA InitLoad ==
    ASSUME NEW K, NEW w, SessionInit
    PROVE  Counted(K, w) /\ Load(K, w) = 0
  <1>1. /\ mbox = [a \in Actor |-> <<>>] /\ fromBroker = <<>>
        /\ resends = EmptyBag /\ timers = EmptyBag /\ asking = EmptyBag /\ answered = EmptyBag
    BY DEF SessionInit, ActorsInit, StatusInit, TransportInit
  <1>2. BoxTokens(mbox, w) = {} /\ BoxTokens(Wire(fromBroker), WireWeight(K, w)) = {}
    BY <1>1 DEF BoxTokens, Wire
  <1>3. DOMAIN EmptyBag = {}
    BY DEF EmptyBag, SetToBag
  <1>4. \A v : BagTokens(EmptyBag, v) = {} /\ BagToSet(EmptyBag) = {}
    BY <1>3 DEF BagTokens, BagToSet
  <1>5. \A v : Countable(EmptyBag, v) /\ BagLoad(EmptyBag, v) = 0
    BY <1>4, FS_EmptySet DEF Countable, BagLoad
  <1>6. /\ BoxCountable(mbox, w) /\ BoxLoad(mbox, w) = 0
        /\ BoxCountable(Wire(fromBroker), WireWeight(K, w))
        /\ BoxLoad(Wire(fromBroker), WireWeight(K, w)) = 0
    BY <1>2, FS_EmptySet DEF BoxCountable, BoxLoad
  <1> QED
    BY <1>1, <1>5, <1>6 DEF Counted, Load

LEMMA PostLoad ==
    ASSUME NEW K, SessionOK(K), NEW w, NEW box, BoxesOK(K, box), BoxCountable(box, w),
           NEW a, NEW m, NEW n \in Nat, a \in Actor => w[a][m] \in Nat /\ w[a][m] <= n
    PROVE  /\ BoxCountable(Post(box, a, m), w)
           /\ BoxLoad(Post(box, a, m), w) \in Nat /\ BoxLoad(box, w) \in Nat
           /\ BoxLoad(Post(box, a, m), w) <= BoxLoad(box, w) + n
  <1>1. CASE a \notin alive
    <2>1. BoxLoad(box, w) \in Nat
      BY FS_CardinalityType DEF BoxCountable, BoxLoad
    <2>2. Post(box, a, m) = box
      BY <1>1 DEF Post
    <2> QED
      BY <2>1, <2>2
  <1>2. CASE a \in alive
    <2>1. Post(box, a, m) = [box EXCEPT ![a] = Append(@, m)] /\ a \in Actor
      BY <1>2 DEF Post, SessionOK
    <2>2. a \in DOMAIN box /\ box[a] \in Seq(K.messages[a])
      BY <2>1 DEF BoxesOK
    <2>3. LET T == BoxTokens(Post(box, a, m), w)
          IN  /\ IsFiniteSet(T)
              /\ Cardinality(T) \in Nat /\ Cardinality(BoxTokens(box, w)) \in Nat
              /\ Cardinality(T) <= Cardinality(BoxTokens(box, w)) + w[a][m]
      BY <2>1, <2>2, AppendTokens DEF BoxCountable
    <2> QED
      BY <2>1, <2>3 DEF BoxCountable, BoxLoad
  <1> QED
    BY <1>1, <1>2

LEMMA PostNothing ==
    ASSUME NEW K, SessionOK(K), NEW w, NEW box, BoxesOK(K, box), BoxCountable(box, w),
           NEW a, NEW m, a \in Actor => w[a][m] = 0
    PROVE  /\ BoxCountable(Post(box, a, m), w)
           /\ BoxLoad(Post(box, a, m), w) \in Nat /\ BoxLoad(box, w) \in Nat
           /\ BoxLoad(Post(box, a, m), w) <= BoxLoad(box, w)
  <1>1. 0 \in Nat /\ (a \in Actor => w[a][m] \in Nat /\ w[a][m] <= 0)
    OBVIOUS
  <1>2. /\ BoxCountable(Post(box, a, m), w)
        /\ BoxLoad(Post(box, a, m), w) \in Nat /\ BoxLoad(box, w) \in Nat
        /\ BoxLoad(Post(box, a, m), w) <= BoxLoad(box, w) + 0
    BY <1>1, PostLoad
  <1> QED
    BY <1>2

LEMMA PostStopLoad ==
    ASSUME NEW K, SessionOK(K), NEW w, Weighed(K, w), NEW box, BoxesOK(K, box), BoxCountable(box, w)
    PROVE  /\ BoxCountable(Post(box, "Stop", StopMessage), w)
           /\ BoxLoad(Post(box, "Stop", StopMessage), w) \in Nat /\ BoxLoad(box, w) \in Nat
           /\ BoxLoad(Post(box, "Stop", StopMessage), w) <= BoxLoad(box, w)
  BY PostNothing DEF Weighed

LEMMA TakeLoad ==
    ASSUME NEW K, SessionOK(K), NEW w, Weighed(K, w), BoxCountable(mbox, w), NEW a \in Actor, mbox[a] # <<>>
    PROVE  /\ BoxCountable(Take(a), w)
           /\ BoxLoad(Take(a), w) \in Nat /\ BoxLoad(mbox, w) \in Nat
           /\ w[a][Head(mbox[a])] \in Nat
           /\ BoxLoad(Take(a), w) + w[a][Head(mbox[a])] <= BoxLoad(mbox, w)
  <1>1. mbox[a] \in Seq(K.messages[a]) /\ a \in DOMAIN mbox
    BY DEF SessionOK
  <1>2. w[a][Head(mbox[a])] \in Nat
    BY <1>1, HeadTailProperties DEF Weighed
  <1>3. LET T == BoxTokens([mbox EXCEPT ![a] = Tail(@)], w)
        IN  /\ IsFiniteSet(T)
            /\ Cardinality(T) \in Nat /\ Cardinality(BoxTokens(mbox, w)) \in Nat
            /\ Cardinality(T) + w[a][Head(mbox[a])] <= Cardinality(BoxTokens(mbox, w))
    BY <1>1, <1>2, TailTokens DEF BoxCountable
  <1> QED
    BY <1>2, <1>3 DEF BoxCountable, BoxLoad, Take

LEMMA EmptiedLoad ==
    ASSUME NEW K, NEW w, NEW box, BoxesOK(K, box), BoxCountable(box, w), NEW a
    PROVE  /\ BoxCountable([box EXCEPT ![a] = <<>>], w)
           /\ BoxLoad([box EXCEPT ![a] = <<>>], w) \in Nat /\ BoxLoad(box, w) \in Nat
           /\ BoxLoad([box EXCEPT ![a] = <<>>], w) <= BoxLoad(box, w)
  <1> DEFINE new == [box EXCEPT ![a] = <<>>]
  <1>1. DOMAIN new = DOMAIN box /\ \A b \in DOMAIN box : new[b] \in {box[b], <<>>}
    OBVIOUS
  <1> HIDE DEF new
  <1>2. /\ BoxCountable(new, w)
        /\ BoxLoad(new, w) \in Nat /\ BoxLoad(box, w) \in Nat
        /\ BoxLoad(new, w) <= BoxLoad(box, w)
    BY <1>1, PaddedTokens DEF BoxCountable, BoxLoad
  <1> QED
    BY <1>2 DEF new

LEMMA TailOfWire ==
    ASSUME NEW v, NEW M, NEW s \in Seq(M), s # <<>>, v["wire"][Head(s)] \in Nat, BoxCountable(Wire(s), v)
    PROVE  /\ BoxCountable(Wire(Tail(s)), v)
           /\ BoxLoad(Wire(Tail(s)), v) \in Nat /\ BoxLoad(Wire(s), v) \in Nat
           /\ BoxLoad(Wire(Tail(s)), v) + v["wire"][Head(s)] <= BoxLoad(Wire(s), v)
  <1> DEFINE box == Wire(s)
  <1>1. "wire" \in DOMAIN box /\ box["wire"] = s
    BY DEF Wire
  <1>2. Wire(Tail(s)) = [box EXCEPT !["wire"] = Tail(@)]
    BY DEF Wire
  <1> HIDE DEF box
  <1>3. LET T == BoxTokens([box EXCEPT !["wire"] = Tail(@)], v)
        IN  /\ IsFiniteSet(T)
            /\ Cardinality(T) \in Nat /\ Cardinality(BoxTokens(box, v)) \in Nat
            /\ Cardinality(T) + v["wire"][Head(box["wire"])] <= Cardinality(BoxTokens(box, v))
    BY <1>1, TailTokens DEF BoxCountable, box
  <1> QED
    BY <1>1, <1>2, <1>3 DEF box, BoxCountable, BoxLoad

LEMMA AppendToWire ==
    ASSUME NEW v, NEW M, NEW s \in Seq(M), NEW p, v["wire"][p] \in Nat, BoxCountable(Wire(s), v)
    PROVE  /\ BoxCountable(Wire(Append(s, p)), v)
           /\ BoxLoad(Wire(Append(s, p)), v) \in Nat /\ BoxLoad(Wire(s), v) \in Nat
           /\ BoxLoad(Wire(Append(s, p)), v) <= BoxLoad(Wire(s), v) + v["wire"][p]
  <1> DEFINE box == Wire(s)
  <1>1. "wire" \in DOMAIN box /\ box["wire"] = s
    BY DEF Wire
  <1>2. Wire(Append(s, p)) = [box EXCEPT !["wire"] = Append(@, p)]
    BY DEF Wire
  <1> HIDE DEF box
  <1>3. LET T == BoxTokens([box EXCEPT !["wire"] = Append(@, p)], v)
        IN  /\ IsFiniteSet(T)
            /\ Cardinality(T) \in Nat /\ Cardinality(BoxTokens(box, v)) \in Nat
            /\ Cardinality(T) <= Cardinality(BoxTokens(box, v)) + v["wire"][p]
    BY <1>1, AppendTokens DEF BoxCountable, box
  <1> QED
    BY <1>2, <1>3 DEF box, BoxCountable, BoxLoad

LEMMA EmptiedWire ==
    ASSUME NEW v, NEW s, NEW t \in {s, <<>>}, BoxCountable(Wire(s), v)
    PROVE  /\ BoxCountable(Wire(t), v)
           /\ BoxLoad(Wire(t), v) \in Nat /\ BoxLoad(Wire(s), v) \in Nat
           /\ BoxLoad(Wire(t), v) <= BoxLoad(Wire(s), v)
  <1>1. BoxTokens(Wire(t), v) \subseteq BoxTokens(Wire(s), v)
    BY DEF BoxTokens, Wire
  <1> QED
    BY <1>1, FewerTokens DEF BoxCountable, BoxLoad

LEMMA SendErrorLoad ==
    ASSUME NEW K, SessionOK(K), NEW w, Weighed(K, w), NEW box, BoxesOK(K, box), BoxCountable(box, w),
           NEW target, HandleSendError(target, box)
    PROVE  /\ BoxCountable(mbox', w)
           /\ BoxLoad(mbox', w) \in Nat /\ BoxLoad(box, w) \in Nat
           /\ BoxLoad(mbox', w) <= BoxLoad(box, w)
  <1>1. BoxLoad(box, w) \in Nat
    BY FS_CardinalityType DEF BoxCountable, BoxLoad
  <1>2. mbox' = box \/ mbox' = Post(box, "Stop", StopMessage)
    BY DEF HandleSendError
  <1>3. CASE mbox' = box
    BY <1>1, <1>3
  <1>4. CASE mbox' = Post(box, "Stop", StopMessage)
    BY <1>4, PostStopLoad
  <1> QED
    BY <1>2, <1>3, <1>4

\* The weights of what is in the places of a session.
LEMMA WeightsAreNat ==
    ASSUME NEW K, Wired(K), NEW w, Weighed(K, w)
    PROVE  /\ \A r \in K.resends : /\ ResendWeight(K, w)[r] = w[r.to][r.msg]
                                   /\ ResendWeight(K, w)[r] \in Nat
           /\ \A t \in K.tasks : /\ TaskWeight(K, w)[t] = w["Status"][GetAndRemovePacketStatus(t)]
                                 /\ TaskWeight(K, w)[t] \in Nat
                                 /\ GetAndRemovePacketStatus(t) \in K.messages["Status"]
           /\ \A r \in [task : K.tasks, answer : Answer] :
                  /\ AnswerWeight(K, w)[r] = IF r.answer = "Closed" THEN 0 ELSE TaskWeight(K, w)[r.task]
                  /\ AnswerWeight(K, w)[r] \in Nat
  <1>1. "Status" \in Actor
    BY ActorAssumption
  <1>2. \A t \in K.tasks : /\ TaskWeight(K, w)[t] = w["Status"][GetAndRemovePacketStatus(t)]
                           /\ TaskWeight(K, w)[t] \in Nat
                           /\ GetAndRemovePacketStatus(t) \in K.messages["Status"]
    BY <1>1 DEF Wired, Weighed, TaskWeight
  <1>3. \A r \in K.resends : /\ ResendWeight(K, w)[r] = w[r.to][r.msg]
                             /\ ResendWeight(K, w)[r] \in Nat
    BY DEF Wired, Weighed, ResendWeight
  <1>4. ASSUME NEW r \in [task : K.tasks, answer : Answer]
        PROVE  /\ AnswerWeight(K, w)[r] = IF r.answer = "Closed" THEN 0 ELSE TaskWeight(K, w)[r.task]
               /\ AnswerWeight(K, w)[r] \in Nat
    BY <1>2 DEF AnswerWeight, TaskWeight
  <1> QED
    BY <1>2, <1>3, <1>4

-----------------------------------------------------------------------------
(* The steps of a session. *)

LEMMA ResendLightens ==
    ASSUME NEW K, SessionOK(K), Wired(K), NEW w, Weighed(K, w), Counted(K, w),
           Resend, UNCHANGED <<statusVars, wireVars>>
    PROVE  Lightens(K, w)
  <1>1. PICK r \in BagToSet(resends) :
            /\ mbox' = Post(mbox, r.to, r.msg)
            /\ resends' = BagRemove(resends, r)
    BY DEF Resend
  <1>2. UNCHANGED <<timers, asking, answered, fromBroker>>
    BY DEF statusVars, wireVars
  <1>3. r \in K.resends /\ BoxesOK(K, mbox) /\ BoxCountable(mbox, w)
    BY DEF SessionOK, BoxesOK, Counted
  <1>4. w[r.to][r.msg] \in Nat /\ ResendWeight(K, w)[r] = w[r.to][r.msg]
    BY <1>3, WeightsAreNat
  <1>5. /\ BoxCountable(mbox', w) /\ BoxLoad(mbox', w) \in Nat
        /\ BoxLoad(mbox', w) <= BoxLoad(mbox, w) + w[r.to][r.msg]
    BY <1>1, <1>3, <1>4, PostLoad
  <1>6. /\ Countable(resends', ResendWeight(K, w)) /\ BagLoad(resends', ResendWeight(K, w)) \in Nat
        /\ BagLoad(resends', ResendWeight(K, w)) + w[r.to][r.msg] <= BagLoad(resends, ResendWeight(K, w))
    BY <1>1, <1>4, BagRemoveTokens DEF Counted
  <1>7. Counted(K, w)'
    BY <1>2, <1>5, <1>6 DEF Counted
  <1>8. Load(K, w)' <= Load(K, w)
    BY <1>2, <1>4, <1>5, <1>6, LoadsAreNat DEF Load
  <1> QED
    BY <1>7, <1>8 DEF Lightens

LEMMA BroadcastStopLightens ==
    ASSUME NEW K, SessionOK(K), Wired(K), NEW w, Weighed(K, w), Counted(K, w),
           BroadcastStop, UNCHANGED <<statusVars, wireVars>>
    PROVE  Lightens(K, w)
  <1>1. UNCHANGED <<resends, timers, asking, answered, fromBroker>>
    BY DEF BroadcastStop, statusVars, wireVars
  <1>2. DOMAIN mbox' = DOMAIN mbox /\ DOMAIN mbox = Actor
    BY DEF BroadcastStop, SessionOK
  <1>3. ASSUME NEW b \in DOMAIN mbox
        PROVE  \/ mbox'[b] \in {mbox[b], <<>>}
               \/ \E M : mbox[b] \in Seq(M) /\ \E m : w[b][m] = 0 /\ mbox'[b] = Append(mbox[b], m)
    <2>1. mbox'[b] \in {mbox[b], <<>>} \/ mbox'[b] = Append(mbox[b], StopMessage)
      BY <1>2 DEF BroadcastStop
    <2>2. mbox[b] \in Seq(K.messages[b]) /\ w[b][StopMessage] = 0
      BY <1>2 DEF SessionOK, Weighed
    <2> QED
      BY <2>1, <2>2
  <1>4. /\ BoxCountable(mbox', w) /\ BoxLoad(mbox', w) \in Nat
        /\ BoxLoad(mbox', w) <= BoxLoad(mbox, w)
    BY <1>2, <1>3, PaddedTokens DEF Counted, BoxCountable, BoxLoad
  <1>5. Counted(K, w)'
    BY <1>1, <1>4 DEF Counted
  <1>6. Load(K, w)' <= Load(K, w)
    BY <1>1, <1>4, LoadsAreNat DEF Load
  <1> QED
    BY <1>5, <1>6 DEF Lightens

LEMMA TimerFiresLightens ==
    ASSUME NEW K, SessionOK(K), Wired(K), NEW w, Weighed(K, w), Counted(K, w),
           TimerFires, UNCHANGED wireVars
    PROVE  Lightens(K, w)
  <1> DEFINE v == TaskWeight(K, w)
  <1>1. PICK t \in BagToSet(timers) :
            /\ timers' = BagRemove(timers, t)
            /\ asking' = BagAdd(asking, t)
            /\ UNCHANGED <<actorVars, packetStatus, answered>>
    BY DEF TimerFires
  <1>2. UNCHANGED <<mbox, resends, answered, fromBroker>>
    BY <1>1 DEF actorVars, wireVars
  <1>3. v[t] \in Nat
    BY WeightsAreNat DEF SessionOK, Wired
  <1> HIDE DEF v
  <1>4. Countable(timers, v) /\ Countable(asking, v)
    BY DEF Counted, v
  <1>5. /\ Countable(timers', v) /\ BagLoad(timers', v) \in Nat
        /\ BagLoad(timers', v) + v[t] <= BagLoad(timers, v)
    BY <1>1, <1>3, <1>4, BagRemoveTokens
  <1>6. /\ Countable(asking', v) /\ BagLoad(asking', v) \in Nat
        /\ BagLoad(asking', v) <= BagLoad(asking, v) + v[t]
    BY <1>1, <1>3, <1>4, BagAddTokens
  <1>7. Counted(K, w)'
    BY <1>2, <1>5, <1>6 DEF Counted, v
  <1>8. Load(K, w)' <= Load(K, w)
    BY <1>2, <1>3, <1>5, <1>6, LoadsAreNat DEF Load, v
  <1> QED
    BY <1>7, <1>8 DEF Lightens

LEMMA AskStatusLightens ==
    ASSUME NEW K, SessionOK(K), Wired(K), NEW w, Weighed(K, w), Counted(K, w),
           AskStatus, UNCHANGED wireVars
    PROVE  Lightens(K, w)
  <1> DEFINE v == TaskWeight(K, w)
             u == AnswerWeight(K, w)
  <1>1. PICK t \in BagToSet(asking) :
            /\ asking' = BagRemove(asking, t)
            /\ \/ /\ Accepts("Status")
                  /\ mbox' = Post(mbox, "Status", GetAndRemovePacketStatus(t))
                  /\ UNCHANGED answered
               \/ /\ Closed("Status")
                  /\ answered' = BagAdd(answered, Answered(t, "Closed"))
                  /\ UNCHANGED mbox
            /\ UNCHANGED <<alive, resends, packetStatus, timers>>
    BY DEF AskStatus
  <1>2. UNCHANGED <<resends, timers, fromBroker>>
    BY <1>1 DEF wireVars
  <1>3. t \in K.tasks
    BY DEF SessionOK
  <1>4. v[t] \in Nat /\ v[t] = w["Status"][GetAndRemovePacketStatus(t)]
    BY <1>3, WeightsAreNat
  <1>5. Answered(t, "Closed") \in [task : K.tasks, answer : Answer] /\ Answered(t, "Closed").answer = "Closed"
    BY <1>3 DEF Answered, Answer
  <1>6. u[Answered(t, "Closed")] = 0
    BY <1>5, WeightsAreNat
  <1> HIDE DEF v, u
  <1>7. Countable(asking, v) /\ Countable(answered, u) /\ BoxCountable(mbox, w) /\ BoxesOK(K, mbox)
    BY DEF Counted, SessionOK, BoxesOK, v, u
  <1>8. /\ Countable(asking', v) /\ BagLoad(asking', v) \in Nat
        /\ BagLoad(asking', v) + v[t] <= BagLoad(asking, v)
    BY <1>1, <1>4, <1>7, BagRemoveTokens
  <1>9. /\ BoxLoad(mbox, w) \in Nat /\ BagLoad(answered, u) \in Nat /\ BagLoad(asking, v) \in Nat
        /\ BagLoad(resends, ResendWeight(K, w)) \in Nat /\ BagLoad(timers, v) \in Nat
        /\ BoxLoad(Wire(fromBroker), WireWeight(K, w)) \in Nat
    BY LoadsAreNat DEF v, u
  <1>10. /\ BoxCountable(mbox', w) /\ Countable(answered', u)
         /\ BoxLoad(mbox', w) \in Nat /\ BagLoad(answered', u) \in Nat
         /\ BoxLoad(mbox', w) + BagLoad(answered', u) <= BoxLoad(mbox, w) + BagLoad(answered, u) + v[t]
    <2>1. CASE mbox' = Post(mbox, "Status", GetAndRemovePacketStatus(t)) /\ answered' = answered
      <3>1. /\ BoxCountable(mbox', w) /\ BoxLoad(mbox', w) \in Nat
            /\ BoxLoad(mbox', w) <= BoxLoad(mbox, w) + v[t]
        BY <1>4, <1>7, <2>1, PostLoad
      <3> QED
        BY <1>4, <1>7, <1>9, <2>1, <3>1
    <2>2. CASE answered' = BagAdd(answered, Answered(t, "Closed")) /\ mbox' = mbox
      <3>1. /\ Countable(answered', u) /\ BagLoad(answered', u) \in Nat
            /\ BagLoad(answered', u) <= BagLoad(answered, u) + u[Answered(t, "Closed")]
        BY <1>6, <1>7, <2>2, BagAddTokens
      <3> QED
        BY <1>4, <1>6, <1>7, <1>9, <2>2, <3>1
    <2> QED
      BY <1>1, <2>1, <2>2
  <1>11. Counted(K, w)'
    BY <1>2, <1>8, <1>10 DEF Counted, v, u
  <1>12. Load(K, w)' <= Load(K, w)
    BY <1>2, <1>4, <1>8, <1>9, <1>10 DEF Load, v, u
  <1> QED
    BY <1>11, <1>12 DEF Lightens

LEMMA StatusCheckedLightens ==
    ASSUME NEW K, SessionOK(K), Wired(K), NEW w, Weighed(K, w), Counted(K, w),
           StatusChecked, UNCHANGED wireVars
    PROVE  Lightens(K, w)
  <1> DEFINE u == AnswerWeight(K, w)
  <1>1. PICK r \in BagToSet(answered) :
            /\ r.task.kind = "check"
            /\ answered' = BagRemove(answered, r)
            /\ \/ /\ r.answer \in r.task.expect
                  /\ mbox' = Post(mbox, r.task.actor, r.task.msg)
               \/ /\ r.answer = "Closed"
                  /\ mbox' = IF r.task.owner = "Arbiter" THEN mbox
                             ELSE Post(mbox, "Stop", StopMessage)
               \/ /\ r.answer \notin r.task.expect \cup {"Closed"}
                  /\ mbox' = mbox
            /\ UNCHANGED <<alive, resends, packetStatus, timers, asking>>
    BY DEF StatusChecked
  <1>2. UNCHANGED <<resends, timers, asking, fromBroker>>
    BY <1>1 DEF wireVars
  <1>3. r \in [task : K.tasks, answer : Answer] /\ r.task \in K.tasks
    BY DEF SessionOK
  <1>4. /\ u[r] \in Nat
        /\ u[r] = IF r.answer = "Closed" THEN 0 ELSE TaskWeight(K, w)[r.task]
        /\ TaskWeight(K, w)[r.task] = w["Status"][GetAndRemovePacketStatus(r.task)]
    BY <1>3, WeightsAreNat
  <1> HIDE DEF u
  <1>5. Countable(answered, u) /\ BoxCountable(mbox, w) /\ BoxesOK(K, mbox)
    BY DEF Counted, SessionOK, BoxesOK, u
  <1>6. /\ Countable(answered', u) /\ BagLoad(answered', u) \in Nat
        /\ BagLoad(answered', u) + u[r] <= BagLoad(answered, u)
    BY <1>1, <1>4, <1>5, BagRemoveTokens
  <1>7. BoxLoad(mbox, w) \in Nat
    BY LoadsAreNat
  <1>8. /\ BoxCountable(mbox', w) /\ BoxLoad(mbox', w) \in Nat
        /\ BoxLoad(mbox', w) <= BoxLoad(mbox, w) + u[r]
    <2>1. CASE r.answer \in r.task.expect /\ mbox' = Post(mbox, r.task.actor, r.task.msg)
      <3>1. w[r.task.actor][r.task.msg] <= u[r]
        BY <1>1, <1>3, <1>4, <2>1 DEF Weighed
      <3>2. r.task.actor \in Actor => w[r.task.actor][r.task.msg] \in Nat
        BY <1>1, <1>3 DEF Wired, Weighed
      <3> QED
        BY <1>4, <1>5, <2>1, <3>1, <3>2, PostLoad
    <2>2. CASE mbox' = Post(mbox, "Stop", StopMessage)
      BY <1>4, <1>5, <2>2, PostStopLoad
    <2>3. CASE mbox' = mbox
      BY <1>4, <1>5, <1>7, <2>3
    <2> QED
      BY <1>1, <2>1, <2>2, <2>3
  <1>9. Counted(K, w)'
    BY <1>2, <1>6, <1>8 DEF Counted, u
  <1>10. Load(K, w)' <= Load(K, w)
    BY <1>2, <1>4, <1>6, <1>8, LoadsAreNat DEF Load, u
  <1> QED
    BY <1>9, <1>10 DEF Lightens

\* A step that adds nothing to the mailboxes, and at most takes from the bags
\* and from the connection.
LEMMA OnlyLess ==
    ASSUME NEW K, NEW w, Counted(K, w), BoxCountable(mbox', w), BoxLoad(mbox', w) \in Nat,
           BoxLoad(mbox', w) <= BoxLoad(mbox, w), fromBroker' \in {fromBroker, <<>>},
           UNCHANGED <<resends, timers, asking, answered>>
    PROVE  Lightens(K, w)
  <1>1. /\ BoxCountable(Wire(fromBroker'), WireWeight(K, w))
        /\ BoxLoad(Wire(fromBroker'), WireWeight(K, w)) \in Nat
        /\ BoxLoad(Wire(fromBroker'), WireWeight(K, w)) <= BoxLoad(Wire(fromBroker), WireWeight(K, w))
    BY EmptiedWire, LoadsAreNat DEF Counted
  <1>2. Counted(K, w)'
    BY <1>1 DEF Counted
  <1>3. Load(K, w)' <= Load(K, w)
    BY <1>1, LoadsAreNat DEF Load
  <1> QED
    BY <1>2, <1>3 DEF Lightens

LEMMA SendHandleLightens ==
    ASSUME NEW K, SessionOK(K), Wired(K), NEW w, Weighed(K, w), Counted(K, w),
           SendHandle, UNCHANGED statusVars
    PROVE  Lightens(K, w)
  <1>1. UNCHANGED <<resends, timers, asking, answered, fromBroker>> /\ mbox' = Take("Send")
        /\ "Send" \in Actor /\ mbox["Send"] # <<>>
    BY ActorAssumption DEF SendHandle, statusVars, Handling
  <1>2. BoxCountable(mbox, w)
    BY DEF Counted
  <1>3. /\ BoxCountable(mbox', w) /\ BoxLoad(mbox', w) \in Nat /\ BoxLoad(mbox, w) \in Nat
        /\ w["Send"][Head(mbox["Send"])] \in Nat
        /\ BoxLoad(mbox', w) + w["Send"][Head(mbox["Send"])] <= BoxLoad(mbox, w)
    BY <1>1, <1>2, TakeLoad
  <1>4. BoxLoad(mbox', w) <= BoxLoad(mbox, w)
    BY <1>3
  <1> QED
    BY <1>1, <1>3, <1>4, OnlyLess

LEMMA RecvPacketLightens ==
    ASSUME NEW K, SessionOK(K), Wired(K), NEW w, Weighed(K, w), Counted(K, w),
           RecvPacket, UNCHANGED statusVars
    PROVE  Lightens(K, w)
  <1> DEFINE v == WireWeight(K, w)
             p == Head(fromBroker)
  <1>1. /\ UNCHANGED <<resends, timers, asking, answered>>
        /\ fromBroker # <<>> /\ fromBroker' = Tail(fromBroker)
        /\ mbox' = Post(mbox, "Dispatch", VariablePacketMessage(p)) \/ mbox' = mbox
    BY DEF RecvPacket, statusVars
  <1>2. fromBroker \in Seq(K.server) /\ p \in K.server
    BY <1>1, HeadTailProperties DEF SessionOK
  <1>3. /\ w["Dispatch"][VariablePacketMessage(p)] \in Nat
        /\ v["wire"][p] = w["Dispatch"][VariablePacketMessage(p)]
    BY <1>2, ActorAssumption DEF Wired, Weighed, WireWeight
  <1>4. BoxesOK(K, mbox) /\ BoxCountable(mbox, w) /\ BoxCountable(Wire(fromBroker), v)
    BY DEF SessionOK, BoxesOK, Counted
  <1> HIDE DEF v, p
  <1>5. /\ BoxCountable(mbox', w) /\ BoxLoad(mbox', w) \in Nat
        /\ BoxLoad(mbox', w) <= BoxLoad(mbox, w) + v["wire"][p]
    <2>1. CASE mbox' = mbox
      BY <1>3, <1>4, <2>1, LoadsAreNat
    <2>2. CASE mbox' = Post(mbox, "Dispatch", VariablePacketMessage(p))
      BY <1>3, <1>4, <2>2, PostLoad
    <2> QED
      BY <1>1, <2>1, <2>2
  <1>6. /\ BoxCountable(Wire(fromBroker'), v) /\ BoxLoad(Wire(fromBroker'), v) \in Nat
        /\ BoxLoad(Wire(fromBroker'), v) + v["wire"][p] <= BoxLoad(Wire(fromBroker), v)
    BY <1>1, <1>2, <1>3, <1>4, TailOfWire DEF p
  <1> DEFINE k == v["wire"][p]
  <1>9. k \in Nat
    BY <1>3
  <1> HIDE DEF k
  <1>7. Counted(K, w)'
    BY <1>1, <1>5, <1>6 DEF Counted, v
  <1>8. Load(K, w)' <= Load(K, w)
    <2>1. /\ BoxLoad(mbox', w) <= BoxLoad(mbox, w) + k
          /\ BoxLoad(Wire(fromBroker'), WireWeight(K, w)) + k <= BoxLoad(Wire(fromBroker), WireWeight(K, w))
          /\ BoxLoad(mbox', w) \in Nat /\ BoxLoad(Wire(fromBroker'), WireWeight(K, w)) \in Nat
      BY <1>5, <1>6 DEF k, v
    <2>2. UNCHANGED <<resends, timers, asking, answered>>
      BY <1>1
    <2> QED
      BY <1>9, <2>1, <2>2, LoadsAreNat DEF Load
  <1> QED
    BY <1>7, <1>8 DEF Lightens

LEMMA DispatchHandleLightens ==
    ASSUME NEW K, SessionOK(K), Wired(K), NEW w, Weighed(K, w), Counted(K, w),
           DispatchHandle, UNCHANGED statusVars
    PROVE  Lightens(K, w)
  <1> DEFINE msg    == Head(mbox["Dispatch"])
             target == Target[msg.packet.type]
             box    == Take("Dispatch")
             k      == w["Dispatch"][msg]
  <1>1. /\ UNCHANGED <<resends, timers, asking, answered, fromBroker>>
        /\ Handling("Dispatch", "Packet") /\ "Dispatch" \in Actor /\ mbox["Dispatch"] # <<>>
        /\ mbox' = Post(box, target, PacketMessage(msg.packet, 0)) \/ HandleSendError(target, box)
    BY ActorAssumption DEF DispatchHandle, statusVars, wireVars, Handling
  <1>2. BoxesOK(K, box) /\ msg \in K.messages["Dispatch"] /\ msg.type = "Packet"
    BY <1>1, TakeTyped
  <1>3. BoxCountable(mbox, w)
    BY DEF Counted
  <1>4. /\ BoxCountable(box, w) /\ BoxLoad(box, w) \in Nat /\ BoxLoad(mbox, w) \in Nat
        /\ k \in Nat /\ BoxLoad(box, w) + k <= BoxLoad(mbox, w)
    BY <1>1, <1>3, TakeLoad
  <1>5. target \in Actor => /\ w[target][PacketMessage(msg.packet, 0)] \in Nat
                            /\ w[target][PacketMessage(msg.packet, 0)] <= k
    BY <1>2 DEF Wired, Weighed
  <1> HIDE DEF msg, target, box, k
  <1>6. /\ BoxCountable(mbox', w) /\ BoxLoad(mbox', w) \in Nat
        /\ BoxLoad(mbox', w) <= BoxLoad(mbox, w)
    <2>1. CASE mbox' = Post(box, target, PacketMessage(msg.packet, 0))
      <3>1. /\ BoxCountable(mbox', w) /\ BoxLoad(mbox', w) \in Nat
            /\ BoxLoad(mbox', w) <= BoxLoad(box, w) + k
        BY <1>2, <1>4, <1>5, <2>1, PostLoad
      <3> QED
        BY <1>4, <3>1
    <2>2. CASE HandleSendError(target, box)
      <3>1. /\ BoxCountable(mbox', w) /\ BoxLoad(mbox', w) \in Nat
            /\ BoxLoad(mbox', w) <= BoxLoad(box, w)
        BY <1>2, <1>4, <2>2, SendErrorLoad
      <3> QED
        BY <1>4, <3>1
    <2> QED
      BY <1>1, <2>1, <2>2
  <1> QED
    BY <1>1, <1>6, OnlyLess

LEMMA RecvFailsLightens ==
    ASSUME NEW K, SessionOK(K), Wired(K), NEW w, Weighed(K, w), Counted(K, w),
           RecvFails, UNCHANGED statusVars
    PROVE  Lightens(K, w)
  <1> DEFINE box == IF Accepts("Stop") THEN Post(mbox, "Stop", StopMessage) ELSE mbox
             new == Post(box, "Stop", StopMessage)
  <1>1. UNCHANGED <<resends, timers, asking, answered>> /\ fromBroker' = <<>>
        /\ mbox' = [new EXCEPT !["Recv"] = <<>>]
    BY DEF RecvFails, statusVars
  <1>2. BoxesOK(K, mbox) /\ BoxCountable(mbox, w) /\ BoxLoad(mbox, w) \in Nat
    BY LoadsAreNat DEF SessionOK, BoxesOK, Counted
  <1>3. /\ BoxesOK(K, box) /\ BoxCountable(box, w)
        /\ BoxLoad(box, w) \in Nat /\ BoxLoad(box, w) <= BoxLoad(mbox, w)
    BY <1>2, PostStopTyped, PostStopLoad
  <1> HIDE DEF box
  <1>4. /\ BoxesOK(K, new) /\ BoxCountable(new, w)
        /\ BoxLoad(new, w) \in Nat /\ BoxLoad(new, w) <= BoxLoad(box, w)
    BY <1>3, PostStopTyped, PostStopLoad
  <1> HIDE DEF new
  <1>5. /\ BoxCountable(mbox', w) /\ BoxLoad(mbox', w) \in Nat /\ BoxLoad(mbox', w) <= BoxLoad(new, w)
    BY <1>1, <1>4, EmptiedLoad
  <1>6. BoxLoad(mbox', w) <= BoxLoad(mbox, w)
    BY <1>2, <1>3, <1>4, <1>5
  <1> QED
    BY <1>1, <1>5, <1>6, OnlyLess

LEMMA WriteErrorLightens ==
    ASSUME NEW K, SessionOK(K), Wired(K), NEW w, Weighed(K, w), Counted(K, w),
           WriteError, UNCHANGED statusVars
    PROVE  Lightens(K, w)
  <1> DEFINE box == Post(mbox, "Stop", StopMessage)
  <1>1. UNCHANGED <<resends, timers, asking, answered, fromBroker>>
        /\ mbox' = [box EXCEPT !["Send"] = <<>>]
    BY DEF WriteError, statusVars
  <1>2. BoxesOK(K, mbox) /\ BoxCountable(mbox, w) /\ BoxLoad(mbox, w) \in Nat
    BY LoadsAreNat DEF SessionOK, BoxesOK, Counted
  <1>3. /\ BoxesOK(K, box) /\ BoxCountable(box, w)
        /\ BoxLoad(box, w) \in Nat /\ BoxLoad(box, w) <= BoxLoad(mbox, w)
    BY <1>2, PostStopTyped, PostStopLoad
  <1> HIDE DEF box
  <1>4. /\ BoxCountable(mbox', w) /\ BoxLoad(mbox', w) \in Nat /\ BoxLoad(mbox', w) <= BoxLoad(box, w)
    BY <1>1, <1>3, EmptiedLoad
  <1>5. BoxLoad(mbox', w) <= BoxLoad(mbox, w)
    BY <1>2, <1>3, <1>4
  <1> QED
    BY <1>1, <1>4, <1>5, OnlyLess

\* The timers of an actor that stops go with it, and so do the questions in the
\* mailbox of the status actor: their answer is "Closed".
LEMMA StopHandleLightens ==
    ASSUME NEW K, SessionOK(K), Wired(K), NEW w, Weighed(K, w), Counted(K, w), StopHandle
    PROVE  Lightens(K, w)
  <1> DEFINE v == TaskWeight(K, w)
             u == AnswerWeight(K, w)
  <1>1. PICK a \in Registered : HandleStop(a) /\ fromBroker' \in {fromBroker, <<>>}
    BY DEF StopHandle
  <1>2. UNCHANGED <<resends, asking>>
    BY <1>1 DEF HandleStop
  <1>3. /\ BoxCountable(mbox', w) /\ BoxLoad(mbox', w) \in Nat /\ BoxLoad(mbox, w) \in Nat
        /\ BoxLoad(mbox', w) <= BoxLoad(mbox, w)
    <2> DEFINE box == [mbox EXCEPT ![a] = <<>>]
    <2>1. mbox' = box \/ mbox' = Post(box, "Stop", StopMessage)
      BY <1>1 DEF HandleStop
    <2>2. BoxesOK(K, mbox) /\ BoxCountable(mbox, w)
      BY DEF SessionOK, BoxesOK, Counted
    <2>3. /\ BoxesOK(K, box) /\ BoxCountable(box, w)
          /\ BoxLoad(box, w) \in Nat /\ BoxLoad(mbox, w) \in Nat /\ BoxLoad(box, w) <= BoxLoad(mbox, w)
      BY <2>2, EmptiedTyped, EmptiedLoad
    <2> HIDE DEF box
    <2>4. CASE mbox' = box
      BY <2>3, <2>4
    <2>5. CASE mbox' = Post(box, "Stop", StopMessage)
      <3>1. BoxCountable(mbox', w) /\ BoxLoad(mbox', w) \in Nat /\ BoxLoad(mbox', w) <= BoxLoad(box, w)
        BY <2>3, <2>5, PostStopLoad
      <3> QED
        BY <2>3, <3>1
    <2> QED
      BY <2>1, <2>4, <2>5
  <1>4. \A e \in BagToSet(timers') : v[e] = 0 \/ (e \in BagToSet(timers) /\ timers'[e] = timers[e])
    BY <1>1 DEF HandleStop, BagToSet
  <1>5. \A e \in BagToSet(answered') : u[e] = 0 \/ (e \in BagToSet(answered) /\ answered'[e] = answered[e])
    <2>1. CASE answered' = answered
      BY <2>1
    <2>2. CASE answered' = answered (+) Unanswerable(mbox["Status"])
      <3> DEFINE C == Unanswerable(mbox["Status"])
      <3>1. \A e \in DOMAIN C : e \in [task : K.tasks, answer : Answer] /\ e.answer = "Closed"
        <4>1. BagToSet(C) \subseteq [task : K.tasks, answer : Answer]
          BY UnanswerableTyped
        <4>2. \A e \in DOMAIN C : e.answer = "Closed"
          BY DEF Unanswerable, Answered
        <4> QED
          BY <4>1, <4>2 DEF BagToSet
      <3>2. \A e \in DOMAIN C : u[e] = 0
        BY <3>1, WeightsAreNat
      <3> HIDE DEF C, u
      <3>3. \A e \in DOMAIN answered : u[e] # 0 => answered[e] \in Nat
        BY DEF Counted, Countable, BagToSet, u
      <3>4. DOMAIN answered' = DOMAIN answered \cup DOMAIN C
        BY <2>2 DEF (+), C
      <3>5. \A e \in DOMAIN answered \ DOMAIN C : answered'[e] = answered[e] + 0
        BY <2>2 DEF (+), C
      <3> QED
        BY <3>2, <3>3, <3>4, <3>5 DEF BagToSet
    <2> QED
      BY <1>1, <2>1, <2>2 DEF HandleStop
  <1> HIDE DEF v, u
  <1>6. Countable(timers, v) /\ Countable(answered, u)
    BY DEF Counted, v, u
  <1>7. Countable(timers', v) /\ BagLoad(timers', v) \in Nat /\ BagLoad(timers', v) <= BagLoad(timers, v)
    BY <1>4, <1>6, FewerInBag
  <1>8. Countable(answered', u) /\ BagLoad(answered', u) \in Nat /\ BagLoad(answered', u) <= BagLoad(answered, u)
    BY <1>5, <1>6, FewerInBag
  <1>9. /\ BoxCountable(Wire(fromBroker'), WireWeight(K, w))
        /\ BoxLoad(Wire(fromBroker'), WireWeight(K, w)) \in Nat
        /\ BoxLoad(Wire(fromBroker'), WireWeight(K, w)) <= BoxLoad(Wire(fromBroker), WireWeight(K, w))
    BY <1>1, EmptiedWire, LoadsAreNat DEF Counted
  <1>10. Counted(K, w)'
    BY <1>2, <1>3, <1>7, <1>8, <1>9 DEF Counted, v, u
  <1>11. Load(K, w)' <= Load(K, w)
    BY <1>2, <1>3, <1>7, <1>8, <1>9, LoadsAreNat DEF Load, v, u
  <1> QED
    BY <1>10, <1>11 DEF Lightens

\* No step in the background adds to the load.
LEMMA BackgroundLightens ==
    ASSUME NEW K, SessionOK(K), Wired(K), NEW w, Weighed(K, w), Counted(K, w), Background
    PROVE  Lightens(K, w)
  <1>1. CASE Resend /\ UNCHANGED <<statusVars, wireVars>>
    BY <1>1, ResendLightens
  <1>2. CASE BroadcastStop /\ UNCHANGED <<statusVars, wireVars>>
    BY <1>2, BroadcastStopLightens
  <1>3. CASE TaskNext /\ UNCHANGED wireVars
    BY <1>3, TimerFiresLightens, AskStatusLightens, StatusCheckedLightens DEF TaskNext
  <1>4. CASE TransportNext /\ UNCHANGED statusVars
    <2>1. CASE DispatchOrphaned
      <3>1. UNCHANGED <<mbox, resends, timers, asking, answered, fromBroker>>
        BY <1>4, <2>1 DEF DispatchOrphaned, statusVars, wireVars
      <3>2. BoxCountable(mbox, w) /\ BoxLoad(mbox, w) \in Nat
        BY LoadsAreNat DEF Counted
      <3> QED
        BY <3>1, <3>2, OnlyLess
    <2> QED
      BY <1>4, <2>1, SendHandleLightens, RecvPacketLightens, DispatchHandleLightens,
         RecvFailsLightens, WriteErrorLightens DEF TransportNext, RecvError
  <1>5. CASE StopHandle
    BY <1>5, StopHandleLightens
  <1> QED
    BY <1>1, <1>2, <1>3, <1>4, <1>5 DEF Background

-----------------------------------------------------------------------------
(* What a handler adds.  box is what it has done to the mailboxes before. *)

Adds(K, w, box, n) ==
    /\ BoxCountable(mbox', w) /\ BoxLoad(mbox', w) \in Nat
    /\ Countable(resends', ResendWeight(K, w)) /\ BagLoad(resends', ResendWeight(K, w)) \in Nat
    /\ Countable(timers', TaskWeight(K, w)) /\ BagLoad(timers', TaskWeight(K, w)) \in Nat
    /\ BoxLoad(mbox', w) + BagLoad(resends', ResendWeight(K, w)) + BagLoad(timers', TaskWeight(K, w))
          <= BoxLoad(box, w) + BagLoad(resends, ResendWeight(K, w)) + BagLoad(timers, TaskWeight(K, w)) + n

LEMMA AddsToBox ==
    ASSUME NEW K, NEW w, Counted(K, w), NEW box, BoxCountable(box, w), NEW n \in Nat,
           BoxCountable(mbox', w), BoxLoad(mbox', w) \in Nat, BoxLoad(mbox', w) <= BoxLoad(box, w) + n,
           UNCHANGED <<resends, timers>>
    PROVE  Adds(K, w, box, n)
  <1>1. BoxLoad(box, w) \in Nat
    BY FS_CardinalityType DEF BoxCountable, BoxLoad
  <1>2. Countable(resends, ResendWeight(K, w)) /\ Countable(timers, TaskWeight(K, w))
    BY DEF Counted
  <1> QED
    BY <1>1, <1>2, LoadsAreNat DEF Adds

LEMMA SendErrorWithResendAdds ==
    ASSUME NEW K, SessionOK(K), Wired(K), NEW w, Weighed(K, w), Counted(K, w),
           NEW box, BoxesOK(K, box), BoxCountable(box, w), NEW target, NEW a, NEW msg, NEW n \in Nat,
           [to |-> a, msg |-> msg] \in K.resends, w[a][msg] <= n,
           HandleSendErrorWithResend(target, box, a, msg), UNCHANGED timers
    PROVE  Adds(K, w, box, n)
  <1> DEFINE r == [to |-> a, msg |-> msg]
             v == ResendWeight(K, w)
  <1>1. BoxLoad(box, w) \in Nat
    BY FS_CardinalityType DEF BoxCountable, BoxLoad
  <1>2. CASE mbox' = Post(box, "Stop", StopMessage) /\ UNCHANGED resends
    <2>1. /\ BoxCountable(mbox', w) /\ BoxLoad(mbox', w) \in Nat
          /\ BoxLoad(mbox', w) <= BoxLoad(box, w)
      BY <1>2, PostStopLoad
    <2>2. BoxLoad(mbox', w) <= BoxLoad(box, w) + n
      BY <1>1, <2>1
    <2> QED
      BY <1>2, <2>1, <2>2, AddsToBox
  <1>3. CASE mbox' = box /\ resends' = BagAdd(resends, r)
    <2>1. v[r] \in Nat /\ v[r] <= n
      BY WeightsAreNat
    <2> HIDE DEF v, r
    <2>2. Countable(resends, v) /\ Countable(timers, TaskWeight(K, w))
      BY DEF Counted, v
    <2>3. /\ Countable(resends', v)
          /\ BagLoad(resends', v) \in Nat /\ BagLoad(resends, v) \in Nat
          /\ BagLoad(resends', v) <= BagLoad(resends, v) + v[r]
      BY <1>3, <2>1, <2>2, BagAddTokens
    <2>4. BagLoad(resends', v) <= BagLoad(resends, v) + n
      BY <2>1, <2>3
    <2>5. mbox' = box
      BY <1>3
    <2> QED
      BY <1>1, <2>2, <2>3, <2>4, <2>5, LoadsAreNat DEF Adds, v
  <1> QED
    BY <1>2, <1>3 DEF HandleSendErrorWithResend

LEMMA GiveUpAdds ==
    ASSUME NEW K, SessionOK(K), Wired(K), NEW w, Weighed(K, w), Counted(K, w),
           NEW box, BoxesOK(K, box), BoxCountable(box, w), NEW id, NEW n \in Nat,
           w["Status"][RemovePacketStatus(id)] = 0, GiveUp(box, id)
    PROVE  Adds(K, w, box, n)
  <1>1. /\ UNCHANGED <<resends, timers>>
        /\ \/ mbox' = Post(box, "Stop", StopMessage)
           \/ mbox' = Post(box, "Status", RemovePacketStatus(id))
    BY DEF GiveUp
  <1>2. /\ BoxCountable(mbox', w) /\ BoxLoad(mbox', w) \in Nat /\ BoxLoad(box, w) \in Nat
        /\ BoxLoad(mbox', w) <= BoxLoad(box, w)
    <2>1. CASE mbox' = Post(box, "Stop", StopMessage)
      BY <2>1, PostStopLoad
    <2>2. CASE mbox' = Post(box, "Status", RemovePacketStatus(id))
      BY <2>2, PostNothing
    <2> QED
      BY <1>1, <2>1, <2>2
  <1>3. BoxLoad(mbox', w) <= BoxLoad(box, w) + n
    BY <1>2
  <1>4. BoxCountable(mbox', w) /\ BoxLoad(mbox', w) \in Nat
    BY <1>2
  <1>5. UNCHANGED resends /\ UNCHANGED timers
    BY <1>1
  <1> QED
    BY <1>3, <1>4, <1>5, AddsToBox

LEMMA SetSendScheduleAdds ==
    ASSUME NEW K, SessionOK(K), Wired(K), NEW w, Weighed(K, w), Counted(K, w),
           NEW box, BoxesOK(K, box), BoxCountable(box, w),
           NEW a, NEW op, NEW packet, NEW check, NEW retry, NEW n \in Nat,
           op \in K.messages["Status"], w["Status"][op] = 0,
           w["Send"][VariablePacketMessage(packet)] = 0,
           [to |-> a, msg |-> retry] \in K.resends, w[a][retry] <= n,
           check \in K.tasks, w["Status"][GetAndRemovePacketStatus(check)] <= n,
           SetSendSchedule(box, a, op, packet, check, retry)
    PROVE  Adds(K, w, box, n)
  <1> DEFINE new == Post(box, "Status", op)
             v   == TaskWeight(K, w)
  <1>1. /\ BoxesOK(K, new) /\ BoxCountable(new, w)
        /\ BoxLoad(new, w) \in Nat /\ BoxLoad(box, w) \in Nat
        /\ BoxLoad(new, w) <= BoxLoad(box, w)
    BY PostTyped, PostNothing
  <1>2. v[check] \in Nat /\ v[check] <= n
    BY WeightsAreNat
  <1> HIDE DEF new, v
  <1>3. CASE HandleSendErrorWithResend("Status", box, a, retry) /\ UNCHANGED timers
    BY <1>3, SendErrorWithResendAdds
  <1>4. CASE HandleSendErrorWithResend("Send", new, a, retry) /\ UNCHANGED timers
    <2>1. Adds(K, w, new, n)
      BY <1>1, <1>4, SendErrorWithResendAdds
    <2> QED
      BY <1>1, <2>1, LoadsAreNat DEF Adds
  <1>5. CASE /\ mbox' = Post(new, "Send", VariablePacketMessage(packet))
             /\ timers' = BagAdd(timers, check)
             /\ UNCHANGED resends
    <2>1. /\ BoxCountable(mbox', w) /\ BoxLoad(mbox', w) \in Nat
          /\ BoxLoad(mbox', w) <= BoxLoad(new, w)
      BY <1>1, <1>5, PostNothing
    <2>2. Countable(timers, v) /\ Countable(resends, ResendWeight(K, w))
      BY DEF Counted, v
    <2>3. /\ Countable(timers', v) /\ BagLoad(timers', v) \in Nat /\ BagLoad(timers, v) \in Nat
          /\ BagLoad(timers', v) <= BagLoad(timers, v) + v[check]
      BY <1>2, <1>5, <2>2, BagAddTokens
    <2>4. BagLoad(timers', v) <= BagLoad(timers, v) + n
      BY <1>2, <2>3
    <2>5. resends' = resends
      BY <1>5
    <2> QED
      BY <1>1, <2>1, <2>2, <2>3, <2>4, <2>5, LoadsAreNat DEF Adds, v
  <1> QED
    BY <1>3, <1>4, <1>5 DEF SetSendSchedule, new

LEMMA SumLess ==
    ASSUME NEW m \in Nat, NEW r \in Nat, NEW t \in Nat, NEW m1 \in Nat, NEW r1 \in Nat, NEW t1 \in Nat,
           NEW x \in Nat, NEW y \in Nat, NEW z \in Nat, m1 + r1 + t1 <= m + r + t
    PROVE  m1 + x + r1 + t1 + y + z <= m + x + r + t + y + z
  OBVIOUS

\* A handler that adds no more than the message it has taken weighs.
LEMMA HandlerLightens ==
    ASSUME NEW K, SessionOK(K), NEW w, Weighed(K, w), Counted(K, w),
           NEW a \in Actor, mbox[a] # <<>>, NEW n \in Nat, n <= w[a][Head(mbox[a])],
           Adds(K, w, Take(a), n), UNCHANGED <<asking, answered, fromBroker>>
    PROVE  Lightens(K, w)
  <1>1. /\ BoxLoad(Take(a), w) \in Nat /\ w[a][Head(mbox[a])] \in Nat /\ BoxLoad(mbox, w) \in Nat
        /\ BoxLoad(Take(a), w) + w[a][Head(mbox[a])] <= BoxLoad(mbox, w)
    BY TakeLoad, LoadsAreNat DEF Counted
  <1>2. BoxLoad(Take(a), w) + n <= BoxLoad(mbox, w)
    BY <1>1
  <1>3. Counted(K, w)'
    BY DEF Counted, Adds
  <1> DEFINE rw == ResendWeight(K, w)
             tw == TaskWeight(K, w)
             aw == AnswerWeight(K, w)
             b0 == BoxLoad(Wire(fromBroker), WireWeight(K, w))
  <1>4. /\ BoxLoad(mbox', w) \in Nat /\ BagLoad(resends', rw) \in Nat /\ BagLoad(timers', tw) \in Nat
        /\ BoxLoad(mbox', w) + BagLoad(resends', rw) + BagLoad(timers', tw)
              <= BoxLoad(Take(a), w) + BagLoad(resends, rw) + BagLoad(timers, tw) + n
    BY DEF Adds
  <1>5. /\ BagLoad(resends, rw) \in Nat /\ BagLoad(timers, tw) \in Nat
        /\ b0 \in Nat /\ BagLoad(asking, tw) \in Nat /\ BagLoad(answered, aw) \in Nat
    BY LoadsAreNat
  <1>6. UNCHANGED <<asking, answered, fromBroker>>
    OBVIOUS
  <1>7. BoxLoad(mbox', w) + BagLoad(resends', rw) + BagLoad(timers', tw)
           <= BoxLoad(mbox, w) + BagLoad(resends, rw) + BagLoad(timers, tw)
    BY <1>1, <1>2, <1>4, <1>5
  <1>8. /\ Load(K, w) = BoxLoad(mbox, w) + b0 + BagLoad(resends, rw)
                          + BagLoad(timers, tw) + BagLoad(asking, tw) + BagLoad(answered, aw)
        /\ Load(K, w)' = BoxLoad(mbox', w) + b0 + BagLoad(resends', rw)
                          + BagLoad(timers', tw) + BagLoad(asking, tw) + BagLoad(answered, aw)
    BY <1>6 DEF Load
  <1> HIDE DEF rw, tw, aw, b0
  <1>9. BoxLoad(mbox', w) + b0 + BagLoad(resends', rw) + BagLoad(timers', tw)
                          + BagLoad(asking, tw) + BagLoad(answered, aw)
        <= BoxLoad(mbox, w) + b0 + BagLoad(resends, rw)
                          + BagLoad(timers, tw) + BagLoad(asking, tw) + BagLoad(answered, aw)
    BY <1>1, <1>4, <1>5, <1>7, SumLess
  <1>10. Load(K, w)' <= Load(K, w)
    BY <1>8, <1>9, Zenon
  <1> QED
    BY <1>3, <1>10 DEF Lightens

LEMMA SendPacketHandleLightens ==
    ASSUME NEW K, SessionOK(K), Wired(K), NEW w, Weighed(K, w), Counted(K, w),
           NEW a \in Actor, NEW type, Handling(a, type), NEW op, NEW packet, NEW expect,
           w["Status"][RemovePacketStatus(packet.id)] = 0,
           LET msg   == Head(mbox[a])
               check == StatusCheck(a, a, packet.id, Retried(msg), expect)
           IN  /\ ~RetryExhausted(msg) =>
                      /\ op \in K.messages["Status"] /\ w["Status"][op] = 0
                      /\ w["Send"][VariablePacketMessage(packet)] = 0
                      /\ [to |-> a, msg |-> Retried(msg)] \in K.resends
                      /\ check \in K.tasks
                      /\ w["Status"][GetAndRemovePacketStatus(check)] <= w[a][msg]
                      /\ w[a][Retried(msg)] <= w[a][msg]
               /\ SendPacketHandle(a, msg, op, packet, expect),
           UNCHANGED fromBroker
    PROVE  Lightens(K, w)
  <1> DEFINE msg   == Head(mbox[a])
             check == StatusCheck(a, a, packet.id, Retried(msg), expect)
             n     == w[a][msg]
  <1>1. BoxesOK(K, Take(a)) /\ mbox[a] # <<>> /\ BoxCountable(mbox, w)
    BY TakeTyped DEF Counted
  <1>2. BoxCountable(Take(a), w) /\ n \in Nat
    BY <1>1, TakeLoad
  <1>3. UNCHANGED <<asking, answered>>
    BY DEF SendPacketHandle
  <1>4. CASE RetryExhausted(msg)
    <2>1. GiveUp(Take(a), packet.id)
      BY <1>4 DEF SendPacketHandle
    <2>2. Adds(K, w, Take(a), n)
      BY <1>1, <1>2, <2>1, GiveUpAdds
    <2>3. n <= n
      BY <1>2
    <2> QED
      BY <1>1, <1>2, <1>3, <2>2, <2>3, HandlerLightens
  <1>5. CASE ~RetryExhausted(msg)
    <2>1. SetSendSchedule(Take(a), a, op, packet, check, Retried(msg))
      BY <1>5 DEF SendPacketHandle
    <2>2. /\ op \in K.messages["Status"] /\ w["Status"][op] = 0
          /\ w["Send"][VariablePacketMessage(packet)] = 0
          /\ [to |-> a, msg |-> Retried(msg)] \in K.resends
          /\ check \in K.tasks
          /\ w["Status"][GetAndRemovePacketStatus(check)] <= n
          /\ w[a][Retried(msg)] <= n
      BY <1>5
    <2> HIDE DEF msg, check, n
    <2>3. Adds(K, w, Take(a), n)
      BY <1>1, <1>2, <2>1, <2>2, SetSendScheduleAdds
    <2>4. n <= w[a][Head(mbox[a])]
      BY <1>2 DEF n, msg
    <2> QED
      BY <1>1, <1>2, <1>3, <2>3, <2>4, HandlerLightens
  <1> QED
    BY <1>4, <1>5

LEMMA ResponseHandleLightens ==
    ASSUME NEW K, SessionOK(K), Wired(K), NEW w, Weighed(K, w), Counted(K, w),
           NEW a \in Actor, NEW type, ResponseHandle(a, type),
           LET msg == Head(mbox[a])
           IN  /\ w["Status"][RemovePacketStatus(msg.packet.id)] = 0
               /\ [to |-> a, msg |-> msg] \in K.resends,
           UNCHANGED fromBroker
    PROVE  Lightens(K, w)
  <1> DEFINE msg == Head(mbox[a])
             n   == w[a][msg]
  <1>1. BoxesOK(K, Take(a)) /\ mbox[a] # <<>> /\ BoxCountable(mbox, w)
    BY TakeTyped DEF Counted, ResponseHandle
  <1>2. BoxCountable(Take(a), w) /\ n \in Nat /\ n <= n
    BY <1>1, TakeLoad
  <1>3. UNCHANGED <<timers, asking, answered>>
    BY DEF ResponseHandle, statusVars
  <1>4. CASE /\ mbox' = Post(Take(a), "Status", RemovePacketStatus(msg.packet.id))
             /\ UNCHANGED resends
    <2>1. /\ BoxCountable(mbox', w) /\ BoxLoad(mbox', w) \in Nat /\ BoxLoad(Take(a), w) \in Nat
          /\ BoxLoad(mbox', w) <= BoxLoad(Take(a), w)
      BY <1>1, <1>2, <1>4, PostNothing
    <2>2. BoxLoad(mbox', w) <= BoxLoad(Take(a), w) + n
      BY <1>2, <2>1
    <2>3. Adds(K, w, Take(a), n)
      BY <1>2, <1>3, <1>4, <2>1, <2>2, AddsToBox
    <2> QED
      BY <1>1, <1>2, <1>3, <2>3, HandlerLightens
  <1>5. CASE HandleSendErrorWithResend("Status", Take(a), a, msg)
    <2>1. Adds(K, w, Take(a), n)
      BY <1>1, <1>2, <1>3, <1>5, SendErrorWithResendAdds
    <2> QED
      BY <1>1, <1>2, <1>3, <2>1, HandlerLightens
  <1> QED
    BY <1>4, <1>5 DEF ResponseHandle

\* The status actor turns a question into its answer.
LEMMA StatusHandleLightens ==
    ASSUME NEW K, SessionOK(K), Wired(K), NEW w, Weighed(K, w), Counted(K, w),
           StatusHandle, UNCHANGED fromBroker
    PROVE  Lightens(K, w)
  <1> DEFINE op  == Head(mbox["Status"])
             box == Take("Status")
             u   == AnswerWeight(K, w)
             k   == w["Status"][op]
  <1>1. UNCHANGED <<resends, timers, asking>> /\ Handling("Status", "Status") /\ "Status" \in Actor
    BY ActorAssumption DEF StatusHandle
  <1>2. BoxesOK(K, mbox) /\ BoxCountable(mbox, w) /\ Countable(answered, u)
    BY DEF SessionOK, BoxesOK, Counted
  <1>3. BoxesOK(K, box) /\ op \in K.messages["Status"] /\ op.type = "Status" /\ mbox["Status"] # <<>>
    BY <1>1, TakeTyped
  <1>4. /\ BoxCountable(box, w) /\ BoxLoad(box, w) \in Nat /\ k \in Nat
        /\ BoxLoad(box, w) + k <= BoxLoad(mbox, w)
    BY <1>1, <1>2, <1>3, TakeLoad
  <1>5. mbox' = [a \in Actor |-> IF a \in SendStatusRecipient \cap alive
                                 THEN Append(mbox[a], Report(op)) ELSE box[a]]
    BY DEF StatusHandle
  <1>6. answered' = answered
        \/ (op.op = "GetAndRemove" /\ answered' = BagAdd(answered, Answered(op.task, packetStatus[op.id])))
    BY DEF StatusHandle
  <1>7. \A a \in SendStatusRecipient : w[a][Report(op)] = 0 /\ box[a] = mbox[a] /\ a \in Actor
    <2>1. \A a \in SendStatusRecipient : a # "Status" /\ a \in Actor
      BY StatusAssumption
    <2>2. \A a \in SendStatusRecipient : w[a][Report(op)] = 0
      BY DEF Weighed, Report, PacketSendStatus
    <2> QED
      BY <2>1, <2>2 DEF Take, SessionOK
  <1> HIDE DEF box, u, k
  <1>8. /\ BoxCountable(mbox', w) /\ BoxLoad(mbox', w) \in Nat
        /\ BoxLoad(mbox', w) <= BoxLoad(box, w)
    <2>1. DOMAIN mbox' = DOMAIN box /\ DOMAIN box = Actor
      BY <1>3, <1>5 DEF BoxesOK
    <2>2. ASSUME NEW b \in DOMAIN box
          PROVE  \/ mbox'[b] \in {box[b], <<>>}
                 \/ \E M : box[b] \in Seq(M) /\ \E m : w[b][m] = 0 /\ mbox'[b] = Append(box[b], m)
      <3>1. box[b] \in Seq(K.messages[b])
        BY <1>3, <2>1 DEF BoxesOK
      <3> QED
        BY <1>5, <1>7, <2>1, <3>1
    <2> QED
      BY <1>4, <2>1, <2>2, PaddedTokens DEF BoxCountable, BoxLoad
  <1>9. Countable(answered', u) /\ BagLoad(answered', u) \in Nat /\ BagLoad(answered, u) \in Nat
        /\ BagLoad(answered', u) <= BagLoad(answered, u) + k
    <2>1. BagLoad(answered, u) \in Nat
      BY LoadsAreNat DEF u
    <2>2. CASE answered' = answered
      BY <1>2, <1>4, <2>1, <2>2
    <2>3. CASE op.op = "GetAndRemove" /\ answered' = BagAdd(answered, Answered(op.task, packetStatus[op.id]))
      <3> DEFINE r == Answered(op.task, packetStatus[op.id])
      <3>1. op = GetAndRemovePacketStatus(op.task) /\ op.task \in K.tasks /\ op.id \in Id
        BY <1>3, <2>3 DEF Wired
      <3>2. packetStatus[op.id] \in Answer
        BY <3>1 DEF SessionOK, Wired, Answer
      <3>3. r \in [task : K.tasks, answer : Answer] /\ r.task = op.task
        BY <3>1, <3>2 DEF Answered
      <3>4. u[r] \in Nat /\ u[r] = IF r.answer = "Closed" THEN 0 ELSE TaskWeight(K, w)[r.task]
        BY <3>3, WeightsAreNat DEF u
      <3>5. TaskWeight(K, w)[r.task] = k
        BY <3>1, <3>3, WeightsAreNat DEF k
      <3>6. u[r] <= k
        BY <1>4, <3>4, <3>5
      <3>7. answered' = BagAdd(answered, r)
        BY <2>3
      <3> HIDE DEF r, op
      <3>8. Countable(answered', u) /\ BagLoad(answered', u) \in Nat
            /\ BagLoad(answered', u) <= BagLoad(answered, u) + u[r]
        BY <1>2, <3>4, <3>7, BagAddTokens
      <3> QED
        BY <1>4, <2>1, <3>4, <3>6, <3>8
    <2> QED
      BY <1>6, <2>2, <2>3
  <1>10. Counted(K, w)'
    BY <1>1, <1>8, <1>9 DEF Counted, u
  <1>11. Load(K, w)' <= Load(K, w)
    BY <1>1, <1>4, <1>8, <1>9, LoadsAreNat DEF Load, u
  <1> QED
    BY <1>10, <1>11 DEF Lightens

\* The load, before and after, as the sum of its six parts.
LEMMA LoadParts ==
    ASSUME NEW K, NEW w
    PROVE  /\ Load(K, w) =
                  BoxLoad(mbox, w) + BoxLoad(Wire(fromBroker), WireWeight(K, w))
                  + BagLoad(resends, ResendWeight(K, w)) + BagLoad(timers, TaskWeight(K, w))
                  + BagLoad(asking, TaskWeight(K, w)) + BagLoad(answered, AnswerWeight(K, w))
           /\ Load(K, w)' =
                  BoxLoad(mbox', w) + BoxLoad(Wire(fromBroker'), WireWeight(K, w))
                  + BagLoad(resends', ResendWeight(K, w)) + BagLoad(timers', TaskWeight(K, w))
                  + BagLoad(asking', TaskWeight(K, w)) + BagLoad(answered', AnswerWeight(K, w))
  BY DEF Load

\* A mailbox gives away a message that weighs n.
LEMMA TakenAway ==
    ASSUME NEW K, NEW w, Counted(K, w), NEW n \in Nat,
           BoxCountable(mbox', w), BoxLoad(mbox', w) \in Nat, BoxLoad(mbox', w) + n <= BoxLoad(mbox, w),
           UNCHANGED <<resends, timers, asking, answered, fromBroker>>
    PROVE  Counted(K, w)' /\ Load(K, w)' + n <= Load(K, w)
  <1>1. Counted(K, w)'
    BY DEF Counted
  <1> DEFINE m0 == BoxLoad(mbox, w)
             m1 == BoxLoad(mbox', w)
             x  == BoxLoad(Wire(fromBroker), WireWeight(K, w))
             y  == BagLoad(resends, ResendWeight(K, w))
             z  == BagLoad(timers, TaskWeight(K, w))
             p  == BagLoad(asking, TaskWeight(K, w))
             q  == BagLoad(answered, AnswerWeight(K, w))
  <1>2. Load(K, w) = m0 + x + y + z + p + q /\ Load(K, w)' = m1 + x + y + z + p + q
    BY LoadParts
  <1>3. m0 \in Nat /\ x \in Nat /\ y \in Nat /\ z \in Nat /\ p \in Nat /\ q \in Nat
    BY LoadsAreNat
  <1>4. m1 \in Nat /\ m1 + n <= m0
    OBVIOUS
  <1> HIDE DEF m0, m1, x, y, z, p, q
  <1>5. (m1 + x + y + z + p + q) + n <= m0 + x + y + z + p + q
    BY <1>3, <1>4
  <1> QED
    BY <1>1, <1>2, <1>5, Zenon

\* The server sends a packet.
LEMMA ServerSends ==
    ASSUME NEW K, SessionOK(K), Wired(K), NEW w, Weighed(K, w), Counted(K, w), NEW packet \in K.server,
           fromBroker' = Append(fromBroker, packet),
           UNCHANGED <<mbox, resends, timers, asking, answered>>
    PROVE  /\ Counted(K, w)'
           /\ w["Dispatch"][VariablePacketMessage(packet)] \in Nat
           /\ Load(K, w)' <= Load(K, w) + w["Dispatch"][VariablePacketMessage(packet)]
  <1> DEFINE v  == WireWeight(K, w)
             n  == w["Dispatch"][VariablePacketMessage(packet)]
  <1>1. n \in Nat /\ v["wire"][packet] = n
    <2>1. VariablePacketMessage(packet) \in K.messages["Dispatch"] /\ "Dispatch" \in Actor
      BY ActorAssumption DEF Wired
    <2>2. v["wire"][packet] = n
      BY DEF WireWeight
    <2> QED
      BY <2>1, <2>2 DEF Weighed
  <1> HIDE DEF v, n
  <1>2. BoxCountable(Wire(fromBroker), v) /\ fromBroker \in Seq(K.server)
    BY DEF Counted, SessionOK, v
  <1>3. /\ BoxCountable(Wire(fromBroker'), v)
        /\ BoxLoad(Wire(fromBroker'), v) \in Nat /\ BoxLoad(Wire(fromBroker), v) \in Nat
        /\ BoxLoad(Wire(fromBroker'), v) <= BoxLoad(Wire(fromBroker), v) + n
    BY <1>1, <1>2, AppendToWire
  <1>4. Counted(K, w)'
    BY <1>3 DEF Counted, v
  <1> DEFINE m  == BoxLoad(mbox, w)
             x0 == BoxLoad(Wire(fromBroker), v)
             x1 == BoxLoad(Wire(fromBroker'), v)
             y  == BagLoad(resends, ResendWeight(K, w))
             z  == BagLoad(timers, TaskWeight(K, w))
             p  == BagLoad(asking, TaskWeight(K, w))
             q  == BagLoad(answered, AnswerWeight(K, w))
  <1>5. Load(K, w) = m + x0 + y + z + p + q /\ Load(K, w)' = m + x1 + y + z + p + q
    BY LoadParts DEF v
  <1>6. m \in Nat /\ x0 \in Nat /\ y \in Nat /\ z \in Nat /\ p \in Nat /\ q \in Nat
    BY LoadsAreNat DEF v
  <1>7. x1 \in Nat /\ x1 <= x0 + n
    BY <1>3
  <1> HIDE DEF m, x0, x1, y, z, p, q
  <1>8. m + x1 + y + z + p + q <= (m + x0 + y + z + p + q) + n
    BY <1>1, <1>6, <1>7
  <1>9. Load(K, w)' <= Load(K, w) + n
    BY <1>5, <1>8, Zenon
  <1> QED
    BY <1>1, <1>4, <1>9 DEF n

\* A handler starts a task that weighs no more than the message it has taken.
LEMMA TaskStarts ==
    ASSUME NEW K, SessionOK(K), Wired(K), NEW w, Weighed(K, w), Counted(K, w),
           NEW a \in Actor, mbox[a] # <<>>, mbox' = Take(a), NEW t \in K.tasks,
           w["Status"][GetAndRemovePacketStatus(t)] <= w[a][Head(mbox[a])],
           asking' = BagAdd(asking, t), UNCHANGED <<resends, timers, answered, fromBroker>>
    PROVE  Lightens(K, w)
  <1> DEFINE v == TaskWeight(K, w)
             k == v[t]
             n == w[a][Head(mbox[a])]
  <1>1. k \in Nat /\ k <= n
    BY WeightsAreNat
  <1>2. /\ BoxCountable(mbox', w) /\ BoxLoad(mbox', w) \in Nat /\ n \in Nat
        /\ BoxLoad(mbox', w) + n <= BoxLoad(mbox, w)
    BY TakeLoad DEF Counted
  <1> HIDE DEF n, v
  <1>3. Countable(asking, v) /\ v[t] \in Nat
    BY <1>1 DEF Counted, v
  <1>4. /\ Countable(asking', v) /\ BagLoad(asking', v) \in Nat /\ BagLoad(asking, v) \in Nat
        /\ BagLoad(asking', v) <= BagLoad(asking, v) + k
    BY <1>3, BagAddTokens
  <1>5. Counted(K, w)'
    BY <1>2, <1>4 DEF Counted, v
  <1> DEFINE m0 == BoxLoad(mbox, w)
             m1 == BoxLoad(mbox', w)
             x  == BoxLoad(Wire(fromBroker), WireWeight(K, w))
             y  == BagLoad(resends, ResendWeight(K, w))
             z  == BagLoad(timers, v)
             p0 == BagLoad(asking, v)
             p1 == BagLoad(asking', v)
             q  == BagLoad(answered, AnswerWeight(K, w))
  <1>6. Load(K, w) = m0 + x + y + z + p0 + q /\ Load(K, w)' = m1 + x + y + z + p1 + q
    BY LoadParts DEF v
  <1>7. m0 \in Nat /\ x \in Nat /\ y \in Nat /\ z \in Nat /\ p0 \in Nat /\ q \in Nat
    BY LoadsAreNat DEF v
  <1>8. m1 \in Nat /\ m1 + n <= m0 /\ p1 \in Nat /\ p1 <= p0 + k
    BY <1>2, <1>4
  <1> HIDE DEF m0, m1, x, y, z, p0, p1, q, k
  <1>9. m1 + x + y + z + p1 + q <= m0 + x + y + z + p0 + q
    BY <1>1, <1>2, <1>7, <1>8
  <1>10. Load(K, w)' <= Load(K, w)
    BY <1>6, <1>9, Zenon
  <1> QED
    BY <1>5, <1>10 DEF Lightens

\* A task ends, and adds no more than its answer weighs.
LEMMA TaskEnds ==
    ASSUME NEW K, SessionOK(K), Wired(K), NEW w, Weighed(K, w), Counted(K, w),
           NEW r \in BagToSet(answered), answered' = BagRemove(answered, r),
           NEW n \in Nat, n <= AnswerWeight(K, w)[r], Adds(K, w, mbox, n),
           UNCHANGED <<asking, fromBroker>>
    PROVE  Lightens(K, w)
  <1> DEFINE u == AnswerWeight(K, w)
             k == u[r]
  <1>1. k \in Nat /\ n <= k
    <2>1. r \in [task : K.tasks, answer : Answer]
      BY DEF SessionOK
    <2> QED
      BY <2>1, WeightsAreNat
  <1> HIDE DEF u
  <1>2. Countable(answered, u) /\ u[r] \in Nat
    BY <1>1 DEF Counted, u
  <1>3. /\ Countable(answered', u) /\ BagLoad(answered', u) \in Nat /\ BagLoad(answered, u) \in Nat
        /\ BagLoad(answered', u) + k <= BagLoad(answered, u)
    BY <1>2, BagRemoveTokens
  <1>4. Counted(K, w)'
    BY <1>3 DEF Counted, Adds, u
  <1> DEFINE m0 == BoxLoad(mbox, w)
             m1 == BoxLoad(mbox', w)
             x  == BoxLoad(Wire(fromBroker), WireWeight(K, w))
             y0 == BagLoad(resends, ResendWeight(K, w))
             y1 == BagLoad(resends', ResendWeight(K, w))
             z0 == BagLoad(timers, TaskWeight(K, w))
             z1 == BagLoad(timers', TaskWeight(K, w))
             p  == BagLoad(asking, TaskWeight(K, w))
             q0 == BagLoad(answered, u)
             q1 == BagLoad(answered', u)
  <1>5. Load(K, w) = m0 + x + y0 + z0 + p + q0 /\ Load(K, w)' = m1 + x + y1 + z1 + p + q1
    BY LoadParts DEF u
  <1>6. m0 \in Nat /\ x \in Nat /\ y0 \in Nat /\ z0 \in Nat /\ p \in Nat /\ q0 \in Nat
    BY LoadsAreNat DEF u
  <1>7. m1 \in Nat /\ y1 \in Nat /\ z1 \in Nat /\ m1 + y1 + z1 <= m0 + y0 + z0 + n
    BY DEF Adds
  <1>8. q1 \in Nat /\ q1 + k <= q0
    BY <1>3
  <1> HIDE DEF m0, m1, x, y0, y1, z0, z1, p, q0, q1, k
  <1>9. m1 + x + y1 + z1 + p + q1 <= m0 + x + y0 + z0 + p + q0
    BY <1>1, <1>6, <1>7, <1>8
  <1>10. Load(K, w)' <= Load(K, w)
    BY <1>5, <1>9, Zenon
  <1> QED
    BY <1>4, <1>10 DEF Lightens

LEMMA LoadIsNatNext ==
    ASSUME NEW K, NEW w, Counted(K, w)'
    PROVE  Load(K, w)' \in Nat
  <1>1. /\ BoxLoad(mbox', w) \in Nat
        /\ BoxLoad(Wire(fromBroker'), WireWeight(K, w)) \in Nat
        /\ BagLoad(resends', ResendWeight(K, w)) \in Nat
        /\ BagLoad(timers', TaskWeight(K, w)) \in Nat
        /\ BagLoad(asking', TaskWeight(K, w)) \in Nat
        /\ BagLoad(answered', AnswerWeight(K, w)) \in Nat
    BY FS_CardinalityType DEF Counted, BoxCountable, BoxLoad, Countable, BagLoad
  <1> QED
    BY <1>1, LoadParts

\* A handler that has already added k to the mailboxes.
LEMMA AddsOn ==
    ASSUME NEW K, NEW w, Counted(K, w), NEW box, NEW new, NEW k \in Nat, NEW n \in Nat, NEW m \in Nat,
           BoxCountable(box, w), BoxCountable(new, w),
           BoxLoad(new, w) <= BoxLoad(box, w) + k, Adds(K, w, new, n), k + n <= m
    PROVE  Adds(K, w, box, m)
  <1> DEFINE b0 == BoxLoad(box, w)
             b1 == BoxLoad(new, w)
             m1 == BoxLoad(mbox', w)
             y0 == BagLoad(resends, ResendWeight(K, w))
             y1 == BagLoad(resends', ResendWeight(K, w))
             z0 == BagLoad(timers, TaskWeight(K, w))
             z1 == BagLoad(timers', TaskWeight(K, w))
  <1>1. b0 \in Nat /\ b1 \in Nat /\ b1 <= b0 + k
    BY FS_CardinalityType DEF BoxCountable, BoxLoad
  <1>2. y0 \in Nat /\ z0 \in Nat
    BY LoadsAreNat
  <1>3. m1 \in Nat /\ y1 \in Nat /\ z1 \in Nat /\ m1 + y1 + z1 <= b1 + y0 + z0 + n
    BY DEF Adds
  <1> HIDE DEF b0, b1, m1, y0, y1, z0, z1
  <1>4. m1 + y1 + z1 <= b0 + y0 + z0 + m
    BY <1>1, <1>2, <1>3
  <1> QED
    BY <1>4 DEF Adds, b0, m1, y0, y1, z0, z1

\* A mailbox gets a message that weighs no more than n.
LEMMA MailboxGains ==
    ASSUME NEW K, NEW w, Counted(K, w), NEW n \in Nat,
           BoxCountable(mbox', w), BoxLoad(mbox', w) \in Nat, BoxLoad(mbox', w) <= BoxLoad(mbox, w) + n,
           UNCHANGED <<resends, timers, asking, answered, fromBroker>>
    PROVE  Counted(K, w)' /\ Load(K, w)' <= Load(K, w) + n
  <1>1. Counted(K, w)'
    BY DEF Counted
  <1> DEFINE m0 == BoxLoad(mbox, w)
             m1 == BoxLoad(mbox', w)
             x  == BoxLoad(Wire(fromBroker), WireWeight(K, w))
             y  == BagLoad(resends, ResendWeight(K, w))
             z  == BagLoad(timers, TaskWeight(K, w))
             p  == BagLoad(asking, TaskWeight(K, w))
             q  == BagLoad(answered, AnswerWeight(K, w))
  <1>2. Load(K, w) = m0 + x + y + z + p + q /\ Load(K, w)' = m1 + x + y + z + p + q
    BY LoadParts
  <1>3. m0 \in Nat /\ x \in Nat /\ y \in Nat /\ z \in Nat /\ p \in Nat /\ q \in Nat
    BY LoadsAreNat
  <1>4. m1 \in Nat /\ m1 <= m0 + n
    OBVIOUS
  <1> HIDE DEF m0, m1, x, y, z, p, q
  <1>5. m1 + x + y + z + p + q <= (m0 + x + y + z + p + q) + n
    BY <1>3, <1>4
  <1> QED
    BY <1>1, <1>2, <1>5, Zenon

LEMMA Rearranged ==
    ASSUME NEW m \in Nat, NEW x \in Nat, NEW y \in Nat, NEW z \in Nat, NEW p \in Nat, NEW q \in Nat
    PROVE  /\ m + y + z \in Nat /\ x + p + q \in Nat
           /\ m + x + y + z + p + q = (m + y + z) + (x + p + q)
  OBVIOUS

LEMMA Spent ==
    ASSUME NEW b \in Nat, NEW n \in Nat, NEW k \in Nat, NEW m0 \in Nat, NEW m1 \in Nat,
           NEW y0 \in Nat, NEW y1 \in Nat, NEW z0 \in Nat, NEW z1 \in Nat,
           b + n + k <= m0, m1 + y1 + z1 <= b + y0 + z0 + n
    PROVE  (m1 + y1 + z1) + k <= m0 + y0 + z0
  OBVIOUS

\* A handler that keeps k of what the message it has taken weighs.
LEMMA HandlerSpends ==
    ASSUME NEW K, SessionOK(K), NEW w, Weighed(K, w), Counted(K, w),
           NEW a \in Actor, mbox[a] # <<>>, NEW n \in Nat, NEW k \in Nat, n + k <= w[a][Head(mbox[a])],
           Adds(K, w, Take(a), n), UNCHANGED <<asking, answered, fromBroker>>
    PROVE  Counted(K, w)' /\ Load(K, w)' + k <= Load(K, w)
  <1>1. /\ BoxLoad(Take(a), w) \in Nat /\ w[a][Head(mbox[a])] \in Nat /\ BoxLoad(mbox, w) \in Nat
        /\ BoxLoad(Take(a), w) + w[a][Head(mbox[a])] <= BoxLoad(mbox, w)
    BY TakeLoad, LoadsAreNat DEF Counted
  <1>2. Counted(K, w)'
    BY DEF Counted, Adds
  <1> DEFINE b  == BoxLoad(Take(a), w)
             m0 == BoxLoad(mbox, w)
             m1 == BoxLoad(mbox', w)
             x  == BoxLoad(Wire(fromBroker), WireWeight(K, w))
             y0 == BagLoad(resends, ResendWeight(K, w))
             y1 == BagLoad(resends', ResendWeight(K, w))
             z0 == BagLoad(timers, TaskWeight(K, w))
             z1 == BagLoad(timers', TaskWeight(K, w))
             p  == BagLoad(asking, TaskWeight(K, w))
             q  == BagLoad(answered, AnswerWeight(K, w))
  <1>3. Load(K, w) = m0 + x + y0 + z0 + p + q /\ Load(K, w)' = m1 + x + y1 + z1 + p + q
    BY LoadParts
  <1>4. m0 \in Nat /\ x \in Nat /\ y0 \in Nat /\ z0 \in Nat /\ p \in Nat /\ q \in Nat
    BY LoadsAreNat
  <1>5. m1 \in Nat /\ y1 \in Nat /\ z1 \in Nat /\ m1 + y1 + z1 <= b + y0 + z0 + n
    BY DEF Adds
  <1>6. b \in Nat /\ b + n + k <= m0
    BY <1>1
  <1> HIDE DEF b, m0, m1, x, y0, y1, z0, z1, p, q
  <1>7. (m1 + y1 + z1) + k <= m0 + y0 + z0
    BY <1>4, <1>5, <1>6, Spent
  <1> DEFINE s0 == m0 + y0 + z0
             s1 == m1 + y1 + z1
             s  == x + p + q
  <1>8. /\ s0 \in Nat /\ s1 \in Nat /\ s \in Nat
        /\ Load(K, w) = s0 + s /\ Load(K, w)' = s1 + s
    <2>1. s0 \in Nat /\ s \in Nat /\ m0 + x + y0 + z0 + p + q = s0 + s
      BY <1>4, Rearranged
    <2>2. s1 \in Nat /\ m1 + x + y1 + z1 + p + q = s1 + s
      BY <1>4, <1>5, Rearranged
    <2> QED
      BY <1>3, <2>1, <2>2, Zenon
  <1>9. s1 + k <= s0
    BY <1>7
  <1> HIDE DEF s0, s1, s
  <1>10. (s1 + s) + k <= s0 + s
    BY <1>8, <1>9
  <1> QED
    BY <1>2, <1>8, <1>10, Zenon

=============================================================================
