-------------------------- MODULE ZoningChatProofs --------------------------
(***************************************************************************)
(* Type correctness of ZoningChat, that party lines stay in the party, and *)
(* that a zone change is covered from SendToZone to the insertion in the   *)
(* zone.                                                                   *)
(***************************************************************************)
EXTENDS ZoningChat, TLAPS

(* Appending to one queue of a family keeps the family's type.             *)
LEMMA QueueAppend ==
  ASSUME NEW S, NEW K, NEW f \in [K -> Seq(S)], NEW k \in K, NEW x \in S
  PROVE  [f EXCEPT ![k] = Append(@, x)] \in [K -> Seq(S)]
OBVIOUS

(* So does consuming its head, which is a message of the queue.            *)
LEMMA QueueTail ==
  ASSUME NEW S, NEW K, NEW f \in [K -> Seq(S)], NEW k \in K, f[k] # << >>
  PROVE  /\ Head(f[k]) \in S
         /\ Head(f[k]) = f[k][1] /\ 1 \in 1..Len(f[k])
         /\ [f EXCEPT ![k] = Tail(@)] \in [K -> Seq(S)]
OBVIOUS

(* The positions of a tail are those of the queue, one further on.         *)
LEMMA TailSlot ==
  ASSUME NEW S, NEW s \in Seq(S), s # << >>, NEW i \in 1..Len(Tail(s))
  PROVE  i + 1 \in 1..Len(s) /\ i + 1 # 1 /\ Tail(s)[i] = s[i + 1]
OBVIOUS

(* The fields of a message, by its type.                                   *)
LEMMA MessageFields ==
  ASSUME NEW p \in Message
  PROVE  /\ p.type \in {"Tell", "TellRetry"} => p.line \in Tells
         /\ p.type = "Party" => p.line \in Groups
         /\ p.type \in {"Targeted", "TargetedRetry"} =>
              p.line \in Groups /\ p.to \subseteq Chars /\ p.retry \in Retries
         /\ p.type = "CharZone" =>
              p.char \in Chars /\ p.dest \in Maps /\ p.inParty \in BOOLEAN
         /\ p.type = "ChatZoneReady" => p.char \in Chars
BY DEF Message, TellMsg, PartyMsg, TargetedMsg, CharZoneMsg, ReadyMsg

(* What the constructors build are messages.                               *)
LEMMA MessageTypes ==
  /\ Held \subseteq Message
  /\ \A t \in Tells : /\ Tell(t) \in Held /\ Tell(t) \in Message
                      /\ TellRetry(t) \in Message
  /\ \A g \in Groups : Party(g) \in Message
  /\ \A g \in Groups, cs \in SUBSET Chars, n \in Retries :
        /\ Targeted(g, cs, n) \in Held /\ Targeted(g, cs, n) \in Message
        /\ TargetedRetry(g, cs, n) \in Message
  /\ \A c \in Chars, m \in Maps, b \in BOOLEAN : CharZone(c, m, b) \in Message
  /\ \A c \in Chars : ChatZoneReady(c) \in Message
BY DEF Held, Message, TellMsg, PartyMsg, TargetedMsg, CharZoneMsg, ReadyMsg,
       Tell, TellRetry, Party, Targeted, TargetedRetry, CharZone, ChatZoneReady

(* Sending to world preserves the type of the links to world.              *)
LEMMA SendType ==
  ASSUME ToWorldTypeOK, NEW q \in Peers, NEW p \in Message, Send(q, p),
         p.type = "ChatZoneReady" => q \in Maps
  PROVE  ToWorldTypeOK'
<1>1. toWorld' \in [Peers -> Seq(Message)]
  BY QueueAppend DEF ToWorldTypeOK, Send
<1>2. ASSUME NEW r \in Peers, NEW i \in 1..Len(toWorld'[r]),
             toWorld'[r][i].type = "ChatZoneReady"
      PROVE  r \in Maps
  <2>1. CASE r # q
    BY <1>2, <2>1 DEF ToWorldTypeOK, Send
  <2>2. CASE r = q
    <3>1. toWorld'[q] = Append(toWorld[q], p) /\ toWorld[q] \in Seq(Message)
      BY DEF ToWorldTypeOK, Send
    <3>2. CASE i = Len(toWorld[q]) + 1
      BY <1>2, <2>2, <3>1, <3>2
    <3>3. CASE i \in 1..Len(toWorld[q])
      BY <1>2, <2>2, <3>1, <3>3 DEF ToWorldTypeOK
    <3>4. i = Len(toWorld[q]) + 1 \/ i \in 1..Len(toWorld[q])
      BY <2>2, <3>1
    <3>5. QED BY <3>2, <3>3, <3>4
  <2>3. QED BY <2>1, <2>2
<1>3. QED BY <1>1, <1>2 DEF ToWorldTypeOK

(* So does receiving from a peer.                                          *)
LEMMA ReceiveType ==
  ASSUME ToWorldTypeOK, NEW q \in Peers, toWorld[q] # << >>,
         toWorld' = [toWorld EXCEPT ![q] = Tail(@)]
  PROVE  ToWorldTypeOK' /\ Head(toWorld[q]) \in Message
         /\ (Head(toWorld[q]).type = "ChatZoneReady" => q \in Maps)
<1>1. /\ Head(toWorld[q]) \in Message
      /\ Head(toWorld[q]) = toWorld[q][1] /\ 1 \in 1..Len(toWorld[q])
      /\ toWorld' \in [Peers -> Seq(Message)]
  BY QueueTail DEF ToWorldTypeOK
<1>2. ASSUME NEW r \in Peers, NEW i \in 1..Len(toWorld'[r]),
             toWorld'[r][i].type = "ChatZoneReady"
      PROVE  r \in Maps
  <2>1. CASE r # q
    BY <1>2, <2>1 DEF ToWorldTypeOK
  <2>2. CASE r = q
    <3>1. toWorld'[q] = Tail(toWorld[q]) /\ toWorld[q] \in Seq(Message)
      BY DEF ToWorldTypeOK
    <3>a. i \in 1..Len(Tail(toWorld[q]))
      BY <2>2, <3>1
    <3>b. i + 1 \in 1..Len(toWorld[q]) /\ Tail(toWorld[q])[i] = toWorld[q][i + 1]
      BY <3>1, <3>a, TailSlot
    <3>2. i + 1 \in 1..Len(toWorld[q]) /\ toWorld'[q][i] = toWorld[q][i + 1]
      BY <3>1, <3>b
    <3>3. QED BY <1>2, <2>2, <3>2 DEF ToWorldTypeOK
  <2>3. QED BY <2>1, <2>2
<1>3. QED BY <1>1, <1>2 DEF ToWorldTypeOK

(* Forwarding to a map preserves the type of the links to maps.            *)
LEMMA ForwardType ==
  ASSUME ToMapTypeOK, NEW m \in Maps, NEW p \in Message,
         toMap' = [toMap EXCEPT ![m] = Append(@, p)]
  PROVE  ToMapTypeOK'
BY QueueAppend DEF ToMapTypeOK

(* The initial states are of the right type.                               *)
LEMMA InitType == Init => TypeOK
<1> SUFFICES ASSUME Init PROVE TypeOK
  OBVIOUS
<1> USE PeersAssumption, ChatAssumption, BoundsAssumption DEF Init
<1>1. DbTypeOK
  BY DEF DbTypeOK
<1>2. MapTypeOK
  BY DEF MapTypeOK, Stages
<1>3. WorldTypeOK
  BY DEF WorldTypeOK
<1>4. ToMapTypeOK /\ ToWorldTypeOK
  BY DEF ToMapTypeOK, ToWorldTypeOK
<1>5. HistoryTypeOK
  BY DEF HistoryTypeOK
<1>6. QED
  BY <1>1, <1>2, <1>3, <1>4, <1>5 DEF TypeOK

(* Sending a tell or a party line preserves TypeOK.                        *)
LEMMA SendingType ==
  ASSUME TypeOK,
         \/ \E t \in Tells : SendTell(t)
         \/ \E g \in Groups : SendParty(g)
  PROVE  TypeOK'
<1> USE DEF dbVars, mapVars, worldVars
<1>1. ASSUME NEW t \in Tells, SendTell(t) PROVE TypeOK'
  <2>1. ToWorldTypeOK'
    <3>1. at[Sender[t]] \in Maps /\ Send(at[Sender[t]], Tell(t)) /\ Tell(t) \in Message
      BY <1>1, MessageTypes, ChatAssumption DEF SendTell, TypeOK, MapTypeOK, Lines
    <3>2. QED BY <3>1, SendType DEF TypeOK, Peers
  <2>2. HistoryTypeOK' /\ DbTypeOK' /\ MapTypeOK' /\ WorldTypeOK' /\ ToMapTypeOK'
    BY <1>1 DEF SendTell, TypeOK, DbTypeOK, MapTypeOK, WorldTypeOK, ToMapTypeOK,
       HistoryTypeOK, Lines
  <2>3. QED BY <2>1, <2>2 DEF TypeOK
<1>2. ASSUME NEW g \in Groups, SendParty(g) PROVE TypeOK'
  <2>1. ToWorldTypeOK'
    <3>1. at[Sender[g]] \in Maps /\ Send(at[Sender[g]], Party(g)) /\ Party(g) \in Message
      BY <1>2, MessageTypes, ChatAssumption DEF SendParty, TypeOK, MapTypeOK, Lines
    <3>2. QED BY <3>1, SendType DEF TypeOK, Peers
  <2>2. HistoryTypeOK' /\ DbTypeOK' /\ MapTypeOK' /\ WorldTypeOK' /\ ToMapTypeOK'
    BY <1>2 DEF SendParty, TypeOK, DbTypeOK, MapTypeOK, WorldTypeOK, ToMapTypeOK,
       HistoryTypeOK, Lines
  <2>3. QED BY <2>1, <2>2 DEF TypeOK
<1>3. QED BY <1>1, <1>2

(* Counting an answer preserves the type of the counters.                  *)
LEMMA AnswerType ==
  ASSUME HistoryTypeOK, NEW l \in Lines, NEW cs, Answer(l, cs)
  PROVE  answers' \in [Lines -> [Chars -> Nat]]
BY DEF HistoryTypeOK, Answer

(* Reporting a tell undelivered preserves the type of the history.         *)
LEMMA BounceType ==
  ASSUME HistoryTypeOK, NEW t \in Tells, Bounce(t)
  PROVE  answers' \in [Lines -> [Chars -> Nat]] /\ bounced' \subseteq Tells
BY AnswerType DEF Bounce, HistoryTypeOK, Lines

(* ZoningChatBuffer::enqueue preserves the type and the size limit.        *)
LEMMA EnqueueType ==
  ASSUME WorldTypeOK, NEW c \in Chars, NEW p \in Held, Enqueue(c, p)
  PROVE  WorldTypeOK'
<1>1. buf' \in [Chars -> Seq(Held)]
  BY QueueAppend DEF WorldTypeOK, Enqueue
<1>2. ASSUME NEW d \in Chars PROVE Len(buf'[d]) <= MaxMessagesPerChar
  <2>1. Len(Append(buf[c], p)) = Len(buf[c]) + 1 /\ Len(buf[c]) \in Nat
    BY DEF WorldTypeOK
  <2>2. QED BY <2>1, BoundsAssumption DEF WorldTypeOK, Enqueue, Room
<1>3. QED BY <1>1, <1>2 DEF WorldTypeOK, Enqueue

(* Erasing a transition preserves the type of the buffers.                 *)
LEMMA EraseType ==
  ASSUME WorldTypeOK, NEW c \in Chars, EraseTransition(c)
  PROVE  WorldTypeOK'
BY BoundsAssumption DEF WorldTypeOK, EraseTransition

(* Every message world handles preserves TypeOK.                           *)
LEMMA WorldType ==
  ASSUME TypeOK, NEW q \in Peers, WorldNext(q)
  PROVE  TypeOK'
<1> USE DEF dbVars, mapVars, worldVars, history
<1> DEFINE p == Head(toWorld[q])
<1>1. CASE WorldTell(q)
  <2>1. ToWorldTypeOK' /\ p.line \in Tells
    BY <1>1, ReceiveType, MessageFields DEF TypeOK, WorldTell, Receive
  <2>2. DbTypeOK' /\ MapTypeOK'
    BY <1>1 DEF WorldTell, TypeOK, DbTypeOK, MapTypeOK
  <2> DEFINE c == Recipient[p.line]
  <2>3. c \in Chars /\ Tell(p.line) \in Held /\ Tell(p.line) \in Message /\ row[c] \in Maps \cup {NoMap}
    BY <2>1, MessageTypes, ChatAssumption DEF TypeOK, DbTypeOK
  <2>4. WorldTypeOK'
    BY <1>1, <2>3, EnqueueType DEF WorldTell, TypeOK, WorldTypeOK
  <2>5. ToMapTypeOK'
    <3>1. \/ toMap' = toMap
          \/ row[c] \in Maps /\ toMap' = [toMap EXCEPT ![row[c]] = Append(@, Tell(p.line))]
      BY <1>1, <2>3 DEF WorldTell
    <3>2. CASE toMap' = toMap
      BY <3>2 DEF TypeOK, ToMapTypeOK
    <3>3. QED BY <2>3, <3>1, <3>2, ForwardType DEF TypeOK
  <2>6. HistoryTypeOK'
    BY <1>1, <2>1, <2>3, BounceType DEF WorldTell, TypeOK, HistoryTypeOK
  <2>7. QED BY <2>1, <2>2, <2>4, <2>5, <2>6 DEF TypeOK
<1>2. CASE WorldTellRetry(q)
  <2>1. ToWorldTypeOK' /\ p.line \in Tells
    BY <1>2, ReceiveType, MessageFields DEF TypeOK, WorldTellRetry, Receive
  <2>2. DbTypeOK' /\ MapTypeOK' /\ ToMapTypeOK'
    BY <1>2 DEF WorldTellRetry, TypeOK, DbTypeOK, MapTypeOK, ToMapTypeOK
  <2> DEFINE c == Recipient[p.line]
  <2>3. c \in Chars /\ Tell(p.line) \in Held
    BY <2>1, MessageTypes, ChatAssumption
  <2>4. WorldTypeOK'
    BY <1>2, <2>3, EnqueueType DEF WorldTellRetry, TypeOK, WorldTypeOK
  <2>6. HistoryTypeOK'
    BY <1>2, <2>1, <2>3, BounceType DEF WorldTellRetry, TypeOK, HistoryTypeOK
  <2>7. QED BY <2>1, <2>2, <2>4, <2>6 DEF TypeOK
<1>3. CASE WorldParty(q)
  <2>1. ToWorldTypeOK' /\ p.line \in Groups
    BY <1>3, ReceiveType, MessageFields DEF TypeOK, WorldParty, Receive
  <2>2. DbTypeOK' /\ MapTypeOK' /\ HistoryTypeOK'
    BY <1>3 DEF WorldParty, TypeOK, DbTypeOK, MapTypeOK, HistoryTypeOK, Routed, SnapshotOnly, WorldTypeOK
  <2> DEFINE held == {c \in Routed(p.line) : IsZoning(c)} \cup SnapshotOnly(p.line)
             on(m) == {c \in Routed(p.line) \ held : row[c] = m}
  <2>3. held \subseteq Chars /\ \A m \in Maps : on(m) \subseteq Chars
    BY DEF Routed, SnapshotOnly, TypeOK, DbTypeOK, WorldTypeOK
  <2>4. /\ trans' = trans \cup held /\ snap' = snap
        /\ buf' = [c \in Chars |->
                        IF c \in held /\ Room(c)
                        THEN Append(buf[c], Targeted(p.line, {c}, 0)) ELSE buf[c]]
        /\ toMap' = [m \in Maps |->
                        IF on(m) = {} THEN toMap[m]
                        ELSE Append(toMap[m], Targeted(p.line, on(m), 0))]
    BY <1>3 DEF WorldParty
  <2>5. 0 \in Retries
    BY BoundsAssumption DEF Retries
  <2>6. WorldTypeOK'
    <3>1. ASSUME NEW c \in Chars
          PROVE  buf'[c] \in Seq(Held) /\ Len(buf'[c]) <= MaxMessagesPerChar
      <4>1. Targeted(p.line, {c}, 0) \in Held
        BY <2>1, <2>5, MessageTypes
      <4>2. buf[c] \in Seq(Held) /\ Len(buf[c]) <= MaxMessagesPerChar
        BY DEF TypeOK, WorldTypeOK
      <4>3. QED BY <2>4, <4>1, <4>2, BoundsAssumption DEF Room
    <3>2. QED BY <2>3, <2>4, <3>1 DEF TypeOK, WorldTypeOK
  <2>7. ToMapTypeOK'
    <3>1. ASSUME NEW m \in Maps PROVE toMap'[m] \in Seq(Message)
      <4>1. Targeted(p.line, on(m), 0) \in Message
        BY <2>1, <2>3, <2>5, MessageTypes
      <4>2. toMap[m] \in Seq(Message)
        BY DEF TypeOK, ToMapTypeOK
      <4>3. toMap'[m] = IF on(m) = {} THEN toMap[m] ELSE Append(toMap[m], Targeted(p.line, on(m), 0))
        BY <2>4
      <4>. HIDE DEF on
      <4>4. QED BY <4>1, <4>2, <4>3
    <3>2. QED BY <2>4, <3>1 DEF ToMapTypeOK
  <2>8. QED BY <2>1, <2>2, <2>6, <2>7 DEF TypeOK
<1>4. CASE WorldTargetedRetry(q)
  <2>1. p \in Message /\ toWorld[q] \in Seq(Message) /\ toWorld[q] # << >>
        /\ p.type = "TargetedRetry" /\ Tail(toWorld[q]) \in Seq(Message)
    BY <1>4, QueueTail DEF WorldTargetedRetry, TypeOK, ToWorldTypeOK
  <2>2. p.line \in Groups /\ p.to \subseteq Chars /\ p.retry \in Retries
    BY <2>1, MessageFields
  <2>3. PICK c \in p.to :
            /\ toWorld' = [toWorld EXCEPT ![q] =
                  IF p.to = {c} THEN Tail(@)
                  ELSE <<TargetedRetry(p.line, p.to \ {c}, p.retry)>> \o Tail(@)]
            /\ LET held == row[c] # NoMap /\ IsZoning(c)
               IN \/ /\ held
                     /\ Enqueue(c, Targeted(p.line, {c}, p.retry))
                     /\ UNCHANGED <<toMap, disturbed>>
                  \/ /\ held /\ ~Room(c)
                     /\ disturbed' = disturbed \cup {c}
                     /\ UNCHANGED <<worldVars, toMap>>
                  \/ /\ row[c] # NoMap /\ ~held /\ p.retry < MaxTargetedChatRetries
                     /\ toMap' = [toMap EXCEPT ![row[c]] =
                                    Append(@, Targeted(p.line, {c}, p.retry + 1))]
                     /\ UNCHANGED <<worldVars, disturbed>>
                  \/ /\ ~held /\ (row[c] = NoMap \/ p.retry = MaxTargetedChatRetries)
                     /\ UNCHANGED <<worldVars, toMap, disturbed>>
    BY <1>4 DEF WorldTargetedRetry
  <2>4. c \in Chars /\ Targeted(p.line, {c}, p.retry) \in Held
        /\ row[c] \in Maps \cup {NoMap}
        /\ (p.retry < MaxTargetedChatRetries => Targeted(p.line, {c}, p.retry + 1) \in Message)
    <3>1. c \in Chars /\ {c} \in SUBSET Chars /\ row[c] \in Maps \cup {NoMap}
      BY <2>2 DEF TypeOK, DbTypeOK
    <3>2. p.retry < MaxTargetedChatRetries => p.retry + 1 \in Retries
      BY <2>2, BoundsAssumption DEF Retries
    <3>3. QED BY <2>2, <3>1, <3>2, MessageTypes
  <2>5. DbTypeOK' /\ MapTypeOK' /\ HistoryTypeOK'
    <3>1. UNCHANGED <<dbVars, mapVars, sent, answers, bounced, leaked, moves>>
      BY <1>4 DEF WorldTargetedRetry
    <3>2. disturbed' \subseteq Chars
      BY <2>3, <2>4 DEF TypeOK, HistoryTypeOK
    <3>3. QED BY <3>1, <3>2 DEF TypeOK, DbTypeOK, MapTypeOK, HistoryTypeOK
  <2>6. WorldTypeOK'
    BY <2>3, <2>4, EnqueueType DEF TypeOK, WorldTypeOK
  <2>7. ToMapTypeOK'
    <3> DEFINE r == Targeted(p.line, {c}, p.retry + 1)
    <3>1. \/ toMap' = toMap
          \/ row[c] \in Maps /\ r \in Message /\ toMap' = [toMap EXCEPT ![row[c]] = Append(@, r)]
      BY <2>3, <2>4
    <3> HIDE DEF r
    <3>2. CASE toMap' = toMap
      BY <3>2 DEF TypeOK, ToMapTypeOK
    <3>3. QED BY <3>1, <3>2, ForwardType DEF TypeOK
  <2>8. ToWorldTypeOK'
    <3> DEFINE r == TargetedRetry(p.line, p.to \ {c}, p.retry)
               s == toWorld'[q]
    <3>1. r \in Message /\ r.type = "TargetedRetry"
      BY <2>2, MessageTypes DEF TargetedRetry
    <3>2. s = Tail(toWorld[q]) \/ s = <<r>> \o Tail(toWorld[q])
      BY <2>3 DEF TypeOK, ToWorldTypeOK
    <3>3. s \in Seq(Message)
      <4>1. <<r>> \in Seq(Message)
        BY <3>1
      <4> HIDE DEF r, s
      <4>2. QED BY <2>1, <3>2, <4>1, SMTT(60)
    <3>4. ASSUME NEW i \in 1..Len(s), s[i].type = "ChatZoneReady" PROVE q \in Maps
      <4>1. CASE s = Tail(toWorld[q])
        <5>1. i + 1 \in 1..Len(toWorld[q]) /\ s[i] = toWorld[q][i + 1]
          BY <2>1, <4>1, TailSlot
        <5>2. QED BY <3>4, <5>1 DEF TypeOK, ToWorldTypeOK
      <4>2. CASE s = <<r>> \o Tail(toWorld[q])
        <5>1. CASE i = 1
          BY <3>1, <3>4, <4>2, <5>1, <2>1
        <5>2. CASE i # 1
          <6>1. i \in 1..Len(toWorld[q]) /\ s[i] = toWorld[q][i]
            BY <4>2, <5>2, <2>1
          <6>2. QED BY <3>4, <6>1 DEF TypeOK, ToWorldTypeOK
        <5>3. QED BY <5>1, <5>2
      <4>3. QED BY <3>2, <4>1, <4>2
    <3>5. ASSUME NEW k \in Peers, k # q PROVE toWorld'[k] = toWorld[k]
      BY <2>3, <3>5 DEF TypeOK, ToWorldTypeOK
    <3>6. toWorld' \in [Peers -> Seq(Message)]
      BY <2>3, <3>3, <3>5 DEF TypeOK, ToWorldTypeOK
    <3>7. QED BY <3>4, <3>5, <3>6 DEF TypeOK, ToWorldTypeOK
  <2>9. QED BY <2>5, <2>6, <2>7, <2>8 DEF TypeOK
<1>5. CASE WorldCharZone(q)
  <2>1. ToWorldTypeOK' /\ p \in Message /\ p.char \in Chars /\ p.dest \in Maps
    BY <1>5, ReceiveType, MessageFields DEF TypeOK, WorldCharZone, Receive
  <2>2. DbTypeOK' /\ MapTypeOK' /\ HistoryTypeOK'
    BY <1>5 DEF WorldCharZone, TypeOK, DbTypeOK, MapTypeOK, HistoryTypeOK
  <2>3. WorldTypeOK'
    BY <1>5, <2>1 DEF WorldCharZone, TypeOK, WorldTypeOK
  <2>4. ToMapTypeOK'
    BY <1>5, <2>1, QueueAppend DEF WorldCharZone, TypeOK, ToMapTypeOK
  <2>5. QED BY <2>1, <2>2, <2>3, <2>4 DEF TypeOK
<1>6. CASE WorldChatZoneReady(q)
  <2>1. ToWorldTypeOK' /\ p.char \in Chars /\ q \in Maps
    BY <1>6, ReceiveType, MessageFields DEF TypeOK, WorldChatZoneReady, Receive
  <2>2. DbTypeOK' /\ MapTypeOK' /\ HistoryTypeOK'
    BY <1>6 DEF WorldChatZoneReady, TypeOK, DbTypeOK, MapTypeOK, HistoryTypeOK
  <2>3. WorldTypeOK'
    BY <1>6, <2>1, EraseType DEF WorldChatZoneReady, TypeOK
  <2>4. ToMapTypeOK'
    <3>1. buf[p.char] \in Seq(Message)
      <4>1. buf[p.char] \in Seq(Held)
        BY <2>1 DEF TypeOK, WorldTypeOK
      <4>2. QED BY <4>1, MessageTypes
    <3>2. toMap[q] \in Seq(Message)
      BY <2>1 DEF TypeOK, ToMapTypeOK
    <3>3. toMap[q] \o buf[p.char] \in Seq(Message)
      BY <3>1, <3>2
    <3>4. QED BY <1>6, <2>1, <3>3 DEF WorldChatZoneReady, TypeOK, ToMapTypeOK
  <2>5. QED BY <2>1, <2>2, <2>3, <2>4 DEF TypeOK
<1>7. QED BY <1>1, <1>2, <1>3, <1>4, <1>5, <1>6 DEF WorldNext

(* The expiry of a transition preserves TypeOK.                            *)
LEMMA ExpireType ==
  ASSUME TypeOK, NEW c \in Chars, ExpireTransition(c)
  PROVE  TypeOK'
<1> USE DEF ExpireTransition, dbVars, mapVars
<1>1. DbTypeOK' /\ MapTypeOK' /\ ToMapTypeOK' /\ ToWorldTypeOK'
  BY DEF TypeOK, DbTypeOK, MapTypeOK, ToMapTypeOK, ToWorldTypeOK
<1>2. WorldTypeOK'
  BY EraseType DEF TypeOK
<1>3. HistoryTypeOK'
  BY DEF TypeOK, HistoryTypeOK, HeldTells
<1>4. QED BY <1>1, <1>2, <1>3 DEF TypeOK

(* Every message a map handles preserves TypeOK.                           *)
LEMMA MapType ==
  ASSUME TypeOK, NEW m \in Maps, MapNext(m)
  PROVE  TypeOK'
<1> USE DEF dbVars, mapVars, worldVars, history
<1> DEFINE p == Head(toMap[m])
<1>0. ToMapTypeOK' /\ p \in Message /\ m \in Peers
  <2>1. toMap[m] # << >> /\ toMap' = [toMap EXCEPT ![m] = Tail(@)]
    BY DEF MapNext, MapTell, MapTargeted, MapCharZone, Deliver
  <2>2. QED BY <2>1, QueueTail DEF TypeOK, ToMapTypeOK, Peers
<1>1. CASE MapTell(m)
  <2>1. p.line \in Tells
    BY <1>0, <1>1, MessageFields DEF MapTell, Deliver
  <2>2. DbTypeOK' /\ MapTypeOK' /\ WorldTypeOK'
    BY <1>1 DEF MapTell, TypeOK, DbTypeOK, MapTypeOK, WorldTypeOK
  <2>3. TellRetry(p.line) \in Message
    BY <2>1, MessageTypes
  <2>4. ToWorldTypeOK'
    <3>1. Send(m, TellRetry(p.line)) \/ UNCHANGED toWorld
      BY <1>1 DEF MapTell, Undelivered
    <3>2. CASE UNCHANGED toWorld
      BY <3>2 DEF TypeOK, ToWorldTypeOK
    <3>3. QED BY <1>0, <2>3, <3>1, <3>2, SendType DEF TypeOK
  <2>5. HistoryTypeOK'
    BY <1>1, <2>1, AnswerType, BounceType DEF MapTell, Undelivered,
       TypeOK, HistoryTypeOK, Lines
  <2>6. QED BY <1>0, <2>2, <2>4, <2>5 DEF TypeOK
<1>2. CASE MapTargeted(m)
  <2>1. p.line \in Groups /\ p.to \subseteq Chars /\ p.retry \in Retries
    BY <1>0, <1>2, MessageFields DEF MapTargeted, Deliver
  <2>2. DbTypeOK' /\ MapTypeOK' /\ WorldTypeOK'
    BY <1>2 DEF MapTargeted, TypeOK, DbTypeOK, MapTypeOK, WorldTypeOK
  <2> DEFINE reached == {c \in p.to \ (Jailed \cup {Sender[p.line]}) :
                           Present(m, c) /\ TargetedChatType(c)}
             again(u) == RetryRecipients(m, p, u)
  <2>3. PICK unsettled \in SUBSET p.to :
          /\ Answer(p.line, reached)
          /\ leaked' = leaked \cup {<<p.line, c>> : c \in reached \ (member \cup struck)}
          /\ IF again(unsettled) = {} THEN UNCHANGED toWorld
             ELSE Send(m, TargetedRetry(p.line, again(unsettled), p.retry))
    BY <1>2 DEF MapTargeted
  <2>4. TargetedRetry(p.line, again(unsettled), p.retry) \in Message
    <3>1. again(unsettled) \in SUBSET Chars
      BY <2>1 DEF RetryRecipients
    <3>2. QED BY <2>1, <3>1, MessageTypes
  <2>5. ToWorldTypeOK'
    <3>1. CASE UNCHANGED toWorld
      BY <3>1 DEF TypeOK, ToWorldTypeOK
    <3>2. QED BY <1>0, <2>3, <2>4, <3>1, SendType DEF TypeOK
  <2>6. HistoryTypeOK'
    <3>1. answers' \in [Lines -> [Chars -> Nat]]
      BY <2>1, <2>3, AnswerType DEF TypeOK, Lines
    <3>2. leaked' \subseteq Lines \X Chars
      BY <2>1, <2>3 DEF TypeOK, HistoryTypeOK, Lines
    <3>3. QED BY <1>2, <3>1, <3>2 DEF MapTargeted, TypeOK, HistoryTypeOK
  <2>7. QED BY <1>0, <2>2, <2>5, <2>6 DEF TypeOK
<1>3. CASE MapCharZone(m)
  <2>1. p.char \in Chars
    BY <1>0, <1>3, MessageFields DEF MapCharZone, Deliver
  <2>2. DbTypeOK' /\ WorldTypeOK' /\ ToWorldTypeOK' /\ HistoryTypeOK'
    BY <1>3 DEF MapCharZone, TypeOK, DbTypeOK, WorldTypeOK, ToWorldTypeOK, HistoryTypeOK
  <2>3. MapTypeOK'
    BY <1>3, <2>1 DEF MapCharZone, TypeOK, MapTypeOK
  <2>4. QED BY <1>0, <2>2, <2>3 DEF TypeOK
<1>4. QED BY <1>1, <1>2, <1>3 DEF MapNext

(* What a character's steps may put in the links: CharZone or              *)
(* ChatZoneReady, and never a chat line.                                   *)
LEMMA CharLinks ==
  ASSUME TypeOK, NEW c \in Chars, CharNext(c)
  PROVE  /\ UNCHANGED <<toMap, worldVars, sent, answers, bounced, leaked>>
         /\ \/ UNCHANGED toWorld
            \/ \E q \in Peers, m \in Maps, b \in BOOLEAN : Send(q, CharZone(c, m, b))
            \/ \E q \in Maps : Send(q, ChatZoneReady(c))
<1> USE DEF chatVars
<1>1. /\ at[c] \in Maps /\ dest[c] \in Maps /\ at[c] \in Peers /\ Login \in Peers
  BY DEF TypeOK, MapTypeOK, Peers
<1>2. CASE \E m \in Maps : PublishZoning(c, m) \/ KillSession(m, c) \/ SelectChar(c, m)
  BY <1>2 DEF PublishZoning, KillSession, SelectChar
<1>3. CASE ChangeRoute(c) \/ LoadChar(c) \/ ZoneIn(c) \/ PartyReload(c)
              \/ LeaveParty(c) \/ KickMember(c)
  BY <1>3 DEF ChangeRoute, LoadChar, ZoneIn, PartyReload, LeaveParty, KickMember
<1>4. CASE \/ Logout(c) \/ DestroySession(c) \/ CleanupSession(c)
         \/ \E m \in Maps : CleanupPending(m, c) \/ CleanupLeftBehind(m, c)
  BY <1>4 DEF Logout, DestroySession, CleanupSession, CleanupPending, CleanupLeftBehind
<1>5. CASE SendZonePacket(c)
  <2>1. Send(at[c], CharZone(c, dest[c], c \in party)) /\ (c \in party) \in BOOLEAN
    BY <1>5 DEF SendZonePacket
  <2>2. UNCHANGED <<toMap, worldVars, sent, answers, bounced, leaked>>
    BY <1>5 DEF SendZonePacket
  <2>3. QED BY <1>1, <2>1, <2>2
<1>6. CASE AnnounceLogin(c)
  <2>1. Send(Login, CharZone(c, dest[c], FALSE)) /\ UNCHANGED chatVars
    BY <1>6 DEF AnnounceLogin
  <2>2. QED BY <1>1, <2>1
<1>7. CASE ClientReady(c) \/ PostTickReload(c) \/ PostTickReady(c)
  BY <1>1, <1>7 DEF ClientReady, PostTickReload, PostTickReady, TrySendReady
<1>8. QED BY <1>2, <1>3, <1>4, <1>5, <1>6, <1>7 DEF CharNext

(* Every step of a character between zones preserves TypeOK.               *)
LEMMA CharType ==
  ASSUME TypeOK, NEW c \in Chars, CharNext(c)
  PROVE  TypeOK'
<1>1. WorldTypeOK' /\ ToMapTypeOK'
  BY CharLinks DEF TypeOK, WorldTypeOK, ToMapTypeOK, worldVars
<1>2. ToWorldTypeOK'
  <2>1. CASE UNCHANGED toWorld
    BY <2>1 DEF TypeOK, ToWorldTypeOK
  <2>2. ASSUME NEW q \in Peers, NEW m \in Maps, NEW b \in BOOLEAN, Send(q, CharZone(c, m, b))
        PROVE  ToWorldTypeOK'
    <3>1. CharZone(c, m, b) \in Message /\ CharZone(c, m, b).type # "ChatZoneReady"
      BY MessageTypes DEF CharZone
    <3>2. QED BY <2>2, <3>1, SendType DEF TypeOK
  <2>3. ASSUME NEW q \in Maps, Send(q, ChatZoneReady(c)) PROVE ToWorldTypeOK'
    BY <2>3, SendType, MessageTypes DEF TypeOK, Peers
  <2>4. QED BY <2>1, <2>2, <2>3, CharLinks
<1>3. DbTypeOK' /\ MapTypeOK' /\ HistoryTypeOK'
  <2> USE DEF TypeOK, DbTypeOK, MapTypeOK, HistoryTypeOK, Stages, dbVars, chatVars
  <2>1. CASE \E m \in Maps : PublishZoning(c, m)
    BY <2>1 DEF PublishZoning, Publish
  <2>2. CASE \E m \in Maps : KillSession(m, c)
    BY <2>2 DEF KillSession
  <2>3. CASE \E m \in Maps : SelectChar(c, m)
    BY <2>3 DEF SelectChar
  <2>4. CASE ChangeRoute(c)
    BY <2>4 DEF ChangeRoute
  <2>5. CASE SendZonePacket(c)
    BY <2>5 DEF SendZonePacket
  <2>6. CASE LoadChar(c)
    BY <2>6 DEF LoadChar
  <2>7. CASE ZoneIn(c)
    BY <2>7 DEF ZoneIn
  <2>8. CASE ClientReady(c)
    BY <2>8 DEF ClientReady, TrySendReady
  <2>9. CASE PostTickReload(c)
    BY <2>9 DEF PostTickReload, TrySendReady
  <2>10. CASE PostTickReady(c)
    BY <2>10 DEF PostTickReady, TrySendReady
  <2>11. CASE PartyReload(c)
    BY <2>11 DEF PartyReload
  <2>12. CASE LeaveParty(c)
    BY <2>12 DEF LeaveParty
  <2>12a. CASE KickMember(c)
    BY <2>12a DEF KickMember
  <2>13. CASE Logout(c)
    BY <2>13 DEF Logout
  <2>14. CASE DestroySession(c)
    BY <2>14 DEF DestroySession, DeleteRow
  <2>15. CASE CleanupSession(c)
    BY <2>15 DEF CleanupSession, DeleteRow
  <2>16. CASE \E m \in Maps : CleanupPending(m, c)
    BY <2>16 DEF CleanupPending, DeleteRowUnseen, DeleteRow
  <2>16a. ASSUME NEW m \in Maps, CleanupLeftBehind(m, c) PROVE DbTypeOK' /\ MapTypeOK' /\ HistoryTypeOK'
    <3>1. CASE DeleteRowUnseen(m, c)
      BY <2>16a, <3>1 DEF CleanupLeftBehind, DeleteRowUnseen, DeleteRow
    <3>2. CASE UNCHANGED <<dbVars, stage, struck, disturbed>>
      BY <2>16a, <3>2 DEF CleanupLeftBehind
    <3>3. QED BY <2>16a, <3>1, <3>2 DEF CleanupLeftBehind
  <2>17. CASE AnnounceLogin(c)
    BY <2>17 DEF AnnounceLogin
  <2>18. QED
    BY <2>1, <2>2, <2>3, <2>4, <2>5, <2>6, <2>7, <2>8, <2>9, <2>10, <2>11, <2>12, <2>12a,
       <2>13, <2>14, <2>15, <2>16, <2>16a, <2>17 DEF CharNext
<1>4. QED BY <1>1, <1>2, <1>3 DEF TypeOK

(* Type correctness: TypeOK holds in every reachable state, for any        *)
(* number of characters, maps and lines, and any buffer size.              *)
THEOREM TypeCorrect == Spec => []TypeOK
<1>1. Init => TypeOK
  BY InitType
<1>2. TypeOK /\ [Next]_vars => TypeOK'
  <2> SUFFICES ASSUME TypeOK, [Next]_vars PROVE TypeOK'
    OBVIOUS
  <2>1. CASE UNCHANGED vars
    BY <2>1 DEF vars, dbVars, mapVars, worldVars, history, TypeOK, DbTypeOK, MapTypeOK,
       WorldTypeOK, ToMapTypeOK, ToWorldTypeOK, HistoryTypeOK
  <2>2. CASE Next
    BY <2>2, SendingType, WorldType, MapType, CharType, ExpireType DEF Next
  <2>3. QED BY <2>1, <2>2
<1>3. QED BY <1>1, <1>2, PTL DEF Spec

-----------------------------------------------------------------------------
(* Membership: a map's PParty is backed by the database, or by a kick or a *)
(* deleted row the map has not noticed; only characters that have a        *)
(* CCharEntity have one.                                                   *)

PartyBacked ==
    /\ \A c \in party : c \in member \cup struck
    /\ \A c \in party : stage[c] \in {"in", "publishing", "left"}
    /\ leaked = {}

(* The steps of a character preserve PartyBacked.                          *)
LEMMA PartyByChar ==
  ASSUME TypeOK, PartyBacked, NEW c \in Chars, CharNext(c)
  PROVE  PartyBacked'
<1> USE DEF PartyBacked, TypeOK, MapTypeOK, chatVars, dbVars
<1>1. CASE \E m \in Maps : PublishZoning(c, m) \/ KillSession(m, c) \/ SelectChar(c, m)
  BY <1>1 DEF PublishZoning, Publish, KillSession, SelectChar
<1>2. CASE ChangeRoute(c) \/ SendZonePacket(c) \/ LoadChar(c) \/ ZoneIn(c)
  BY <1>2 DEF ChangeRoute, SendZonePacket, LoadChar, ZoneIn
<1>3. CASE ClientReady(c) \/ PostTickReady(c) \/ PartyReload(c) \/ AnnounceLogin(c)
  BY <1>3 DEF ClientReady, PostTickReady, PartyReload, AnnounceLogin
<1>4. CASE PostTickReload(c)
  BY <1>4 DEF PostTickReload
<1>5. CASE LeaveParty(c) \/ KickMember(c) \/ Logout(c)
  BY <1>5 DEF LeaveParty, KickMember, Logout
<1>6. CASE DestroySession(c) \/ CleanupSession(c)
  BY <1>6 DEF DestroySession, CleanupSession, DeleteRow
<1>7. CASE \E m \in Maps : CleanupPending(m, c) \/ CleanupLeftBehind(m, c)
  BY <1>7 DEF CleanupPending, CleanupLeftBehind, DeleteRowUnseen, DeleteRow
<1>8. QED BY <1>1, <1>2, <1>3, <1>4, <1>5, <1>6, <1>7 DEF CharNext

(* So do the steps of world, the maps' deliveries and the senders.         *)
LEMMA PartyByChat ==
  ASSUME PartyBacked,
         \/ \E t \in Tells : SendTell(t)
         \/ \E g \in Groups : SendParty(g)
         \/ \E q \in Peers : WorldNext(q)
         \/ \E m \in Maps : MapNext(m)
         \/ \E c \in Chars : ExpireTransition(c)
  PROVE  PartyBacked'
<1> USE DEF PartyBacked, dbVars, mapVars, history
<1>1. CASE (\E t \in Tells : SendTell(t)) \/ (\E g \in Groups : SendParty(g))
  BY <1>1 DEF SendTell, SendParty
<1>2. CASE \E q \in Peers : WorldNext(q)
  BY <1>2 DEF WorldNext, WorldTell, WorldTellRetry, WorldParty, WorldTargetedRetry,
              WorldCharZone, WorldChatZoneReady
<1>3. CASE \E c \in Chars : ExpireTransition(c)
  BY <1>3 DEF ExpireTransition
<1>4. CASE \E m \in Maps : MapTell(m) \/ MapCharZone(m)
  BY <1>4 DEF MapTell, Undelivered, MapCharZone
<1>5. ASSUME NEW m \in Maps, MapTargeted(m) PROVE PartyBacked'
  <2>1. leaked' = leaked
    BY <1>5 DEF MapTargeted, TargetedChatType
  <2>2. QED BY <1>5, <2>1 DEF MapTargeted
<1>6. QED BY <1>1, <1>2, <1>3, <1>4, <1>5 DEF MapNext

(* PartyLinesStayInParty: getTargetedChatType admits a party line only for *)
(* a character that is in the party by the database, or was until a kick   *)
(* or a map without it took its row unnoticed by its own map - whatever    *)
(* was snapshotted, held or retried before.                                *)
THEOREM PartyLinesKept == Spec => []PartyLinesStayInParty
<1>1. Init => PartyBacked
  BY DEF Init, PartyBacked
<1>2. TypeOK /\ PartyBacked /\ [Next]_vars => PartyBacked'
  <2> SUFFICES ASSUME TypeOK, PartyBacked, [Next]_vars PROVE PartyBacked'
    OBVIOUS
  <2>1. CASE UNCHANGED vars
    BY <2>1 DEF vars, dbVars, mapVars, history, PartyBacked
  <2>2. CASE Next
    BY <2>2, PartyByChar, PartyByChat DEF Next
  <2>3. QED BY <2>1, <2>2
<1>3. PartyBacked => PartyLinesStayInParty
  BY DEF PartyBacked, PartyLinesStayInParty
<1>4. QED BY <1>1, <1>2, <1>3, TypeCorrect, PTL DEF Spec

-----------------------------------------------------------------------------
(* The hand-off: what keeps a character in transitions_ until its          *)
(* destination reports it ready.                                           *)

Is(p, ty, c) == p.type = ty /\ p.char = c
Has(s, c) == \E i \in 1..Len(s) : Is(s[i], "CharZone", c)

(* A ChatZoneReady in a link is overtaken by nothing: the CharZone of the  *)
(* next move comes behind it.                                              *)
Followed(s, c) ==
    \A i \in 1..Len(s) : Is(s[i], "ChatZoneReady", c) =>
        \E j \in 1..Len(s) : i < j /\ Is(s[j], "CharZone", c)

(* A character that has not been offline, and whose transition never       *)
(* lapsed, is where its row says or under the zoning flag; once it is      *)
(* announced the transition, or the CharZone that begins it, takes over    *)
(* from the flag; and no ChatZoneReady of an earlier stay can end it.      *)
Covered(c) ==
    /\ stage[c] \in {"in", "publishing", "left", "moving", "loaded"}
    /\ stage[c] \in {"publishing", "left", "moving"} => zoning[c]
    /\ stage[c] \in {"in", "publishing", "loaded"} => row[c] = at[c]
    /\ stage[c] \in {"left", "moving"} => row[c] = dest[c]
    /\ stage[c] \in {"moving", "loaded"} => c \in trans \/ Announced(c)
    /\ \A q \in Peers : \/ Followed(toWorld[q], c)
                        \/ stage[c] \in {"in", "publishing", "left"} /\ at[c] = q
HandoffInv == \A c \in Chars \ disturbed : Covered(c)

(* Links: what appending, consuming and replacing the head keep.           *)
LEMMA LinkAppend ==
  ASSUME NEW s \in Seq(Message), NEW p \in Message, NEW c
  PROVE  /\ Has(s, c) \/ Is(p, "CharZone", c) => Has(Append(s, p), c)
         /\ Followed(s, c) /\ ~Is(p, "ChatZoneReady", c) => Followed(Append(s, p), c)
         /\ Is(p, "CharZone", c) => Followed(Append(s, p), c)
<1>1. /\ Len(s) \in Nat /\ Len(Append(s, p)) = Len(s) + 1 /\ Append(s, p)[Len(s) + 1] = p
      /\ \A i \in 1..Len(s) : Append(s, p)[i] = s[i]
  OBVIOUS
<1>2. Has(s, c) \/ Is(p, "CharZone", c) => Has(Append(s, p), c)
  BY <1>1 DEF Has
<1>3. ASSUME Followed(s, c), ~Is(p, "ChatZoneReady", c) PROVE Followed(Append(s, p), c)
  BY <1>1, <1>3 DEF Followed
<1>4. ASSUME Is(p, "CharZone", c) PROVE Followed(Append(s, p), c)
  <2>1. ~Is(p, "ChatZoneReady", c)
    BY <1>4 DEF Is
  <2>2. \A i \in 1..(Len(s) + 1) : i = Len(s) + 1 \/ i < Len(s) + 1
    BY <1>1
  <2>3. QED BY <1>1, <1>4, <2>1, <2>2 DEF Followed
<1>5. QED BY <1>2, <1>3, <1>4

LEMMA LinkTail ==
  ASSUME NEW s \in Seq(Message), s # << >>, NEW c
  PROVE  /\ Followed(s, c) => Followed(Tail(s), c)
         /\ Has(s, c) /\ ~Is(Head(s), "CharZone", c) => Has(Tail(s), c)
         /\ Followed(s, c) /\ Is(Head(s), "ChatZoneReady", c) => Has(Tail(s), c)
<1>1. /\ Len(s) \in Nat /\ Len(s) >= 1 /\ Len(Tail(s)) = Len(s) - 1 /\ Head(s) = s[1]
      /\ \A i \in 1..(Len(s) - 1) : Tail(s)[i] = s[i + 1]
  OBVIOUS
<1>2. \A i \in 1..Len(s) : i = 1 \/ (i - 1 \in 1..Len(Tail(s)) /\ Tail(s)[i - 1] = s[i])
  BY <1>1
<1>3. ASSUME Followed(s, c), NEW i \in 1..Len(Tail(s)), Is(Tail(s)[i], "ChatZoneReady", c)
      PROVE  \E j \in 1..Len(Tail(s)) : i < j /\ Is(Tail(s)[j], "CharZone", c)
  <2>1. i + 1 \in 1..Len(s) /\ Is(s[i + 1], "ChatZoneReady", c)
    BY <1>1, <1>3
  <2>2. PICK j \in 1..Len(s) : i + 1 < j /\ Is(s[j], "CharZone", c)
    BY <1>3, <2>1 DEF Followed
  <2>3. j - 1 \in 1..Len(Tail(s)) /\ Tail(s)[j - 1] = s[j] /\ i < j - 1
    BY <1>1, <1>2, <2>2
  <2>4. QED BY <2>2, <2>3
<1>4. ASSUME Has(s, c), ~Is(Head(s), "CharZone", c) PROVE Has(Tail(s), c)
  BY <1>1, <1>2, <1>4 DEF Has
<1>5. ASSUME Followed(s, c), Is(Head(s), "ChatZoneReady", c) PROVE Has(Tail(s), c)
  <2>1. PICK j \in 1..Len(s) : 1 < j /\ Is(s[j], "CharZone", c)
    BY <1>1, <1>5 DEF Followed
  <2>2. QED BY <1>1, <1>2, <2>1 DEF Has
<1>6. QED BY <1>3, <1>4, <1>5 DEF Followed

LEMMA LinkHead ==
  ASSUME NEW s \in Seq(Message), s # << >>, NEW p \in Message, NEW c,
         ~Is(Head(s), "CharZone", c), ~Is(p, "ChatZoneReady", c)
  PROVE  /\ Followed(s, c) => Followed(<<p>> \o Tail(s), c)
         /\ Has(s, c) => Has(<<p>> \o Tail(s), c)
<1>1. PICK r : r = <<p>> \o Tail(s)
  OBVIOUS
<1>2. /\ Len(s) \in Nat /\ Len(s) >= 1 /\ Len(r) = Len(s) /\ r[1] = p /\ Head(s) = s[1]
      /\ \A i \in 1..Len(s) : i # 1 => r[i] = s[i]
  BY <1>1
<1>3. Followed(s, c) => Followed(r, c)
  BY <1>2 DEF Followed
<1>4. Has(s, c) => Has(r, c)
  BY <1>2 DEF Has
<1>5. QED BY <1>1, <1>3, <1>4

(* A step keeps the announcements of c, and what follows its readiness.    *)
Kept(c) ==
    \A q \in Peers : /\ Has(toWorld[q], c) => Has(toWorld'[q], c)
                     /\ Followed(toWorld[q], c) => Followed(toWorld'[q], c)

LEMMA AnnouncedInLink ==
  ASSUME NEW c
  PROVE  Announced(c) <=> \E q \in Peers : Has(toWorld[q], c)
BY DEF Announced, Has, Is

LEMMA KeptSent ==
  ASSUME ToWorldTypeOK, NEW c, NEW q \in Peers, NEW p \in Message, Send(q, p), ~Is(p, "ChatZoneReady", c)
  PROVE  Kept(c)
<1>1. toWorld[q] \in Seq(Message) /\ \A r \in Peers : toWorld'[r] = IF r = q THEN Append(toWorld[q], p) ELSE toWorld[r]
  BY DEF ToWorldTypeOK, Send
<1>2. /\ Has(toWorld[q], c) => Has(Append(toWorld[q], p), c)
      /\ Followed(toWorld[q], c) => Followed(Append(toWorld[q], p), c)
  BY <1>1, LinkAppend
<1>3. QED BY <1>1, <1>2 DEF Kept

LEMMA KeptReceived ==
  ASSUME ToWorldTypeOK, NEW c, NEW q \in Peers, toWorld[q] # << >>, toWorld' = [toWorld EXCEPT ![q] = Tail(@)],
         ~Is(Head(toWorld[q]), "CharZone", c)
  PROVE  Kept(c)
<1>1. toWorld[q] \in Seq(Message) /\ \A r \in Peers : toWorld'[r] = IF r = q THEN Tail(toWorld[q]) ELSE toWorld[r]
  BY DEF ToWorldTypeOK
<1>2. /\ Has(toWorld[q], c) => Has(Tail(toWorld[q]), c)
      /\ Followed(toWorld[q], c) => Followed(Tail(toWorld[q]), c)
  BY <1>1, LinkTail
<1>3. QED BY <1>1, <1>2 DEF Kept

(* A character's own variables stay, and its links and transition too.     *)
LEMMA CoveredStays ==
  ASSUME NEW c, Covered(c), stage'[c] = stage[c], at'[c] = at[c], dest'[c] = dest[c],
         row'[c] = row[c], zoning'[c] = zoning[c],
         Kept(c), c \in trans => c \in trans'
  PROVE  Covered(c)'
<1>1. Announced(c) => Announced(c)'
  <2>1. Announced(c) <=> \E q \in Peers : Has(toWorld[q], c)
    BY AnnouncedInLink
  <2>2. Announced(c)' <=> \E q \in Peers : Has(toWorld'[q], c)
    BY DEF Announced, Has, Is
  <2>3. QED BY <2>1, <2>2 DEF Kept
<1>2. stage[c] \in {"moving", "loaded"} => c \in trans' \/ Announced(c)'
  BY <1>1 DEF Covered
<1>3. \A q \in Peers : Followed(toWorld'[q], c) \/ (stage[c] \in {"in", "publishing", "left"} /\ at[c] = q)
  BY DEF Covered, Kept
<1>4. QED BY <1>2, <1>3 DEF Covered

(* Chat lines, their retries and the expiry of another's transition.       *)
LEMMA CoveredByChat ==
  ASSUME TypeOK, NEW c \in Chars, Covered(c), c \notin disturbed',
         \/ \E t \in Tells : SendTell(t)
         \/ \E g \in Groups : SendParty(g)
         \/ \E m \in Maps : MapNext(m)
         \/ \E d \in Chars : ExpireTransition(d)
  PROVE  Covered(c)'
<1> USE DEF dbVars, mapVars, worldVars
<1>1. ToWorldTypeOK /\ at \in [Chars -> Maps] /\ Maps \subseteq Peers
  BY DEF TypeOK, MapTypeOK, Peers
<1>2. ASSUME NEW t \in Tells, SendTell(t) PROVE Covered(c)'
  <2>1. Tell(t) \in Message /\ ~Is(Tell(t), "ChatZoneReady", c) /\ at[Sender[t]] \in Peers
    BY <1>1, MessageTypes, ChatAssumption DEF Tell, Is, Lines
  <2>2. Kept(c)
    BY <1>1, <1>2, <2>1, KeptSent DEF SendTell
  <2>3. QED BY <1>2, <2>2, CoveredStays DEF SendTell
<1>3. ASSUME NEW g \in Groups, SendParty(g) PROVE Covered(c)'
  <2>1. Party(g) \in Message /\ ~Is(Party(g), "ChatZoneReady", c) /\ at[Sender[g]] \in Peers
    BY <1>1, MessageTypes, ChatAssumption DEF Party, Is, Lines
  <2>2. Kept(c)
    BY <1>1, <1>3, <2>1, KeptSent DEF SendParty
  <2>3. QED BY <1>3, <2>2, CoveredStays DEF SendParty
<1>4. ASSUME UNCHANGED toWorld PROVE Kept(c)
  BY <1>4 DEF Kept
<1>5. ASSUME NEW m \in Maps, MapTell(m) PROVE Covered(c)'
  <2>1. PICK t : t = Head(toMap[m]).line
    OBVIOUS
  <2>2. toMap[m] # << >> /\ Head(toMap[m]).type = "Tell" /\ toMap[m] \in Seq(Message)
    BY <1>5 DEF MapTell, Deliver, TypeOK, ToMapTypeOK
  <2>3. t \in Tells
    BY <2>1, <2>2, MessageFields
  <2>4. TellRetry(t) \in Message /\ ~Is(TellRetry(t), "ChatZoneReady", c)
    BY <2>3, MessageTypes DEF TellRetry, Is
  <2>5. UNCHANGED toWorld \/ Send(m, TellRetry(t))
    BY <1>5, <2>1 DEF MapTell, Undelivered
  <2>6. Kept(c)
    BY <1>1, <1>4, <2>4, <2>5, KeptSent
  <2>7. QED BY <1>5, <2>6, CoveredStays DEF MapTell
<1>6. ASSUME NEW m \in Maps, MapTargeted(m) PROVE Covered(c)'
  <2>1. PICK p : p = Head(toMap[m])
    OBVIOUS
  <2>2. toMap[m] # << >> /\ p.type = "Targeted" /\ toMap[m] \in Seq(Message)
    BY <1>6, <2>1 DEF MapTargeted, Deliver, TypeOK, ToMapTypeOK
  <2>3. p.line \in Groups /\ p.to \subseteq Chars /\ p.retry \in Retries
    BY <2>1, <2>2, MessageFields
  <2>4. UNCHANGED toWorld \/ \E cs \in SUBSET Chars : Send(m, TargetedRetry(p.line, cs, p.retry))
    <3>1. \A u : RetryRecipients(m, p, u) \in SUBSET Chars
      BY <2>3 DEF RetryRecipients
    <3>2. QED BY <1>6, <2>1, <3>1 DEF MapTargeted
  <2>5. ASSUME NEW cs \in SUBSET Chars, Send(m, TargetedRetry(p.line, cs, p.retry)) PROVE Kept(c)
    <3>1. TargetedRetry(p.line, cs, p.retry) \in Message
      BY <2>3, MessageTypes
    <3>2. ~Is(TargetedRetry(p.line, cs, p.retry), "ChatZoneReady", c)
      BY DEF TargetedRetry, Is
    <3>3. QED BY <1>1, <2>5, <3>1, <3>2, KeptSent
  <2>6. Kept(c)
    BY <1>4, <2>4, <2>5
  <2>7. QED BY <1>6, <2>6, CoveredStays DEF MapTargeted
<1>7. ASSUME NEW m \in Maps, MapCharZone(m) PROVE Covered(c)'
  BY <1>4, <1>7, CoveredStays DEF MapCharZone
<1>8. ASSUME NEW d \in Chars, ExpireTransition(d) PROVE Covered(c)'
  BY <1>4, <1>8, CoveredStays DEF ExpireTransition, EraseTransition
<1>9. QED BY <1>2, <1>3, <1>5, <1>6, <1>7, <1>8 DEF MapNext

(* World: a CharZone becomes the transition, and the ChatZoneReady of an   *)
(* earlier stay leaves a CharZone behind.                                  *)
LEMMA CoveredByWorld ==
  ASSUME TypeOK, NEW c \in Chars, Covered(c), c \notin disturbed', NEW q \in Peers, WorldNext(q)
  PROVE  Covered(c)'
<1> USE DEF dbVars, mapVars, worldVars
<1>1. ToWorldTypeOK /\ toWorld[q] \in Seq(Message)
  BY DEF TypeOK, ToWorldTypeOK
<1>2. ASSUME NEW ty, Receive(q, ty), ty # "CharZone" PROVE Kept(c)
  <2>1. /\ toWorld[q] # << >> /\ toWorld' = [toWorld EXCEPT ![q] = Tail(@)]
        /\ ~Is(Head(toWorld[q]), "CharZone", c)
    BY <1>2 DEF Receive, Is
  <2>2. QED BY <1>1, <2>1, KeptReceived
<1>3. CASE WorldTell(q)
  <2>1. Kept(c)
    BY <1>2, <1>3 DEF WorldTell
  <2>2. QED BY <1>3, <2>1, CoveredStays DEF WorldTell, Enqueue
<1>4. CASE WorldTellRetry(q)
  <2>1. Kept(c)
    BY <1>2, <1>4 DEF WorldTellRetry
  <2>2. QED BY <1>4, <2>1, CoveredStays DEF WorldTellRetry, Enqueue
<1>5. CASE WorldParty(q)
  <2>1. Kept(c)
    BY <1>2, <1>5 DEF WorldParty
  <2>2. QED BY <1>5, <2>1, CoveredStays DEF WorldParty
<1>6. CASE WorldTargetedRetry(q)
  <2>1. PICK p : p = Head(toWorld[q])
    OBVIOUS
  <2>2. toWorld[q] # << >> /\ p.type = "TargetedRetry" /\ p \in Message
    BY <1>1, <1>6, <2>1 DEF WorldTargetedRetry
  <2>3. p.line \in Groups /\ p.to \subseteq Chars /\ p.retry \in Retries
    BY <2>2, MessageFields
  <2>4. PICK d \in p.to : toWorld' = [toWorld EXCEPT ![q] =
                  IF p.to = {d} THEN Tail(@)
                  ELSE <<TargetedRetry(p.line, p.to \ {d}, p.retry)>> \o Tail(@)]
    BY <1>6, <2>1 DEF WorldTargetedRetry
  <2>5. ~Is(p, "CharZone", c)
    BY <2>2 DEF Is
  <2>6. ASSUME p.to = {d} PROVE Kept(c)
    <3>1. toWorld' = [toWorld EXCEPT ![q] = Tail(@)]
      BY <2>4, <2>6
    <3>2. QED BY <1>1, <2>1, <2>2, <2>5, <3>1, KeptReceived
  <2>7. ASSUME p.to # {d} PROVE Kept(c)
    <3>1. PICK r : r = TargetedRetry(p.line, p.to \ {d}, p.retry)
      OBVIOUS
    <3>2. r \in Message
      BY <2>3, <3>1, MessageTypes
    <3>3. ~Is(r, "ChatZoneReady", c)
      BY <3>1 DEF TargetedRetry, Is
    <3>4. \A x \in Peers : toWorld'[x] = IF x = q THEN <<r>> \o Tail(toWorld[q]) ELSE toWorld[x]
      BY <1>1, <2>4, <2>7, <3>1 DEF ToWorldTypeOK
    <3>5. /\ Followed(toWorld[q], c) => Followed(<<r>> \o Tail(toWorld[q]), c)
          /\ Has(toWorld[q], c) => Has(<<r>> \o Tail(toWorld[q]), c)
      BY <1>1, <2>1, <2>2, <2>5, <3>2, <3>3, LinkHead
    <3>6. QED BY <3>4, <3>5 DEF Kept
  <2>8. Kept(c)
    BY <2>6, <2>7
  <2>9. QED BY <1>6, <2>8, CoveredStays DEF WorldTargetedRetry, Enqueue
<1>7. CASE WorldCharZone(q)
  <2>1. /\ toWorld[q] # << >> /\ toWorld' = [toWorld EXCEPT ![q] = Tail(@)]
        /\ trans' = trans \cup {Head(toWorld[q]).char} /\ UNCHANGED <<row, zoning, stage, at, dest>>
    BY <1>7 DEF WorldCharZone, Receive
  <2>2. CASE Is(Head(toWorld[q]), "CharZone", c)
    <3>1. c \in trans'
      BY <2>1, <2>2 DEF Is
    <3>2. \A x \in Peers : toWorld'[x] = IF x = q THEN Tail(toWorld[q]) ELSE toWorld[x]
      BY <1>1, <2>1 DEF ToWorldTypeOK
    <3>3. Followed(toWorld[q], c) => Followed(Tail(toWorld[q]), c)
      BY <1>1, <2>1, LinkTail
    <3>4. \A x \in Peers : Followed(toWorld'[x], c) \/ (stage[c] \in {"in", "publishing", "left"} /\ at[c] = x)
      BY <3>2, <3>3 DEF Covered
    <3>5. QED BY <2>1, <3>1, <3>4 DEF Covered
  <2>3. CASE ~Is(Head(toWorld[q]), "CharZone", c)
    <3>1. Kept(c)
      BY <1>1, <2>1, <2>3, KeptReceived
    <3>2. QED BY <2>1, <3>1, CoveredStays
  <2>4. QED BY <2>2, <2>3
<1>8. CASE WorldChatZoneReady(q)
  <2>1. /\ toWorld[q] # << >> /\ toWorld' = [toWorld EXCEPT ![q] = Tail(@)]
        /\ Head(toWorld[q]).type = "ChatZoneReady"
        /\ trans' = trans \ {Head(toWorld[q]).char} /\ UNCHANGED <<row, zoning, stage, at, dest>>
    BY <1>8 DEF WorldChatZoneReady, Receive, EraseTransition
  <2>2. Kept(c)
    BY <1>2, <1>8 DEF WorldChatZoneReady
  <2>3. CASE c # Head(toWorld[q]).char
    BY <2>1, <2>2, <2>3, CoveredStays
  <2>4. CASE c = Head(toWorld[q]).char
    <3>1. \A x \in Peers : Followed(toWorld'[x], c) \/ (stage[c] \in {"in", "publishing", "left"} /\ at[c] = x)
      BY <2>2 DEF Covered, Kept
    <3>2. ASSUME stage[c] \in {"moving", "loaded"} PROVE Announced(c)'
      <4>1. Followed(toWorld[q], c)
        BY <3>2 DEF Covered
      <4>2. Is(Head(toWorld[q]), "ChatZoneReady", c)
        BY <2>1, <2>4 DEF Is
      <4>3. Has(Tail(toWorld[q]), c)
        BY <1>1, <2>1, <4>1, <4>2, LinkTail
      <4>4. toWorld'[q] = Tail(toWorld[q])
        BY <1>1, <2>1 DEF ToWorldTypeOK
      <4>5. Has(toWorld'[q], c)
        BY <4>3, <4>4
      <4>6. QED BY <4>5 DEF Announced, Has, Is
    <3>3. QED BY <2>1, <3>1, <3>2 DEF Covered
  <2>5. QED BY <2>3, <2>4
<1>9. QED BY <1>3, <1>4, <1>5, <1>6, <1>7, <1>8 DEF WorldNext

(* The steps of another character.                                         *)
LEMMA CoveredByOther ==
  ASSUME TypeOK, NEW c \in Chars, Covered(c), NEW d \in Chars, d # c, CharNext(d)
  PROVE  Covered(c)'
<1>1. /\ UNCHANGED trans
      /\ \/ UNCHANGED toWorld
         \/ \E q \in Peers, m \in Maps, b \in BOOLEAN : Send(q, CharZone(d, m, b))
         \/ \E q \in Maps : Send(q, ChatZoneReady(d))
  BY CharLinks DEF worldVars
<1>2. Kept(c)
  <2>1. CASE UNCHANGED toWorld
    BY <2>1 DEF Kept
  <2>2. ASSUME NEW q \in Peers, NEW m \in Maps, NEW b \in BOOLEAN, Send(q, CharZone(d, m, b)) PROVE Kept(c)
    <3>1. CharZone(d, m, b) \in Message /\ ~Is(CharZone(d, m, b), "ChatZoneReady", c)
      BY MessageTypes DEF CharZone, Is
    <3>2. QED BY <2>2, <3>1, KeptSent DEF TypeOK
  <2>3. ASSUME NEW q \in Maps, Send(q, ChatZoneReady(d)) PROVE Kept(c)
    <3>1. ChatZoneReady(d) \in Message /\ ~Is(ChatZoneReady(d), "ChatZoneReady", c) /\ q \in Peers
      BY MessageTypes DEF ChatZoneReady, Is, Peers
    <3>2. QED BY <2>3, <3>1, KeptSent DEF TypeOK
  <2>4. QED BY <1>1, <2>1, <2>2, <2>3
<1>3. /\ stage'[c] = stage[c] /\ at'[c] = at[c] /\ dest'[c] = dest[c]
      /\ row'[c] = row[c] /\ zoning'[c] = zoning[c]
  <2> USE DEF TypeOK, DbTypeOK, MapTypeOK, dbVars
  <2>1. CASE \E m \in Maps : PublishZoning(d, m) \/ KillSession(m, d) \/ SelectChar(d, m)
    BY <2>1 DEF PublishZoning, Publish, KillSession, SelectChar
  <2>2. CASE ChangeRoute(d) \/ SendZonePacket(d) \/ LoadChar(d) \/ ZoneIn(d) \/ AnnounceLogin(d)
    BY <2>2 DEF ChangeRoute, SendZonePacket, LoadChar, ZoneIn, AnnounceLogin
  <2>3. CASE ClientReady(d) \/ PostTickReload(d) \/ PostTickReady(d) \/ PartyReload(d) \/ LeaveParty(d)
             \/ KickMember(d)
    BY <2>3 DEF ClientReady, PostTickReload, PostTickReady, PartyReload, LeaveParty, KickMember
  <2>4. CASE Logout(d) \/ DestroySession(d) \/ CleanupSession(d)
    BY <2>4 DEF Logout, DestroySession, CleanupSession, DeleteRow
  <2>5. CASE \E m \in Maps : CleanupPending(m, d) \/ CleanupLeftBehind(m, d)
    BY <2>5 DEF CleanupPending, CleanupLeftBehind, DeleteRowUnseen, DeleteRow
  <2>6. QED BY <2>1, <2>2, <2>3, <2>4, <2>5 DEF CharNext
<1>4. QED BY <1>1, <1>2, <1>3, CoveredStays

(* Its own steps.                                                          *)
LEMMA CoveredByOwn ==
  ASSUME TypeOK, NEW c \in Chars, Covered(c), c \notin disturbed', CharNext(c)
  PROVE  Covered(c)'
<1>1. /\ ToWorldTypeOK /\ at[c] \in Maps /\ at[c] \in Peers /\ toWorld[at[c]] \in Seq(Message)
  BY DEF TypeOK, ToWorldTypeOK, MapTypeOK, Peers
<1> USE DEF dbVars, chatVars, worldVars
<1>2. ASSUME UNCHANGED toWorld PROVE Kept(c) /\ (Announced(c)' <=> Announced(c))
  BY <1>2 DEF Kept, Announced
<1>3. ASSUME NEW m \in Maps, PublishZoning(c, m) PROVE Covered(c)'
  <2>1. /\ stage[c] = "in" /\ stage'[c] = "publishing" /\ zoning'[c] /\ row'[c] = row[c] /\ at'[c] = at[c]
        /\ UNCHANGED toWorld
    BY <1>3 DEF PublishZoning, Publish, TypeOK, DbTypeOK, MapTypeOK
  <2>2. QED BY <2>1 DEF Covered
<1>4. CASE ChangeRoute(c)
  <2>1. /\ stage[c] = "publishing" /\ stage'[c] = "left" /\ zoning'[c] /\ row'[c] = dest'[c] /\ at'[c] = at[c]
        /\ UNCHANGED toWorld
    BY <1>4, PeersAssumption DEF ChangeRoute, Covered, TypeOK, DbTypeOK, MapTypeOK
  <2>2. QED BY <2>1 DEF Covered
<1>5. CASE SendZonePacket(c)
  <2>1. /\ stage[c] = "left" /\ stage'[c] = "moving" /\ zoning'[c] = zoning[c] /\ row'[c] = row[c]
        /\ dest'[c] = dest[c] /\ at'[c] = at[c] /\ dest[c] \in Maps
        /\ Send(at[c], CharZone(c, dest[c], c \in party))
    BY <1>5 DEF SendZonePacket, TypeOK, MapTypeOK
  <2>2. PICK p : p = CharZone(c, dest[c], c \in party)
    OBVIOUS
  <2>3. p \in Message /\ Is(p, "CharZone", c)
    <3>1. (c \in party) \in BOOLEAN
      OBVIOUS
    <3>2. CharZone(c, dest[c], c \in party) \in Message
      BY <2>1, <3>1, MessageTypes
    <3>3. QED BY <2>2, <3>2 DEF CharZone, Is
  <2>4. \A x \in Peers : toWorld'[x] = IF x = at[c] THEN Append(toWorld[at[c]], p) ELSE toWorld[x]
    BY <1>1, <2>1, <2>2 DEF Send, ToWorldTypeOK
  <2>5. Has(toWorld'[at[c]], c) /\ Followed(toWorld'[at[c]], c)
    BY <1>1, <2>3, <2>4, LinkAppend
  <2>6. Announced(c)'
    BY <1>1, <2>5 DEF Announced, Has, Is
  <2>7. \A x \in Peers : Followed(toWorld'[x], c)
    BY <2>1, <2>4, <2>5 DEF Covered
  <2>8. QED BY <2>1, <2>6, <2>7 DEF Covered
<1>6. CASE LoadChar(c)
  <2>1. /\ stage[c] = "moving" /\ stage'[c] = "loaded" /\ row'[c] = row[c] /\ at'[c] = dest[c]
        /\ UNCHANGED <<toWorld, trans>>
    BY <1>6 DEF LoadChar, TypeOK, MapTypeOK
  <2>2. QED BY <1>2, <2>1 DEF Covered
<1>7. CASE ZoneIn(c)
  <2>1. /\ stage[c] = "loaded" /\ stage'[c] = "in" /\ row'[c] = row[c] /\ at'[c] = at[c] /\ UNCHANGED toWorld
    BY <1>7 DEF ZoneIn, TypeOK, MapTypeOK
  <2>2. QED BY <2>1 DEF Covered
<1>8. CASE ClientReady(c) \/ PostTickReload(c) \/ PostTickReady(c)
  <2>1. /\ stage[c] = "in" /\ UNCHANGED <<stage, row, at, zoning, dest>>
        /\ UNCHANGED toWorld \/ Send(at[c], ChatZoneReady(c))
    BY <1>8 DEF ClientReady, PostTickReload, PostTickReady, TrySendReady
  <2>2. \A x \in Peers \ {at[c]} : toWorld'[x] = toWorld[x]
    BY <1>1, <2>1 DEF Send, ToWorldTypeOK
  <2>3. QED BY <2>1, <2>2 DEF Covered
<1>9. CASE PartyReload(c) \/ LeaveParty(c) \/ KickMember(c) \/ \E m \in Maps : KillSession(m, c)
  <2>1. UNCHANGED <<stage, row, at, zoning, dest, toWorld, trans>>
    BY <1>9 DEF PartyReload, LeaveParty, KickMember, KillSession
  <2>2. QED BY <1>2, <2>1, CoveredStays
<1>10. CASE Logout(c) \/ CleanupSession(c) \/ \E m \in Maps : CleanupPending(m, c)
  BY <1>10 DEF Logout, CleanupSession, CleanupPending, DeleteRowUnseen
<1>10a. CASE \E m \in Maps : CleanupLeftBehind(m, c)
  <2>1. UNCHANGED <<stage, row, at, zoning, dest, toWorld, trans>>
    BY <1>10a DEF CleanupLeftBehind, DeleteRowUnseen
  <2>2. QED BY <1>2, <2>1, CoveredStays
<1>11. CASE DestroySession(c) \/ AnnounceLogin(c) \/ \E m \in Maps : SelectChar(c, m)
  BY <1>11 DEF DestroySession, AnnounceLogin, SelectChar, Covered
<1>12. QED BY <1>3, <1>4, <1>5, <1>6, <1>7, <1>8, <1>9, <1>10, <1>10a, <1>11 DEF CharNext

(* SendToZone publishes zoning = 1 before the route, 0x00B announces the   *)
(* move before LoadChar clears the flag, and a ChatZoneReady that world    *)
(* reads late cannot end a later transition: world holds the chat of a     *)
(* character no map can deliver to, for any number of characters, maps and *)
(* moves, until it goes offline or its transition lapses.                  *)
THEOREM HandoffIsCovered == Spec => []HandoffCovered
<1>1. Init => HandoffInv
  <2> SUFFICES ASSUME Init, NEW c \in Chars PROVE Covered(c)
    BY DEF HandoffInv
  <2>1. \A q \in Peers : Followed(toWorld[q], c)
    BY DEF Init, Followed
  <2>2. QED BY <2>1 DEF Init, Covered
<1>2. TypeOK /\ HandoffInv /\ [Next]_vars => HandoffInv'
  <2> SUFFICES ASSUME TypeOK, HandoffInv, [Next]_vars, NEW c \in Chars, c \notin disturbed' PROVE Covered(c)'
    BY DEF HandoffInv
  <2>1. c \notin disturbed
    BY ZenonT(60) DEF Next, vars, history, SendTell, SendParty, WorldNext, WorldTell, WorldTellRetry, WorldParty,
           WorldTargetedRetry, WorldCharZone, WorldChatZoneReady, MapNext, MapTell, MapTargeted, MapCharZone,
           ExpireTransition, CharNext, PublishZoning, KillSession, SelectChar, ChangeRoute, SendZonePacket,
           LoadChar, ZoneIn, ClientReady, PostTickReload, PostTickReady, PartyReload, LeaveParty, KickMember,
           Logout, DestroySession, CleanupSession, CleanupPending, CleanupLeftBehind, DeleteRowUnseen, AnnounceLogin
  <2>2. Covered(c)
    BY <2>1 DEF HandoffInv
  <2>3. CASE UNCHANGED vars
    <3>1. Kept(c) /\ UNCHANGED <<stage, row, at, zoning, dest, trans>>
      BY <2>3 DEF vars, dbVars, mapVars, worldVars, Kept
    <3>2. QED BY <2>2, <3>1, CoveredStays
  <2>4. CASE Next
    BY <2>2, <2>4, CoveredByChat, CoveredByWorld, CoveredByOther, CoveredByOwn DEF Next
  <2>5. QED BY <2>3, <2>4
<1>3. HandoffInv => HandoffCovered
  BY DEF HandoffInv, Covered, HandoffCovered, IsZoning
<1>4. QED BY <1>1, <1>2, <1>3, TypeCorrect, PTL DEF Spec
=============================================================================
