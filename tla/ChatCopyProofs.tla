--------------------------- MODULE ChatCopyProofs ---------------------------
(***************************************************************************)
(* Retries, buffering and replay move a chat line, they never copy it: the *)
(* proof that SingleCopy and OneAnswer hold in every reachable state. The  *)
(* inductive invariant is Good for every line and recipient, given TypeOK. *)
(* From it, that ZoningChat implements ChatDelivery.                       *)
(***************************************************************************)
EXTENDS ZoningChatProofs

(* Appending a message adds what it carries, and keeps copies single.      *)
LEMMA AppendCopies ==
  ASSUME NEW S, NEW s \in Seq(S), NEW x \in S, NEW l, NEW c
  PROVE  /\ Holds(Append(s, x), l, c) <=> Holds(s, l, c) \/ Carries(x, l, c)
         /\ Once(s, l, c) /\ ~(Holds(s, l, c) /\ Carries(x, l, c)) => Once(Append(s, x), l, c)
<1> DEFINE t == Append(s, x)
<1>1. /\ Len(t) = Len(s) + 1 /\ Len(s) \in Nat /\ t[Len(s) + 1] = x
      /\ \A i \in 1..Len(s) : t[i] = s[i]
  OBVIOUS
<1>2. \A i \in 1..Len(t) : i \in 1..Len(s) \/ i = Len(s) + 1
  BY <1>1
<1>3. 1..Len(s) \subseteq 1..Len(t) /\ Len(s) + 1 \in 1..Len(t)
  BY <1>1
<1> HIDE DEF t
<1>4. QED BY <1>1, <1>2, <1>3 DEF Holds, Once, t

(* Consuming the head removes the copy it carries.                         *)
LEMMA TailCopies ==
  ASSUME NEW S, NEW s \in Seq(S), s # << >>, NEW l, NEW c
  PROVE  /\ Holds(Tail(s), l, c) => Holds(s, l, c)
         /\ Once(s, l, c) => Once(Tail(s), l, c)
         /\ Carries(Head(s), l, c) => Holds(s, l, c)
         /\ Carries(Head(s), l, c) /\ Once(s, l, c) => ~Holds(Tail(s), l, c)
<1> DEFINE t == Tail(s)
<1>1. /\ Head(s) = s[1] /\ 1 \in 1..Len(s) /\ Len(s) \in Nat
  OBVIOUS
<1>2. \A i \in 1..Len(t) : i + 1 \in 1..Len(s) /\ i + 1 # 1 /\ t[i] = s[i + 1]
  BY TailSlot
<1>3. \A i, j \in 1..Len(t) : i + 1 = j + 1 => i = j
  OBVIOUS
<1> HIDE DEF t
<1>4. QED BY <1>1, <1>2, <1>3 DEF Holds, Once, t

(* A concatenation carries what its parts carry.                           *)
LEMMA ConcatCopies ==
  ASSUME NEW S, NEW s \in Seq(S), NEW u \in Seq(S), NEW l, NEW c
  PROVE  /\ Holds(s \o u, l, c) <=> Holds(s, l, c) \/ Holds(u, l, c)
         /\ Once(s, l, c) /\ Once(u, l, c) /\ ~(Holds(s, l, c) /\ Holds(u, l, c))
              => Once(s \o u, l, c)
<1> DEFINE t == s \o u
<1>1. /\ Len(t) = Len(s) + Len(u) /\ Len(s) \in Nat /\ Len(u) \in Nat
      /\ \A i \in 1..Len(s) : t[i] = s[i]
      /\ \A i \in 1..Len(u) : t[Len(s) + i] = u[i]
  OBVIOUS
<1>2. \A i \in 1..Len(t) :
        i \in 1..Len(s) \/ (i - Len(s) \in 1..Len(u) /\ t[i] = u[i - Len(s)])
  BY <1>1
<1>3. /\ \A i \in 1..Len(s) : i \in 1..Len(t)
      /\ \A i \in 1..Len(u) : Len(s) + i \in 1..Len(t)
  BY <1>1
<1>4. \A i, j \in 1..Len(t) : i - Len(s) = j - Len(s) => i = j
  BY <1>1
<1> HIDE DEF t
<1>5. Holds(t, l, c) <=> Holds(s, l, c) \/ Holds(u, l, c)
  BY <1>1, <1>2, <1>3 DEF Holds
<1>6. ASSUME Once(s, l, c), Once(u, l, c), ~(Holds(s, l, c) /\ Holds(u, l, c)),
             NEW i \in 1..Len(t), NEW j \in 1..Len(t),
             Carries(t[i], l, c), Carries(t[j], l, c)
      PROVE  i = j
  <2>1. CASE i \in 1..Len(s)
    BY <1>1, <1>2, <1>6, <2>1 DEF Once, Holds
  <2>2. CASE i - Len(s) \in 1..Len(u) /\ t[i] = u[i - Len(s)]
    <3>1. CASE j \in 1..Len(s)
      BY <1>1, <1>2, <1>6, <2>2, <3>1 DEF Once, Holds
    <3>2. CASE j - Len(s) \in 1..Len(u) /\ t[j] = u[j - Len(s)]
      BY <1>4, <1>6, <2>2, <3>2 DEF Once
    <3>3. QED BY <1>2, <1>6, <3>1, <3>2
  <2>3. QED BY <1>2, <1>6, <2>1, <2>2
<1>7. QED BY <1>5, <1>6 DEF Once, t

(* An empty queue carries nothing.                                         *)
LEMMA EmptyCopies ==
  ASSUME NEW l, NEW c
  PROVE  ~Holds(<< >>, l, c) /\ Once(<< >>, l, c)
BY DEF Holds, Once

(* A queue of one message carries what the message carries.                *)
LEMMA SingletonCopies ==
  ASSUME NEW x, NEW l, NEW c
  PROVE  /\ Holds(<<x>>, l, c) <=> Carries(x, l, c)
         /\ Once(<<x>>, l, c)
BY DEF Holds, Once


-----------------------------------------------------------------------------
(* Where the one copy can be after a step.                                 *)

Good(l, c) == SingleCopyOf(l, c) /\ answers[l][c] <= 1

(* A queue without the copy does not hold it twice.                        *)
LEMMA NoCopyOnce ==
  ASSUME NEW s, NEW l, NEW c, ~Holds(s, l, c)
  PROVE  Once(s, l, c)
BY DEF Holds, Once

(* No queue gains the copy: nothing changes for it.                        *)
LEMMA CopyStays ==
  ASSUME NEW l \in Lines, NEW c \in Chars, Good(l, c),
         sent \subseteq sent', l \in sent' => l \in sent,
         answers'[l][c] = answers[l][c],
         \A q \in Peers : /\ Holds(toWorld'[q], l, c) => Holds(toWorld[q], l, c)
                          /\ Once(toWorld[q], l, c) => Once(toWorld'[q], l, c),
         \A m \in Maps : /\ Holds(toMap'[m], l, c) => Holds(toMap[m], l, c)
                         /\ Once(toMap[m], l, c) => Once(toMap'[m], l, c),
         \A d \in Chars : /\ Holds(buf'[d], l, c) => Holds(buf[d], l, c)
                          /\ Once(buf[d], l, c) => Once(buf'[d], l, c)
  PROVE  Good(l, c)'
BY DEF Good, SingleCopyOf, InWorldLink, InMapLink, InBuffer, Unanswered

(* The copy is nowhere after the step: answered or dropped.                *)
LEMMA CopyGone ==
  ASSUME NEW l \in Lines, NEW c \in Chars, l \in sent', answers'[l][c] \in {0, 1},
         \A q \in Peers : ~Holds(toWorld'[q], l, c),
         \A m \in Maps : ~Holds(toMap'[m], l, c),
         \A d \in Chars : ~Holds(buf'[d], l, c)
  PROVE  Good(l, c)'
BY NoCopyOnce DEF Good, SingleCopyOf, InWorldLink, InMapLink, InBuffer, Unanswered

(* The copy is, if anywhere, in the link from k to world.                  *)
LEMMA CopyToWorld ==
  ASSUME NEW l \in Lines, NEW c \in Chars, NEW k \in Peers,
         l \in sent', answers'[l][c] = 0,
         \A q \in Peers : Holds(toWorld'[q], l, c) => q = k,
         Once(toWorld'[k], l, c),
         \A m \in Maps : ~Holds(toMap'[m], l, c),
         \A d \in Chars : ~Holds(buf'[d], l, c)
  PROVE  Good(l, c)'
<1>1. /\ \A q \in Peers : Once(toWorld'[q], l, c)
      /\ \A m \in Maps : Once(toMap'[m], l, c)
      /\ \A d \in Chars : Once(buf'[d], l, c)
  BY NoCopyOnce
<1>2. QED BY <1>1 DEF Good, SingleCopyOf, InWorldLink, InMapLink, InBuffer, Unanswered

(* The copy is, if anywhere, in the link from world to map k.              *)
LEMMA CopyToMap ==
  ASSUME NEW l \in Lines, NEW c \in Chars, NEW k \in Maps,
         l \in sent', answers'[l][c] = 0,
         \A q \in Peers : ~Holds(toWorld'[q], l, c),
         \A m \in Maps : Holds(toMap'[m], l, c) => m = k,
         Once(toMap'[k], l, c),
         \A d \in Chars : ~Holds(buf'[d], l, c)
  PROVE  Good(l, c)'
<1>1. /\ \A q \in Peers : Once(toWorld'[q], l, c)
      /\ \A m \in Maps : Once(toMap'[m], l, c)
      /\ \A d \in Chars : Once(buf'[d], l, c)
  BY NoCopyOnce
<1>2. QED BY <1>1 DEF Good, SingleCopyOf, InWorldLink, InMapLink, InBuffer, Unanswered

(* The copy is, if anywhere, in the recipient's buffer.                    *)
LEMMA CopyToBuffer ==
  ASSUME NEW l \in Lines, NEW c \in Chars,
         l \in sent', answers'[l][c] = 0,
         \A q \in Peers : ~Holds(toWorld'[q], l, c),
         \A m \in Maps : ~Holds(toMap'[m], l, c),
         \A d \in Chars : Holds(buf'[d], l, c) => d = c,
         Once(buf'[c], l, c)
  PROVE  Good(l, c)'
<1>1. /\ \A q \in Peers : Once(toWorld'[q], l, c)
      /\ \A m \in Maps : Once(toMap'[m], l, c)
      /\ \A d \in Chars : Once(buf'[d], l, c)
  BY NoCopyOnce
<1>2. QED BY <1>1 DEF Good, SingleCopyOf, InWorldLink, InMapLink, InBuffer, Unanswered

(* Taking the oldest message of the link from q: its copies are then       *)
(* nowhere, and no other copy moves.                                       *)
LEMMA TakeFromWorldLink ==
  ASSUME TypeOK, NEW l \in Lines, NEW c \in Chars, Good(l, c),
         NEW q \in Peers, toWorld[q] # << >>, toWorld' = [toWorld EXCEPT ![q] = Tail(@)]
  PROVE  /\ \A r \in Peers : /\ Holds(toWorld'[r], l, c) => Holds(toWorld[r], l, c)
                             /\ Once(toWorld[r], l, c) => Once(toWorld'[r], l, c)
         /\ Carries(Head(toWorld[q]), l, c) =>
              /\ l \in sent /\ answers[l][c] = 0
              /\ \A r \in Peers : ~Holds(toWorld'[r], l, c)
              /\ \A m \in Maps : ~Holds(toMap[m], l, c)
              /\ \A d \in Chars : ~Holds(buf[d], l, c)
<1>1. toWorld \in [Peers -> Seq(Message)]
  BY DEF TypeOK, ToWorldTypeOK
<1>2. /\ \A r \in Peers : /\ Holds(toWorld'[r], l, c) => Holds(toWorld[r], l, c)
                          /\ Once(toWorld[r], l, c) => Once(toWorld'[r], l, c)
      /\ Carries(Head(toWorld[q]), l, c) => Holds(toWorld[q], l, c)
      /\ Carries(Head(toWorld[q]), l, c) /\ Once(toWorld[q], l, c) => ~Holds(toWorld'[q], l, c)
  <2>1. toWorld'[q] = Tail(toWorld[q]) /\ toWorld[q] \in Seq(Message)
    BY <1>1
  <2>2. \A r \in Peers : r # q => toWorld'[r] = toWorld[r]
    BY <1>1
  <2>3. QED BY <2>1, <2>2, TailCopies
<1>3. QED BY <1>2 DEF Good, SingleCopyOf, InWorldLink, InMapLink, InBuffer, Unanswered

(* The same for the links from world to the maps.                          *)
LEMMA TakeFromMapLink ==
  ASSUME TypeOK, NEW l \in Lines, NEW c \in Chars, Good(l, c),
         NEW m \in Maps, toMap[m] # << >>, toMap' = [toMap EXCEPT ![m] = Tail(@)]
  PROVE  /\ \A n \in Maps : /\ Holds(toMap'[n], l, c) => Holds(toMap[n], l, c)
                            /\ Once(toMap[n], l, c) => Once(toMap'[n], l, c)
         /\ Carries(Head(toMap[m]), l, c) =>
              /\ l \in sent /\ answers[l][c] = 0
              /\ \A r \in Peers : ~Holds(toWorld[r], l, c)
              /\ \A n \in Maps : ~Holds(toMap'[n], l, c)
              /\ \A d \in Chars : ~Holds(buf[d], l, c)
<1>1. toMap \in [Maps -> Seq(Message)]
  BY DEF TypeOK, ToMapTypeOK
<1>2. /\ \A n \in Maps : /\ Holds(toMap'[n], l, c) => Holds(toMap[n], l, c)
                         /\ Once(toMap[n], l, c) => Once(toMap'[n], l, c)
      /\ Carries(Head(toMap[m]), l, c) => Holds(toMap[m], l, c)
      /\ Carries(Head(toMap[m]), l, c) /\ Once(toMap[m], l, c) => ~Holds(toMap'[m], l, c)
  <2>1. toMap'[m] = Tail(toMap[m]) /\ toMap[m] \in Seq(Message)
    BY <1>1
  <2>2. \A n \in Maps : n # m => toMap'[n] = toMap[n]
    BY <1>1
  <2>3. QED BY <2>1, <2>2, TailCopies
<1>3. QED BY <1>2 DEF Good, SingleCopyOf, InWorldLink, InMapLink, InBuffer, Unanswered

(* What each message carries.                                              *)
LEMMA MessageCopies ==
  ASSUME NEW l \in Lines, NEW c \in Chars
  PROVE  /\ \A t \in Tells : /\ Carries(Tell(t), l, c) <=> l = t /\ c = Recipient[t]
                             /\ Carries(TellRetry(t), l, c) <=> l = t /\ c = Recipient[t]
         /\ \A g \in Groups : Carries(Party(g), l, c) <=> l = g
         /\ \A g \in Groups, cs \in SUBSET Chars, n \in Retries :
              /\ Carries(Targeted(g, cs, n), l, c) <=> l = g /\ c \in cs
              /\ Carries(TargetedRetry(g, cs, n), l, c) <=> l = g /\ c \in cs
         /\ \A d \in Chars, m \in Maps, b \in BOOLEAN : ~Carries(CharZone(d, m, b), l, c)
         /\ \A d \in Chars : ~Carries(ChatZoneReady(d), l, c)
BY DEF Carries, Tell, TellRetry, Party, Targeted, TargetedRetry, CharZone, ChatZoneReady

(* What a message at the head of a queue carries, by its type.             *)
LEMMA HeadCopies ==
  ASSUME NEW p \in Message, NEW l \in Lines, NEW c \in Chars
  PROVE  /\ p.type \in {"Tell", "TellRetry"} =>
              (Carries(p, l, c) <=> p.line = l /\ c = Recipient[l])
         /\ p.type = "Party" => (Carries(p, l, c) <=> p.line = l)
         /\ p.type \in {"Targeted", "TargetedRetry"} =>
              (Carries(p, l, c) <=> p.line = l /\ c \in p.to)
         /\ p.type \in {"CharZone", "ChatZoneReady"} => ~Carries(p, l, c)
BY DEF Carries

(* What an answer counts.                                                  *)
LEMMA AnswerCounts ==
  ASSUME HistoryTypeOK, NEW x \in Lines, NEW cs \in SUBSET Chars, Answer(x, cs),
         NEW l \in Lines, NEW c \in Chars
  PROVE  answers'[l][c] = IF l = x /\ c \in cs THEN answers[l][c] + 1 ELSE answers[l][c]
BY DEF HistoryTypeOK, Answer

(* Appending a message to a queue adds what it carries.                    *)
LEMMA PutInWorldLink ==
  ASSUME toWorld \in [Peers -> Seq(Message)], NEW q \in Peers, NEW x \in Message, Send(q, x),
         NEW l, NEW c
  PROVE  \A r \in Peers :
           /\ Holds(toWorld'[r], l, c) <=> Holds(toWorld[r], l, c) \/ (r = q /\ Carries(x, l, c))
           /\ Once(toWorld[r], l, c) /\ ~(r = q /\ Holds(toWorld[r], l, c) /\ Carries(x, l, c))
                => Once(toWorld'[r], l, c)
<1>1. toWorld'[q] = Append(toWorld[q], x) /\ toWorld[q] \in Seq(Message)
  BY DEF Send
<1>2. \A r \in Peers : r # q => toWorld'[r] = toWorld[r]
  BY DEF Send
<1>3. QED BY <1>1, <1>2, AppendCopies

(* The same for the links from world to the maps.                          *)
LEMMA PutInMapLink ==
  ASSUME toMap \in [Maps -> Seq(Message)], NEW m \in Maps, NEW x \in Message,
         toMap' = [toMap EXCEPT ![m] = Append(@, x)], NEW l, NEW c
  PROVE  \A n \in Maps :
           /\ Holds(toMap'[n], l, c) <=> Holds(toMap[n], l, c) \/ (n = m /\ Carries(x, l, c))
           /\ Once(toMap[n], l, c) /\ ~(n = m /\ Holds(toMap[n], l, c) /\ Carries(x, l, c))
                => Once(toMap'[n], l, c)
<1>1. toMap'[m] = Append(toMap[m], x) /\ toMap[m] \in Seq(Message)
  OBVIOUS
<1>2. \A n \in Maps : n # m => toMap'[n] = toMap[n]
  OBVIOUS
<1>3. QED BY <1>1, <1>2, AppendCopies

(* The same for the buffers.                                               *)
LEMMA PutInBuffer ==
  ASSUME buf \in [Chars -> Seq(Held)], NEW e \in Chars, NEW x \in Held, Enqueue(e, x),
         NEW l, NEW c
  PROVE  \A d \in Chars :
           /\ Holds(buf'[d], l, c) <=> Holds(buf[d], l, c) \/ (d = e /\ Carries(x, l, c))
           /\ Once(buf[d], l, c) /\ ~(d = e /\ Holds(buf[d], l, c) /\ Carries(x, l, c))
                => Once(buf'[d], l, c)
<1>1. buf'[e] = Append(buf[e], x) /\ buf[e] \in Seq(Held)
  BY DEF Enqueue
<1>2. \A d \in Chars : d # e => buf'[d] = buf[d]
  BY DEF Enqueue
<1>3. QED BY <1>1, <1>2, AppendCopies

-----------------------------------------------------------------------------
(* One lemma per action that touches chat lines.                           *)

(* A line that enters a link when it is sent was nowhere before.           *)
LEMMA SendCopies ==
  ASSUME TypeOK, NEW l \in Lines, NEW c \in Chars, Good(l, c), NEW x \in Lines,
         NEW q \in Peers, NEW p \in Message, Carries(p, l, c) => l = x,
         x \notin sent, sent' = sent \cup {x}, Send(q, p),
         UNCHANGED <<worldVars, toMap, answers>>
  PROVE  Good(l, c)'
<1> USE DEF worldVars
<1>1. \A r \in Peers :
           /\ Holds(toWorld'[r], l, c) <=> Holds(toWorld[r], l, c) \/ (r = q /\ Carries(p, l, c))
           /\ Once(toWorld[r], l, c) /\ ~(r = q /\ Holds(toWorld[r], l, c) /\ Carries(p, l, c))
                => Once(toWorld'[r], l, c)
  BY PutInWorldLink DEF TypeOK, ToWorldTypeOK
<1>2. CASE l = x
  <2>1. /\ answers[l][c] = 0
        /\ \A r \in Peers : ~Holds(toWorld[r], l, c)
        /\ \A m \in Maps : ~Holds(toMap[m], l, c)
        /\ \A d \in Chars : ~Holds(buf[d], l, c)
    BY <1>2 DEF Good, SingleCopyOf, InWorldLink, InMapLink, InBuffer, Unanswered
  <2>2. Once(toWorld'[q], l, c)
    BY <1>1, <2>1, NoCopyOnce
  <2>3. QED BY <1>1, <1>2, <2>1, <2>2, CopyToWorld
<1>3. CASE l # x
  BY <1>1, <1>3, CopyStays
<1>4. QED BY <1>2, <1>3

(* SendTell and SendParty keep copies single.                              *)
LEMMA SendingCopies ==
  ASSUME TypeOK, NEW l \in Lines, NEW c \in Chars, Good(l, c),
         \/ \E t \in Tells : SendTell(t)
         \/ \E g \in Groups : SendParty(g)
  PROVE  Good(l, c)'
<1>1. ASSUME NEW t \in Tells, SendTell(t) PROVE Good(l, c)'
  <2>1. /\ at[Sender[t]] \in Peers /\ Tell(t) \in Message /\ t \in Lines
        /\ Carries(Tell(t), l, c) => l = t
    BY ChatAssumption, MessageTypes, MessageCopies DEF TypeOK, MapTypeOK, Lines, Peers
  <2>2. QED BY <1>1, <2>1, SendCopies DEF SendTell
<1>2. ASSUME NEW g \in Groups, SendParty(g) PROVE Good(l, c)'
  <2>1. /\ at[Sender[g]] \in Peers /\ Party(g) \in Message /\ g \in Lines
        /\ Carries(Party(g), l, c) => l = g
    BY ChatAssumption, MessageTypes, MessageCopies DEF TypeOK, MapTypeOK, Lines, Peers
  <2>2. QED BY <1>2, <2>1, SendCopies DEF SendParty
<1>3. QED BY <1>1, <1>2

(* Zone changes, logins and logouts move no copy.                          *)
LEMMA CharCopies ==
  ASSUME TypeOK, NEW l \in Lines, NEW c \in Chars, Good(l, c), NEW d \in Chars, CharNext(d)
  PROVE  Good(l, c)'
<1> USE DEF worldVars
<1>1. CASE UNCHANGED toWorld
  BY <1>1, CharLinks, CopyStays
<1>2. ASSUME NEW q \in Peers, NEW x \in Message, ~Carries(x, l, c), Send(q, x) PROVE Good(l, c)'
  <2>1. \A r \in Peers :
           /\ Holds(toWorld'[r], l, c) <=> Holds(toWorld[r], l, c) \/ (r = q /\ Carries(x, l, c))
           /\ Once(toWorld[r], l, c) /\ ~(r = q /\ Holds(toWorld[r], l, c) /\ Carries(x, l, c))
                => Once(toWorld'[r], l, c)
    BY <1>2, PutInWorldLink DEF TypeOK, ToWorldTypeOK
  <2>2. QED BY <1>2, <2>1, CharLinks, CopyStays
<1>3. QED BY <1>1, <1>2, CharLinks, MessageTypes, MessageCopies DEF Peers

(* Tells that world handles: bounced, buffered or forwarded.               *)
LEMMA TellCopies ==
  ASSUME TypeOK, NEW l \in Lines, NEW c \in Chars, Good(l, c), NEW q \in Peers,
         WorldTell(q) \/ WorldTellRetry(q)
  PROVE  Good(l, c)'
<1> DEFINE t == Head(toWorld[q]).line
<1> USE DEF worldVars
<1>1. /\ toWorld[q] # << >> /\ toWorld' = [toWorld EXCEPT ![q] = Tail(@)]
      /\ Head(toWorld[q]).type \in {"Tell", "TellRetry"} /\ sent' = sent
  BY DEF WorldTell, WorldTellRetry, Receive
<1>2. /\ Head(toWorld[q]) \in Message /\ t \in Tells /\ t \in Lines
      /\ Recipient[t] \in Chars
      /\ Carries(Head(toWorld[q]), l, c) <=> l = t /\ c = Recipient[t]
  <2>1. Head(toWorld[q]) \in Message
    BY <1>1, ReceiveType DEF TypeOK
  <2>2. t \in Tells
    BY <1>1, <2>1, MessageFields
  <2>3. Carries(Head(toWorld[q]), l, c) <=> t = l /\ c = Recipient[l]
    BY <1>1, <2>1, HeadCopies
  <2>4. QED BY <2>1, <2>2, <2>3, ChatAssumption DEF Lines
<1>3. /\ \A r \in Peers : /\ Holds(toWorld'[r], l, c) => Holds(toWorld[r], l, c)
                          /\ Once(toWorld[r], l, c) => Once(toWorld'[r], l, c)
      /\ Carries(Head(toWorld[q]), l, c) =>
           /\ l \in sent /\ answers[l][c] = 0
           /\ \A r \in Peers : ~Holds(toWorld'[r], l, c)
           /\ \A m \in Maps : ~Holds(toMap[m], l, c)
           /\ \A d \in Chars : ~Holds(buf[d], l, c)
  BY <1>1, TakeFromWorldLink
<1>4. CASE Bounce(t) /\ UNCHANGED <<buf, toMap>>
  <2>1. answers'[l][c] = IF l = t /\ c \in {Recipient[t]} THEN answers[l][c] + 1
                         ELSE answers[l][c]
    BY <1>2, <1>4, AnswerCounts DEF Bounce, TypeOK
  <2>2. CASE l = t /\ c = Recipient[t]
    <3>1. l \in sent' /\ answers'[l][c] \in {0, 1}
      <4>1. l \in sent /\ answers[l][c] = 0
        BY <1>2, <1>3, <2>2
      <4>2. answers'[l][c] = answers[l][c] + 1
        BY <2>1, <2>2
      <4>3. QED BY <1>1, <4>1, <4>2
    <3>2. /\ \A r \in Peers : ~Holds(toWorld'[r], l, c)
          /\ \A m \in Maps : ~Holds(toMap'[m], l, c)
          /\ \A d \in Chars : ~Holds(buf'[d], l, c)
      BY <1>2, <1>3, <1>4, <2>2
    <3>3. QED BY <3>1, <3>2, CopyGone
  <2>3. CASE ~(l = t /\ c = Recipient[t])
    BY <1>1, <1>2, <1>3, <1>4, <2>1, <2>3, CopyStays
  <2>4. QED BY <2>2, <2>3
<1>5. CASE Enqueue(Recipient[t], Tell(t)) /\ UNCHANGED <<answers, toMap>>
  <2>1. \A d \in Chars :
           /\ Holds(buf'[d], l, c) <=>
                Holds(buf[d], l, c) \/ (d = Recipient[t] /\ Carries(Tell(t), l, c))
           /\ Once(buf[d], l, c)
                /\ ~(d = Recipient[t] /\ Holds(buf[d], l, c) /\ Carries(Tell(t), l, c))
                => Once(buf'[d], l, c)
    BY <1>2, <1>5, PutInBuffer, MessageTypes DEF TypeOK, WorldTypeOK
  <2>2. Carries(Tell(t), l, c) <=> l = t /\ c = Recipient[t]
    BY <1>2, MessageCopies
  <2>3. CASE l = t /\ c = Recipient[t]
    <3>1. Once(buf'[c], l, c)
      BY <1>2, <1>3, <2>1, <2>3, NoCopyOnce
    <3>2. QED BY <1>1, <1>2, <1>3, <1>5, <2>1, <2>2, <2>3, <3>1, CopyToBuffer, ZenonT(60)
  <2>4. CASE ~(l = t /\ c = Recipient[t])
    BY <1>1, <1>3, <1>5, <2>1, <2>2, <2>4, CopyStays
  <2>5. QED BY <2>3, <2>4
<1>6. ASSUME NEW m \in Maps, toMap' = [toMap EXCEPT ![m] = Append(@, Tell(t))],
             UNCHANGED <<answers, buf>>
      PROVE  Good(l, c)'
  <2>1. \A n \in Maps :
           /\ Holds(toMap'[n], l, c) <=>
                Holds(toMap[n], l, c) \/ (n = m /\ Carries(Tell(t), l, c))
           /\ Once(toMap[n], l, c) /\ ~(n = m /\ Holds(toMap[n], l, c) /\ Carries(Tell(t), l, c))
                => Once(toMap'[n], l, c)
    BY <1>2, <1>6, PutInMapLink, MessageTypes, ZenonT(60) DEF TypeOK, ToMapTypeOK
  <2>2. Carries(Tell(t), l, c) <=> l = t /\ c = Recipient[t]
    BY <1>2, MessageCopies
  <2>3. CASE l = t /\ c = Recipient[t]
    <3>1. Once(toMap'[m], l, c)
      BY <1>2, <1>3, <2>1, <2>3, NoCopyOnce
    <3>2. l \in sent' /\ answers'[l][c] = 0
      BY <1>1, <1>2, <1>3, <1>6, <2>3
    <3>3. /\ \A r \in Peers : ~Holds(toWorld'[r], l, c)
          /\ \A n \in Maps : Holds(toMap'[n], l, c) => n = m
          /\ \A d \in Chars : ~Holds(buf'[d], l, c)
      BY <1>2, <1>3, <1>6, <2>1, <2>3
    <3>4. QED BY <3>1, <3>2, <3>3, CopyToMap
  <2>4. CASE ~(l = t /\ c = Recipient[t])
    BY <1>1, <1>3, <1>6, <2>1, <2>2, <2>4, CopyStays
  <2>5. QED BY <2>3, <2>4
<1>7. row[Recipient[t]] # NoMap => row[Recipient[t]] \in Maps
  BY <1>2 DEF TypeOK, DbTypeOK
<1>8. QED BY <1>4, <1>5, <1>6, <1>7 DEF WorldTell, WorldTellRetry

(* Neither does a CharZone message.                                        *)
LEMMA ControlCopies ==
  ASSUME TypeOK, NEW l \in Lines, NEW c \in Chars, Good(l, c), NEW q \in Peers,
         WorldCharZone(q)
  PROVE  Good(l, c)'
<1> DEFINE p == Head(toWorld[q])
<1>1. /\ toWorld[q] # << >> /\ toWorld' = [toWorld EXCEPT ![q] = Tail(@)]
      /\ p.type = "CharZone" /\ UNCHANGED <<sent, answers, buf>>
      /\ toMap' = [toMap EXCEPT ![p.dest] = Append(@, p)]
  BY DEF WorldCharZone, Receive, history
<1>2. p \in Message
  BY <1>1, ReceiveType DEF TypeOK
<1>3. p.dest \in Maps /\ ~Carries(p, l, c)
  BY <1>1, <1>2, MessageFields, HeadCopies
<1>4. \A r \in Peers : /\ Holds(toWorld'[r], l, c) => Holds(toWorld[r], l, c)
                       /\ Once(toWorld[r], l, c) => Once(toWorld'[r], l, c)
  BY <1>1, TakeFromWorldLink
<1>5. \A n \in Maps :
        /\ Holds(toMap'[n], l, c) <=> Holds(toMap[n], l, c) \/ (n = p.dest /\ Carries(p, l, c))
        /\ Once(toMap[n], l, c) /\ ~(n = p.dest /\ Holds(toMap[n], l, c) /\ Carries(p, l, c))
             => Once(toMap'[n], l, c)
  BY <1>1, <1>2, <1>3, PutInMapLink DEF TypeOK, ToMapTypeOK
<1>6. QED BY <1>1, <1>3, <1>4, <1>5, CopyStays

(* The replay moves a buffer behind the link of the map that is ready.     *)
LEMMA ReplayCopies ==
  ASSUME TypeOK, NEW l \in Lines, NEW c \in Chars, Good(l, c), NEW q \in Peers,
         WorldChatZoneReady(q)
  PROVE  Good(l, c)'
<1> DEFINE e == Head(toWorld[q]).char
<1>1. /\ toWorld[q] # << >> /\ toWorld' = [toWorld EXCEPT ![q] = Tail(@)]
      /\ Head(toWorld[q]).type = "ChatZoneReady" /\ UNCHANGED <<sent, answers>>
      /\ toMap' = [toMap EXCEPT ![q] = @ \o buf[e]]
      /\ buf' = [buf EXCEPT ![e] = << >>]
  BY DEF WorldChatZoneReady, Receive, EraseTransition, history
<1>2. Head(toWorld[q]) \in Message /\ q \in Maps
  BY <1>1, ReceiveType DEF TypeOK
<1>3. e \in Chars
  BY <1>1, <1>2, MessageFields
<1>4. \A r \in Peers : /\ Holds(toWorld'[r], l, c) => Holds(toWorld[r], l, c)
                       /\ Once(toWorld[r], l, c) => Once(toWorld'[r], l, c)
  BY <1>1, TakeFromWorldLink
<1>5. /\ toMap'[q] = toMap[q] \o buf[e]
      /\ \A n \in Maps : n # q => toMap'[n] = toMap[n]
  BY <1>1, <1>2 DEF TypeOK, ToMapTypeOK
<1>6. /\ buf'[e] = << >>
      /\ \A d \in Chars : d # e => buf'[d] = buf[d]
  BY <1>1, <1>3 DEF TypeOK, WorldTypeOK
<1>7. toMap[q] \in Seq(Message) /\ buf[e] \in Seq(Message)
  <2>1. Held \subseteq Message
    BY MessageTypes
  <2>2. buf[e] \in Seq(Held)
    BY <1>3 DEF TypeOK, WorldTypeOK
  <2>3. buf[e] \in Seq(Message)
    BY <2>1, <2>2
  <2>4. QED BY <1>2, <2>3 DEF TypeOK, ToMapTypeOK
<1>8. /\ Holds(toMap'[q], l, c) <=> Holds(toMap[q], l, c) \/ Holds(buf[e], l, c)
      /\ Once(toMap[q], l, c) /\ Once(buf[e], l, c)
           /\ ~(Holds(toMap[q], l, c) /\ Holds(buf[e], l, c)) => Once(toMap'[q], l, c)
  BY <1>5, <1>7, ConcatCopies
<1>9. ~Holds(buf'[e], l, c) /\ Once(buf'[e], l, c)
  BY <1>6, EmptyCopies
<1>10. CASE Holds(buf[e], l, c)
  <2>1. /\ l \in sent /\ answers[l][c] = 0
        /\ \A r \in Peers : ~Holds(toWorld[r], l, c)
        /\ \A n \in Maps : ~Holds(toMap[n], l, c) /\ Once(toMap[n], l, c)
        /\ \A d \in Chars : Holds(buf[d], l, c) => d = e
        /\ Once(buf[e], l, c)
    BY <1>3, <1>10 DEF Good, SingleCopyOf, InWorldLink, InMapLink, InBuffer, Unanswered
  <2>2. \A d \in Chars : ~Holds(buf'[d], l, c)
    BY <1>6, <1>9, <2>1
  <2>3. Once(toMap'[q], l, c)
    BY <1>2, <1>8, <2>1
  <2>4. QED BY <1>1, <1>2, <1>4, <1>5, <2>1, <2>2, <2>3, CopyToMap
<1>11. CASE ~Holds(buf[e], l, c)
  <2>1. \A d \in Chars : /\ Holds(buf'[d], l, c) => Holds(buf[d], l, c)
                         /\ Once(buf[d], l, c) => Once(buf'[d], l, c)
    BY <1>6, <1>9
  <2>2. \A n \in Maps : /\ Holds(toMap'[n], l, c) => Holds(toMap[n], l, c)
                        /\ Once(toMap[n], l, c) => Once(toMap'[n], l, c)
    BY <1>5, <1>8, <1>11, NoCopyOnce DEF Good, SingleCopyOf
  <2>3. QED BY <1>1, <1>4, <2>1, <2>2, CopyStays
<1>12. QED BY <1>10, <1>11

(* Expiry answers the held tells and forgets the rest.                     *)
LEMMA ExpireCopies ==
  ASSUME TypeOK, NEW l \in Lines, NEW c \in Chars, Good(l, c), NEW e \in Chars,
         ExpireTransition(e)
  PROVE  Good(l, c)'
<1>1. /\ buf' = [buf EXCEPT ![e] = << >>] /\ UNCHANGED <<toWorld, toMap, sent>>
      /\ answers'[l][c] = IF l \in HeldTells(e) /\ c = Recipient[l] THEN answers[l][c] + 1
                          ELSE answers[l][c]
  BY DEF ExpireTransition, EraseTransition
<1>2. /\ buf'[e] = << >>
      /\ \A d \in Chars : d # e => buf'[d] = buf[d]
  BY <1>1 DEF TypeOK, WorldTypeOK
<1>3. ~Holds(buf'[e], l, c) /\ Once(buf'[e], l, c)
  BY <1>2, EmptyCopies
<1>4. CASE l \in HeldTells(e) /\ c = Recipient[l]
  <2>1. PICK i \in 1..Len(buf[e]) : buf[e][i] = Tell(l) /\ l \in Tells
    BY <1>4 DEF HeldTells
  <2>2. Holds(buf[e], l, c)
    BY <1>4, <2>1, MessageCopies DEF Holds
  <2>3. /\ l \in sent /\ answers[l][c] = 0
        /\ \A r \in Peers : ~Holds(toWorld[r], l, c)
        /\ \A n \in Maps : ~Holds(toMap[n], l, c)
        /\ \A d \in Chars : Holds(buf[d], l, c) => d = e
    BY <2>2 DEF Good, SingleCopyOf, InWorldLink, InMapLink, InBuffer, Unanswered
  <2>4. \A d \in Chars : ~Holds(buf'[d], l, c)
    BY <1>2, <1>3, <2>3
  <2>5. QED BY <1>1, <1>4, <2>3, <2>4, CopyGone
<1>5. CASE ~(l \in HeldTells(e) /\ c = Recipient[l])
  <2>1. \A d \in Chars : /\ Holds(buf'[d], l, c) => Holds(buf[d], l, c)
                         /\ Once(buf[d], l, c) => Once(buf'[d], l, c)
    BY <1>2, <1>3
  <2>2. QED BY <1>1, <1>5, <2>1, CopyStays
<1>6. QED BY <1>4, <1>5

(* A party line splits: to the buffers of the recipients that are zoning,  *)
(* to the maps of the others. Every recipient gets one of the two.         *)
LEMMA PartyCopies ==
  ASSUME TypeOK, NEW l \in Lines, NEW c \in Chars, Good(l, c), NEW q \in Peers, WorldParty(q)
  PROVE  Good(l, c)'
<1> DEFINE g      == Head(toWorld[q]).line
           held   == {d \in Routed(g) : IsZoning(d)} \cup SnapshotOnly(g)
           active == Routed(g) \ held
           on(m)  == {d \in active : row[d] = m}
<1>1. /\ toWorld[q] # << >> /\ toWorld' = [toWorld EXCEPT ![q] = Tail(@)]
      /\ Head(toWorld[q]).type = "Party" /\ UNCHANGED <<sent, answers>>
      /\ buf' = [d \in Chars |-> IF d \in held /\ Room(d)
                                 THEN Append(buf[d], Targeted(g, {d}, 0)) ELSE buf[d]]
      /\ toMap' = [m \in Maps |-> IF on(m) = {} THEN toMap[m]
                                  ELSE Append(toMap[m], Targeted(g, on(m), 0))]
  BY DEF WorldParty, Receive
<1>2. Head(toWorld[q]) \in Message
  BY <1>1, ReceiveType DEF TypeOK
<1>3. g \in Groups /\ 0 \in Retries /\ (Carries(Head(toWorld[q]), l, c) <=> g = l)
  BY <1>1, <1>2, MessageFields, HeadCopies, BoundsAssumption DEF Retries
<1>4. /\ \A r \in Peers : /\ Holds(toWorld'[r], l, c) => Holds(toWorld[r], l, c)
                          /\ Once(toWorld[r], l, c) => Once(toWorld'[r], l, c)
      /\ Carries(Head(toWorld[q]), l, c) =>
           /\ l \in sent /\ answers[l][c] = 0
           /\ \A r \in Peers : ~Holds(toWorld'[r], l, c)
           /\ \A m \in Maps : ~Holds(toMap[m], l, c)
           /\ \A d \in Chars : ~Holds(buf[d], l, c)
  BY <1>1, TakeFromWorldLink
<1>5. \A m \in Maps : on(m) \in SUBSET Chars
  BY DEF Routed, TypeOK, DbTypeOK
<1> HIDE DEF g, held, on
<1>6. ASSUME NEW m \in Maps
      PROVE  /\ Holds(toMap'[m], l, c) => Holds(toMap[m], l, c) \/ (l = g /\ c \in on(m))
             /\ Once(toMap[m], l, c) /\ ~(Holds(toMap[m], l, c) /\ l = g /\ c \in on(m))
                  => Once(toMap'[m], l, c)
  <2>1. CASE on(m) = {}
    BY <1>1, <2>1
  <2>2. CASE on(m) # {}
    <3>1. toMap'[m] = Append(toMap[m], Targeted(g, on(m), 0)) /\ toMap[m] \in Seq(Message)
      BY <1>1, <2>2 DEF TypeOK, ToMapTypeOK
    <3>2. /\ Targeted(g, on(m), 0) \in Message
          /\ Carries(Targeted(g, on(m), 0), l, c) <=> l = g /\ c \in on(m)
      BY <1>3, <1>5, MessageTypes, MessageCopies
    <3>3. QED BY <3>1, <3>2, AppendCopies
  <2>3. QED BY <2>1, <2>2
<1>7. ASSUME NEW d \in Chars
      PROVE  /\ Holds(buf'[d], l, c) => Holds(buf[d], l, c) \/ (l = g /\ c = d /\ d \in held)
             /\ Once(buf[d], l, c) /\ ~(Holds(buf[d], l, c) /\ l = g /\ c = d)
                  => Once(buf'[d], l, c)
  <2>1. CASE ~(d \in held /\ Room(d))
    BY <1>1, <2>1
  <2>2. CASE d \in held /\ Room(d)
    <3>1. buf'[d] = Append(buf[d], Targeted(g, {d}, 0)) /\ buf[d] \in Seq(Held)
      BY <1>1, <2>2 DEF TypeOK, WorldTypeOK
    <3>2. {d} \in SUBSET Chars
      OBVIOUS
    <3>3. /\ Targeted(g, {d}, 0) \in Held
          /\ Carries(Targeted(g, {d}, 0), l, c) <=> l = g /\ c = d
      BY <1>3, <3>2, MessageTypes, MessageCopies
    <3>4. QED BY <2>2, <3>1, <3>3, AppendCopies
  <2>3. QED BY <2>1, <2>2
<1>8. CASE l # g
  BY <1>1, <1>4, <1>6, <1>7, <1>8, CopyStays
<1>9. CASE l = g /\ c \in held
  <2>1. \A m \in Maps : c \notin on(m)
    BY <1>9 DEF on
  <2>2. Once(buf'[c], l, c)
    BY <1>3, <1>4, <1>7, <1>9, NoCopyOnce
  <2>3. QED BY <1>1, <1>3, <1>4, <1>6, <1>7, <1>9, <2>1, <2>2, CopyToBuffer
<1>10. CASE l = g /\ c \notin held /\ \E m \in Maps : c \in on(m)
  <2>1. PICK m \in Maps : c \in on(m)
    BY <1>10
  <2>2. \A n \in Maps : c \in on(n) => n = m
    BY <2>1 DEF on
  <2>3. Once(toMap'[m], l, c)
    BY <1>3, <1>4, <1>6, <1>10, NoCopyOnce
  <2>4. QED BY <1>1, <1>3, <1>4, <1>6, <1>7, <1>10, <2>2, <2>3, CopyToMap, ZenonT(60)
<1>11. CASE l = g /\ c \notin held /\ ~\E m \in Maps : c \in on(m)
  BY <1>1, <1>3, <1>4, <1>6, <1>7, <1>11, CopyGone
<1>12. QED BY <1>8, <1>9, <1>10, <1>11

(* One recipient of a retry leaves the message; it is buffered, forwarded  *)
(* or dropped, the others stay.                                            *)
LEMMA RetryCopies ==
  ASSUME TypeOK, NEW l \in Lines, NEW c \in Chars, Good(l, c), NEW q \in Peers,
         WorldTargetedRetry(q)
  PROVE  Good(l, c)'
<1> DEFINE p == Head(toWorld[q])
<1>1. PICK e \in p.to :
        /\ toWorld' = [toWorld EXCEPT ![q] =
              IF p.to = {e} THEN Tail(@)
              ELSE <<TargetedRetry(p.line, p.to \ {e}, p.retry)>> \o Tail(@)]
        /\ \/ Enqueue(e, Targeted(p.line, {e}, p.retry)) /\ UNCHANGED toMap
           \/ UNCHANGED <<buf, toMap>>
           \/ /\ row[e] # NoMap /\ p.retry < MaxTargetedChatRetries /\ UNCHANGED buf
              /\ toMap' = [toMap EXCEPT ![row[e]] =
                             Append(@, Targeted(p.line, {e}, p.retry + 1))]
  BY DEF WorldTargetedRetry, worldVars
<1>2. /\ toWorld[q] # << >> /\ p.type = "TargetedRetry" /\ UNCHANGED <<sent, answers>>
  BY DEF WorldTargetedRetry
<1>3. p \in Message /\ toWorld[q] \in Seq(Message)
  BY <1>2 DEF TypeOK, ToWorldTypeOK
<1>4. /\ p.line \in Groups /\ p.to \subseteq Chars /\ p.retry \in Retries
      /\ Carries(p, l, c) <=> p.line = l /\ c \in p.to
  BY <1>2, <1>3, MessageFields, HeadCopies
<1>5. e \in Chars /\ {e} \in SUBSET Chars /\ p.to \ {e} \in SUBSET Chars
  BY <1>1, <1>4
<1> DEFINE x == TargetedRetry(p.line, p.to \ {e}, p.retry)
<1>6. x \in Message /\ (Carries(x, l, c) <=> l = p.line /\ c \in p.to \ {e})
  <2>1. \A cs \in SUBSET Chars :
          /\ TargetedRetry(p.line, cs, p.retry) \in Message
          /\ Carries(TargetedRetry(p.line, cs, p.retry), l, c) <=> l = p.line /\ c \in cs
    BY <1>4, MessageTypes, MessageCopies
  <2>2. QED BY <1>5, <2>1, Zenon
<1>7. /\ toWorld'[q] = IF p.to = {e} THEN Tail(toWorld[q]) ELSE <<x>> \o Tail(toWorld[q])
      /\ \A r \in Peers : r # q => toWorld'[r] = toWorld[r]
  BY <1>1 DEF TypeOK, ToWorldTypeOK
<1>8. /\ Holds(Tail(toWorld[q]), l, c) => Holds(toWorld[q], l, c)
      /\ Once(toWorld[q], l, c) => Once(Tail(toWorld[q]), l, c)
      /\ Carries(p, l, c) => Holds(toWorld[q], l, c)
      /\ Carries(p, l, c) /\ Once(toWorld[q], l, c) => ~Holds(Tail(toWorld[q]), l, c)
  BY <1>2, <1>3, TailCopies
<1>9. /\ Holds(<<x>> \o Tail(toWorld[q]), l, c) <=>
           Carries(x, l, c) \/ Holds(Tail(toWorld[q]), l, c)
      /\ Once(Tail(toWorld[q]), l, c) /\ ~(Carries(x, l, c) /\ Holds(Tail(toWorld[q]), l, c))
           => Once(<<x>> \o Tail(toWorld[q]), l, c)
  <2>1. <<x>> \in Seq(Message) /\ Tail(toWorld[q]) \in Seq(Message)
    BY <1>2, <1>3, <1>6
  <2>2. (Holds(<<x>>, l, c) <=> Carries(x, l, c)) /\ Once(<<x>>, l, c)
    BY SingletonCopies
  <2> DEFINE s == <<x>>
             u == Tail(toWorld[q])
  <2>3. s \in Seq(Message) /\ u \in Seq(Message)
    BY <2>1
  <2> HIDE DEF s, u
  <2>4. /\ Holds(s \o u, l, c) <=> Holds(s, l, c) \/ Holds(u, l, c)
        /\ Once(s, l, c) /\ Once(u, l, c) /\ ~(Holds(s, l, c) /\ Holds(u, l, c))
             => Once(s \o u, l, c)
    BY <2>3, ConcatCopies
  <2>5. QED BY <2>2, <2>4, Zenon DEF s, u
<1> HIDE DEF x, p
<1>10. /\ Holds(toWorld'[q], l, c) => Holds(toWorld[q], l, c)
       /\ Once(toWorld[q], l, c) => Once(toWorld'[q], l, c)
       /\ l = p.line /\ c = e /\ Once(toWorld[q], l, c) => ~Holds(toWorld'[q], l, c)
  BY <1>1, <1>4, <1>6, <1>7, <1>8, <1>9
<1>11. \A r \in Peers : /\ Holds(toWorld'[r], l, c) => Holds(toWorld[r], l, c)
                        /\ Once(toWorld[r], l, c) => Once(toWorld'[r], l, c)
  BY <1>7, <1>10
<1>12. ASSUME l = p.line, c = e
       PROVE  /\ l \in sent /\ answers[l][c] = 0
              /\ \A r \in Peers : ~Holds(toWorld'[r], l, c)
              /\ \A m \in Maps : ~Holds(toMap[m], l, c)
              /\ \A d \in Chars : ~Holds(buf[d], l, c)
  <2>1. Holds(toWorld[q], l, c)
    BY <1>1, <1>4, <1>8, <1>12
  <2>2. QED BY <1>7, <1>10, <1>12, <2>1
            DEF Good, SingleCopyOf, InWorldLink, InMapLink, InBuffer, Unanswered
<1>13. CASE UNCHANGED <<buf, toMap>>
  <2>1. CASE l = p.line /\ c = e
    BY <1>2, <1>12, <1>13, <2>1, CopyGone
  <2>2. CASE ~(l = p.line /\ c = e)
    BY <1>2, <1>11, <1>13, <2>2, CopyStays
  <2>3. QED BY <2>1, <2>2
<1>14. CASE Enqueue(e, Targeted(p.line, {e}, p.retry)) /\ UNCHANGED toMap
  <2> DEFINE y == Targeted(p.line, {e}, p.retry)
  <2>1. y \in Held /\ (Carries(y, l, c) <=> l = p.line /\ c = e)
    <3>1. \A cs \in SUBSET Chars : Targeted(p.line, cs, p.retry) \in Held
      BY <1>4, MessageTypes, Zenon
    <3>2. \A cs \in SUBSET Chars :
            Carries(Targeted(p.line, cs, p.retry), l, c) <=> l = p.line /\ c \in cs
      BY DEF Carries, Targeted
    <3>3. QED BY <1>5, <3>1, <3>2, Zenon
  <2>2. \A d \in Chars :
           /\ Holds(buf'[d], l, c) <=> Holds(buf[d], l, c) \/ (d = e /\ Carries(y, l, c))
           /\ Once(buf[d], l, c) /\ ~(d = e /\ Holds(buf[d], l, c) /\ Carries(y, l, c))
                => Once(buf'[d], l, c)
    BY <1>5, <1>14, <2>1, PutInBuffer DEF TypeOK, WorldTypeOK
  <2> HIDE DEF y
  <2>3. CASE l = p.line /\ c = e
    <3>1. Once(buf'[c], l, c)
      BY <1>12, <2>2, <2>3, NoCopyOnce
    <3>2. QED BY <1>2, <1>12, <1>14, <2>2, <2>3, <3>1, CopyToBuffer
  <2>4. CASE ~(l = p.line /\ c = e)
    BY <1>2, <1>11, <1>14, <2>1, <2>2, <2>4, CopyStays
  <2>5. QED BY <2>3, <2>4
<1>15. CASE /\ row[e] # NoMap /\ p.retry < MaxTargetedChatRetries /\ UNCHANGED buf
            /\ toMap' = [toMap EXCEPT ![row[e]] =
                           Append(@, Targeted(p.line, {e}, p.retry + 1))]
  <2> DEFINE y == Targeted(p.line, {e}, p.retry + 1)
  <2>1. row[e] \in Maps /\ p.retry + 1 \in Retries
    BY <1>4, <1>5, <1>15, BoundsAssumption DEF TypeOK, DbTypeOK, Retries
  <2>2. y \in Message /\ (Carries(y, l, c) <=> l = p.line /\ c = e)
    <3>1. \A cs \in SUBSET Chars : Targeted(p.line, cs, p.retry + 1) \in Message
      BY <1>4, <2>1, MessageTypes, Zenon
    <3>2. \A cs \in SUBSET Chars :
            Carries(Targeted(p.line, cs, p.retry + 1), l, c) <=> l = p.line /\ c \in cs
      BY DEF Carries, Targeted
    <3>3. QED BY <1>5, <3>1, <3>2, Zenon
  <2>3. \A n \in Maps :
           /\ Holds(toMap'[n], l, c) <=> Holds(toMap[n], l, c) \/ (n = row[e] /\ Carries(y, l, c))
           /\ Once(toMap[n], l, c) /\ ~(n = row[e] /\ Holds(toMap[n], l, c) /\ Carries(y, l, c))
                => Once(toMap'[n], l, c)
    BY <1>15, <2>1, <2>2, PutInMapLink DEF TypeOK, ToMapTypeOK
  <2> HIDE DEF y
  <2>4. CASE l = p.line /\ c = e
    <3>1. Once(toMap'[row[e]], l, c)
      BY <1>12, <2>1, <2>3, <2>4, NoCopyOnce
    <3>2. \A n \in Maps : Holds(toMap'[n], l, c) => n = row[e]
      BY <1>12, <2>3, <2>4
    <3>3. QED BY <1>2, <1>12, <1>15, <2>1, <2>4, <3>1, <3>2, CopyToMap
  <2>5. CASE ~(l = p.line /\ c = e)
    BY <1>2, <1>11, <1>15, <2>2, <2>3, <2>5, CopyStays
  <2>6. QED BY <2>4, <2>5
<1>16. QED BY <1>1, <1>13, <1>14, <1>15

(* A map answers a tell or hands it back.                                  *)
LEMMA MapTellCopies ==
  ASSUME TypeOK, NEW l \in Lines, NEW c \in Chars, Good(l, c), NEW m \in Maps, MapTell(m)
  PROVE  Good(l, c)'
<1> DEFINE t == Head(toMap[m]).line
<1>1. /\ toMap[m] # << >> /\ toMap' = [toMap EXCEPT ![m] = Tail(@)]
      /\ Head(toMap[m]).type = "Tell" /\ UNCHANGED <<sent, buf>>
  BY DEF MapTell, Deliver, worldVars
<1>2. Head(toMap[m]) \in Message
  BY <1>1 DEF TypeOK, ToMapTypeOK
<1>3. /\ t \in Tells /\ t \in Lines /\ {Recipient[t]} \in SUBSET Chars
      /\ Carries(Head(toMap[m]), l, c) <=> l = t /\ c = Recipient[t]
  <2>1. t \in Tells /\ (Carries(Head(toMap[m]), l, c) <=> t = l /\ c = Recipient[l])
    BY <1>1, <1>2, MessageFields, HeadCopies
  <2>2. QED BY <2>1, ChatAssumption DEF Lines
<1>4. /\ \A n \in Maps : /\ Holds(toMap'[n], l, c) => Holds(toMap[n], l, c)
                         /\ Once(toMap[n], l, c) => Once(toMap'[n], l, c)
      /\ Carries(Head(toMap[m]), l, c) =>
           /\ l \in sent /\ answers[l][c] = 0
           /\ \A r \in Peers : ~Holds(toWorld[r], l, c)
           /\ \A n \in Maps : ~Holds(toMap'[n], l, c)
           /\ \A d \in Chars : ~Holds(buf[d], l, c)
  BY <1>1, TakeFromMapLink
<1>5. CASE Answer(t, {Recipient[t]}) /\ UNCHANGED toWorld
  <2>1. answers'[l][c] = IF l = t /\ c \in {Recipient[t]} THEN answers[l][c] + 1
                         ELSE answers[l][c]
    BY <1>3, <1>5, AnswerCounts DEF TypeOK
  <2>2. CASE l = t /\ c = Recipient[t]
    <3>1. l \in sent' /\ answers'[l][c] \in {0, 1}
      <4>1. l \in sent /\ answers[l][c] = 0
        BY <1>3, <1>4, <2>2
      <4>2. answers'[l][c] = answers[l][c] + 1
        BY <2>1, <2>2
      <4>3. QED BY <1>1, <4>1, <4>2
    <3>2. /\ \A r \in Peers : ~Holds(toWorld'[r], l, c)
          /\ \A n \in Maps : ~Holds(toMap'[n], l, c)
          /\ \A d \in Chars : ~Holds(buf'[d], l, c)
      BY <1>1, <1>3, <1>4, <1>5, <2>2
    <3>3. QED BY <3>1, <3>2, CopyGone
  <2>3. CASE ~(l = t /\ c = Recipient[t])
    BY <1>1, <1>3, <1>4, <1>5, <2>1, <2>3, CopyStays
  <2>4. QED BY <2>2, <2>3
<1>6. CASE Send(m, TellRetry(t)) /\ UNCHANGED answers
  <2>1. m \in Peers /\ TellRetry(t) \in Message
        /\ (Carries(TellRetry(t), l, c) <=> l = t /\ c = Recipient[t])
    BY <1>3, MessageTypes, MessageCopies DEF Peers
  <2>2. \A r \in Peers :
          /\ Holds(toWorld'[r], l, c) <=>
               Holds(toWorld[r], l, c) \/ (r = m /\ Carries(TellRetry(t), l, c))
          /\ Once(toWorld[r], l, c)
               /\ ~(r = m /\ Holds(toWorld[r], l, c) /\ Carries(TellRetry(t), l, c))
               => Once(toWorld'[r], l, c)
    BY <1>6, <2>1, PutInWorldLink DEF TypeOK, ToWorldTypeOK
  <2>3. CASE l = t /\ c = Recipient[t]
    <3>1. Once(toWorld'[m], l, c)
      BY <1>3, <1>4, <2>1, <2>2, <2>3, NoCopyOnce
    <3>2. l \in sent' /\ answers'[l][c] = 0
      BY <1>1, <1>3, <1>4, <1>6, <2>3
    <3>3. /\ \A r \in Peers : Holds(toWorld'[r], l, c) => r = m
          /\ \A n \in Maps : ~Holds(toMap'[n], l, c)
          /\ \A d \in Chars : ~Holds(buf'[d], l, c)
      BY <1>1, <1>3, <1>4, <2>2, <2>3
    <3>4. QED BY <2>1, <3>1, <3>2, <3>3, CopyToWorld
  <2>4. CASE ~(l = t /\ c = Recipient[t])
    BY <1>1, <1>3, <1>4, <1>6, <2>1, <2>2, <2>4, CopyStays
  <2>5. QED BY <2>3, <2>4
<1>7. QED BY <1>5, <1>6 DEF MapTell, Undelivered, Bounce

(* A recipient a map reaches is never one that it asks world to retry.     *)
LEMMA MapTargetedCopies ==
  ASSUME TypeOK, NEW l \in Lines, NEW c \in Chars, Good(l, c), NEW m \in Maps, MapTargeted(m)
  PROVE  Good(l, c)'
<1> DEFINE p       == Head(toMap[m])
           reached == {d \in p.to \ (Jailed \cup {Sender[p.line]}) :
                          Present(m, d) /\ TargetedChatType(d)}
<1>1. /\ toMap[m] # << >> /\ toMap' = [toMap EXCEPT ![m] = Tail(@)]
      /\ p.type = "Targeted" /\ UNCHANGED <<sent, buf>> /\ Answer(p.line, reached)
  BY DEF MapTargeted, Deliver, worldVars
<1>2. PICK unsettled \in SUBSET p.to :
        IF RetryRecipients(m, p, unsettled) = {} THEN UNCHANGED toWorld
        ELSE Send(m, TargetedRetry(p.line, RetryRecipients(m, p, unsettled), p.retry))
  BY DEF MapTargeted
<1> DEFINE again == RetryRecipients(m, p, unsettled)
<1>3. p \in Message
  BY <1>1 DEF TypeOK, ToMapTypeOK
<1>4. /\ p.line \in Groups /\ p.line \in Lines /\ p.to \in SUBSET Chars /\ p.retry \in Retries
      /\ Carries(p, l, c) <=> p.line = l /\ c \in p.to
  BY <1>1, <1>3, MessageFields, HeadCopies DEF Lines
<1>5. /\ again \in SUBSET Chars /\ again \subseteq p.to
      /\ reached \in SUBSET Chars /\ reached \subseteq p.to
      /\ \A d \in reached : d \notin again
  BY <1>4 DEF RetryRecipients
<1>6. answers'[l][c] = IF l = p.line /\ c \in reached THEN answers[l][c] + 1 ELSE answers[l][c]
  BY <1>1, <1>4, <1>5, AnswerCounts DEF TypeOK
<1>7. /\ \A n \in Maps : /\ Holds(toMap'[n], l, c) => Holds(toMap[n], l, c)
                         /\ Once(toMap[n], l, c) => Once(toMap'[n], l, c)
      /\ Carries(p, l, c) =>
           /\ l \in sent /\ answers[l][c] = 0
           /\ \A r \in Peers : ~Holds(toWorld[r], l, c)
           /\ \A n \in Maps : ~Holds(toMap'[n], l, c)
           /\ \A d \in Chars : ~Holds(buf[d], l, c)
  BY <1>1, TakeFromMapLink
<1> HIDE DEF p, reached, again
<1>8. /\ m \in Peers
      /\ \A r \in Peers :
           /\ Holds(toWorld'[r], l, c) =>
                Holds(toWorld[r], l, c) \/ (r = m /\ l = p.line /\ c \in again)
           /\ Once(toWorld[r], l, c)
                /\ ~(r = m /\ Holds(toWorld[r], l, c) /\ l = p.line /\ c \in again)
                => Once(toWorld'[r], l, c)
  <2> DEFINE x == TargetedRetry(p.line, again, p.retry)
  <2>1. m \in Peers
    BY DEF Peers
  <2>2. CASE again = {}
    BY <1>2, <2>1, <2>2 DEF again
  <2>3. CASE again # {}
    <3>1. Send(m, x)
      BY <1>2, <2>3 DEF again
    <3>2. x \in Message
      BY <1>4, <1>5, MessageTypes, Zenon
    <3>3. Carries(x, l, c) <=> l = p.line /\ c \in again
      BY DEF Carries, TargetedRetry
    <3> HIDE DEF x
    <3>4. \A r \in Peers :
            /\ Holds(toWorld'[r], l, c) <=> Holds(toWorld[r], l, c) \/ (r = m /\ Carries(x, l, c))
            /\ Once(toWorld[r], l, c) /\ ~(r = m /\ Holds(toWorld[r], l, c) /\ Carries(x, l, c))
                 => Once(toWorld'[r], l, c)
      BY <2>1, <3>1, <3>2, PutInWorldLink DEF TypeOK, ToWorldTypeOK
    <3>5. QED BY <2>1, <3>3, <3>4
  <2>4. QED BY <2>2, <2>3
<1>9. CASE l = p.line /\ c \in again
  <2>1. Once(toWorld'[m], l, c)
    BY <1>4, <1>5, <1>7, <1>8, <1>9, NoCopyOnce
  <2>2. QED BY <1>1, <1>4, <1>5, <1>6, <1>7, <1>8, <1>9, <2>1, CopyToWorld
<1>10. CASE l = p.line /\ c \in reached
  BY <1>1, <1>4, <1>5, <1>6, <1>7, <1>8, <1>10, CopyGone
<1>11. CASE ~(l = p.line /\ c \in again) /\ ~(l = p.line /\ c \in reached)
  BY <1>1, <1>6, <1>7, <1>8, <1>11, CopyStays
<1>12. QED BY <1>9, <1>10, <1>11

(* Every message a map handles keeps copies single.                        *)
LEMMA MapCopies ==
  ASSUME TypeOK, NEW l \in Lines, NEW c \in Chars, Good(l, c), NEW m \in Maps, MapNext(m)
  PROVE  Good(l, c)'
<1>1. CASE MapCharZone(m)
  <2>1. /\ toMap[m] # << >> /\ toMap' = [toMap EXCEPT ![m] = Tail(@)]
        /\ UNCHANGED <<sent, answers, buf, toWorld>>
    BY <1>1 DEF MapCharZone, Deliver, worldVars, history
  <2>2. \A n \in Maps : /\ Holds(toMap'[n], l, c) => Holds(toMap[n], l, c)
                        /\ Once(toMap[n], l, c) => Once(toMap'[n], l, c)
    BY <2>1, TakeFromMapLink
  <2>3. QED BY <2>1, <2>2, CopyStays
<1>2. QED BY <1>1, MapTellCopies, MapTargetedCopies DEF MapNext

-----------------------------------------------------------------------------
(* SingleCopy and OneAnswer together are inductive, given TypeOK.          *)

(* Initially there is no copy.                                             *)
LEMMA CopiesInitially ==
  ASSUME Init, NEW l \in Lines, NEW c \in Chars
  PROVE  Good(l, c)
<1>1. /\ \A q \in Peers : toWorld[q] = << >>
      /\ \A m \in Maps : toMap[m] = << >>
      /\ \A d \in Chars : buf[d] = << >>
      /\ sent = {} /\ answers[l][c] = 0
  BY DEF Init
<1>2. QED BY <1>1, EmptyCopies
          DEF Good, SingleCopyOf, InWorldLink, InMapLink, InBuffer, Unanswered

(* Every step keeps copies single.                                         *)
LEMMA CopiesStep ==
  ASSUME TypeOK, [Next]_vars, NEW l \in Lines, NEW c \in Chars, Good(l, c)
  PROVE  Good(l, c)'
<1>1. CASE UNCHANGED vars
  BY <1>1, CopyStays DEF vars, worldVars, history
<1>2. ASSUME NEW q \in Peers, WorldNext(q) PROVE Good(l, c)'
  BY <1>2, TellCopies, PartyCopies, RetryCopies, ControlCopies, ReplayCopies DEF WorldNext
<1>3. QED BY <1>1, <1>2, SendingCopies, CharCopies, MapCopies, ExpireCopies DEF Next

(* SingleCopy: a copy of a line is in one link or buffer at most, and in   *)
(* none before the line is sent or once the copy is answered.              *)
THEOREM CopiesNeverFork == Spec => []SingleCopy
<1> DEFINE AllGood == \A l \in Lines, c \in Chars : Good(l, c)
<1>1. Init => AllGood
  BY CopiesInitially
<1>2. TypeOK /\ AllGood /\ [Next]_vars => AllGood'
  BY CopiesStep
<1>3. AllGood => SingleCopy
  BY DEF SingleCopy, Good
<1>4. QED BY <1>1, <1>2, <1>3, TypeCorrect, PTL DEF Spec

(* OneAnswer: no recipient sees a line twice, and no sender is told that a *)
(* tell was not received when it was, nor told so twice.                   *)
THEOREM AnsweredAtMostOnce == Spec => []OneAnswer
<1> DEFINE AllGood == \A l \in Lines, c \in Chars : Good(l, c)
<1>1. Init => AllGood
  BY CopiesInitially
<1>2. TypeOK /\ AllGood /\ [Next]_vars => AllGood'
  BY CopiesStep
<1>3. AllGood => OneAnswer
  BY DEF OneAnswer, Good
<1>4. QED BY <1>1, <1>2, <1>3, TypeCorrect, PTL DEF Spec

-----------------------------------------------------------------------------
(* ZoningChat implements ChatDelivery (safety): as no copy is ever answered *)
(* twice, a step that answers one found it open.                           *)
AllGood == \A l \in Lines, c \in Chars : Good(l, c)

(* A copy that a step answers was open, if the step sends nothing.         *)
LEMMA WasOpen ==
    ASSUME TypeOK, AllGood', UNCHANGED sent, NEW l \in Lines, NEW c \in Chars,
           answers'[l][c] = answers[l][c] + 1
    PROVE  l \in sent /\ answers[l][c] = 0
<1>1. answers[l][c] \in Nat
  BY DEF TypeOK, HistoryTypeOK
<1>2. answers'[l][c] <= 1 /\ (l \notin sent' => answers'[l][c] = 0)
  BY DEF AllGood, Good, SingleCopyOf
<1> QED
  BY <1>1, <1>2

(* Answer is the abstract Show.                                            *)
LEMMA AnswerShows ==
    ASSUME TypeOK, AllGood', UNCHANGED <<sent, bounced>>,
           NEW l \in Lines, NEW cs \in SUBSET Chars, Answer(l, cs)
    PROVE  Delivery!Next
<1>1. answers \in [Lines -> [Chars -> Nat]]
  BY DEF TypeOK, HistoryTypeOK
<1>2. \A c \in cs : answers'[l][c] = answers[l][c] + 1
  BY <1>1 DEF Answer
<1>3. \A c \in cs : l \in sent /\ answers[l][c] = 0
  BY <1>2, WasOpen
<1>4. answers' = [answers EXCEPT ![l] = Delivery!Settled(l, cs)]
  <2> DEFINE new == [c \in Chars |-> IF c \in cs THEN answers[l][c] + 1 ELSE answers[l][c]]
  <2>1. new = Delivery!Settled(l, cs)
    BY <1>3 DEF Delivery!Settled
  <2>2. answers' = [answers EXCEPT ![l] = new]
    BY <1>1 DEF Answer
  <2> QED
    BY <2>1, <2>2
<1>5. Delivery!Show(l, cs)
  BY <1>3, <1>4 DEF Delivery!Show, Delivery!Open
<1> QED
  BY <1>5 DEF Delivery!Next, Delivery!Lines, Lines

(* Tells given up together are an abstract Report.                         *)
LEMMA GivenUpReports ==
    ASSUME TypeOK, AllGood', UNCHANGED sent, NEW T \in SUBSET Tells,
           bounced' = bounced \cup T,
           answers' = [l \in Lines |-> [d \in Chars |->
              IF l \in T /\ d = Recipient[l] THEN answers[l][d] + 1 ELSE answers[l][d]]]
    PROVE  Delivery!Next
<1>1. answers \in [Lines -> [Chars -> Nat]] /\ T \subseteq Lines
  BY DEF TypeOK, HistoryTypeOK, Lines
<1>2. \A t \in T : Recipient[t] \in Chars
  BY ChatAssumption
<1>3. \A t \in T : t \in sent /\ answers[t][Recipient[t]] = 0
  BY <1>1, <1>2, WasOpen
<1>4. ASSUME NEW l \in Lines
      PROVE  answers'[l] = IF l \in T THEN Delivery!Settled(l, {Recipient[l]}) ELSE answers[l]
  BY <1>1, <1>2, <1>3 DEF Delivery!Settled
<1>5. answers' = [l \in Lines |-> IF l \in T THEN Delivery!Settled(l, {Recipient[l]})
                                  ELSE answers[l]]
  BY <1>4
<1>6. Delivery!Report(T)
  BY <1>3, <1>5 DEF Delivery!Report, Delivery!Open, Delivery!Lines, Lines
<1> QED
  BY <1>6 DEF Delivery!Next

LEMMA BounceReports ==
    ASSUME TypeOK, AllGood', UNCHANGED sent, NEW t \in Tells, Bounce(t)
    PROVE  Delivery!Next
<1>1. answers \in [Lines -> [Chars -> Nat]] /\ t \in Lines /\ Recipient[t] \in Chars
  BY ChatAssumption DEF TypeOK, HistoryTypeOK, Lines
<1>2. answers' = [l \in Lines |-> [d \in Chars |->
         IF l \in {t} /\ d = Recipient[l] THEN answers[l][d] + 1 ELSE answers[l][d]]]
  BY <1>1 DEF Bounce, Answer
<1>3. bounced' = bounced \cup {t}
  BY DEF Bounce
<1> QED
  BY <1>2, <1>3, GivenUpReports, ZenonT(60)

LEMMA Submits ==
    ASSUME \/ \E t \in Tells : SendTell(t)
           \/ \E g \in Groups : SendParty(g)
    PROVE  Delivery!Next
<1>1. PICK l \in Lines : l \notin sent /\ sent' = sent \cup {l} /\ UNCHANGED <<answers, bounced>>
  BY DEF SendTell, SendParty, Lines
<1> QED
  BY <1>1 DEF Delivery!Next, Delivery!Submit, Delivery!Lines, Lines

LEMMA WorldDelivers ==
    ASSUME TypeOK, AllGood', NEW q \in Peers, WorldNext(q)
    PROVE  Delivery!Next \/ UNCHANGED <<sent, answers, bounced>>
<1>1. CASE WorldTell(q) \/ WorldTellRetry(q)
  <2> DEFINE t == Head(toWorld[q]).line
  <2>1. UNCHANGED sent /\ (Bounce(t) \/ UNCHANGED <<answers, bounced>>)
    BY <1>1 DEF WorldTell, WorldTellRetry
  <2>2. t \in Tells
    <3>1. toWorld[q] # << >> /\ Head(toWorld[q]).type \in {"Tell", "TellRetry"}
      BY <1>1 DEF WorldTell, WorldTellRetry, Receive
    <3>2. Head(toWorld[q]) \in Message
      BY <3>1 DEF TypeOK, ToWorldTypeOK
    <3> QED
      BY <3>1, <3>2 DEF Message, TellMsg, PartyMsg, TargetedMsg, CharZoneMsg, ReadyMsg
  <2> HIDE DEF t
  <2> QED
    BY <2>1, <2>2, BounceReports
<1>2. CASE WorldParty(q) \/ WorldTargetedRetry(q) \/ WorldCharZone(q) \/ WorldChatZoneReady(q)
  BY <1>2 DEF WorldParty, WorldTargetedRetry, WorldCharZone, WorldChatZoneReady, history
<1> QED
  BY <1>1, <1>2 DEF WorldNext

LEMMA MapDelivers ==
    ASSUME TypeOK, AllGood', NEW m \in Maps, MapNext(m)
    PROVE  Delivery!Next \/ UNCHANGED <<sent, answers, bounced>>
<1> DEFINE p == Head(toMap[m])
<1>1. CASE MapTell(m)
  <2>1. p.line \in Tells
    <3>1. toMap[m] # << >> /\ p.type = "Tell"
      BY <1>1 DEF MapTell, Deliver
    <3>2. p \in Message
      BY <3>1 DEF TypeOK, ToMapTypeOK
    <3> QED
      BY <3>1, <3>2 DEF Message, TellMsg, PartyMsg, TargetedMsg, CharZoneMsg, ReadyMsg
  <2>2. /\ UNCHANGED sent
        /\ \/ Answer(p.line, {Recipient[p.line]}) /\ UNCHANGED bounced
           \/ Bounce(p.line)
           \/ UNCHANGED <<answers, bounced>>
    BY <1>1 DEF MapTell, Undelivered
  <2>3. p.line \in Lines /\ {Recipient[p.line]} \in SUBSET Chars
    BY <2>1, ChatAssumption DEF Lines
  <2> HIDE DEF p
  <2> QED
    BY <2>1, <2>2, <2>3, AnswerShows, BounceReports
<1>2. CASE MapTargeted(m)
  <2> DEFINE reached == {c \in p.to \ (Jailed \cup {Sender[p.line]}) :
                            Present(m, c) /\ TargetedChatType(c)}
  <2>1. p.line \in Lines /\ p.to \subseteq Chars
    <3>1. toMap[m] # << >> /\ p.type = "Targeted"
      BY <1>2 DEF MapTargeted, Deliver
    <3>2. p \in Message
      BY <3>1 DEF TypeOK, ToMapTypeOK
    <3> QED
      BY <3>1, <3>2 DEF Message, TellMsg, PartyMsg, TargetedMsg, CharZoneMsg, ReadyMsg, Lines
  <2>2. UNCHANGED <<sent, bounced>> /\ Answer(p.line, reached)
    BY <1>2 DEF MapTargeted
  <2>3. reached \in SUBSET Chars
    BY <2>1
  <2> HIDE DEF p, reached
  <2> QED
    BY <2>1, <2>2, <2>3, AnswerShows
<1>3. CASE MapCharZone(m)
  BY <1>3 DEF MapCharZone, history
<1> QED
  BY <1>1, <1>2, <1>3 DEF MapNext

LEMMA ExpiryReports ==
    ASSUME TypeOK, AllGood', NEW c \in Chars, ExpireTransition(c)
    PROVE  Delivery!Next
<1> DEFINE T == HeldTells(c)
<1>1. T \in SUBSET Tells
  BY DEF HeldTells
<1>2. /\ UNCHANGED sent /\ bounced' = bounced \cup T
      /\ answers' = [l \in Lines |-> [d \in Chars |->
            IF l \in T /\ d = Recipient[l] THEN answers[l][d] + 1 ELSE answers[l][d]]]
  BY DEF ExpireTransition
<1> HIDE DEF T
<1> QED
  BY <1>1, <1>2, GivenUpReports

(* Every step is an abstract step or changes nothing abstract.             *)
LEMMA StepSimulates ==
    ASSUME TypeOK, AllGood', [Next]_vars
    PROVE  [Delivery!Next]_Delivery!vars
<1> USE DEF Delivery!vars
<1>1. CASE UNCHANGED vars
  BY <1>1 DEF vars, history
<1>2. CASE (\E t \in Tells : SendTell(t)) \/ (\E g \in Groups : SendParty(g))
  BY <1>2, Submits
<1>3. ASSUME NEW q \in Peers, WorldNext(q) PROVE [Delivery!Next]_Delivery!vars
  BY <1>3, WorldDelivers
<1>4. ASSUME NEW m \in Maps, MapNext(m) PROVE [Delivery!Next]_Delivery!vars
  BY <1>4, MapDelivers
<1>5. ASSUME NEW c \in Chars, CharNext(c) PROVE [Delivery!Next]_Delivery!vars
  BY <1>5, CharLinks
<1>6. ASSUME NEW c \in Chars, ExpireTransition(c) PROVE [Delivery!Next]_Delivery!vars
  BY <1>6, ExpiryReports
<1> QED
  BY <1>1, <1>2, <1>3, <1>4, <1>5, <1>6 DEF Next

(* The chat of maps, world and database implements the promise of          *)
(* ChatDelivery: a line is sent once, a recipient sees it once, a tell is  *)
(* seen or reported back and never both.                                   *)
THEOREM ImplementsChatDelivery == Spec => ImplementsDelivery
<1>1. Init => Delivery!Init
  BY DEF Init, Delivery!Init, Delivery!Lines, Lines
<1>2. Init => AllGood
  BY CopiesInitially DEF AllGood
<1>3. TypeOK /\ AllGood /\ [Next]_vars => AllGood'
  BY CopiesStep DEF AllGood
<1>4. TypeOK /\ AllGood' /\ [Next]_vars => [Delivery!Next]_Delivery!vars
  BY StepSimulates
<1> QED
  BY <1>1, <1>2, <1>3, <1>4, TypeCorrect, PTL DEF Spec, ImplementsDelivery, Delivery!Spec
=============================================================================
