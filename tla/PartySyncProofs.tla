-------------------------- MODULE PartySyncProofs --------------------------
(***************************************************************************)
(* What holds of a party on several maps, for any number of characters,    *)
(* maps and actions. The methods of CParty are operators from one book     *)
(* (the rows and the objects of all maps) to the next, so most of the work *)
(* is done once per method: Sound says what keeps a book well formed.      *)
(***************************************************************************)
EXTENDS PartySync, FiniteSetTheorems, SequenceTheorems, TLAPS

Books ==
    [row : [Chars -> Row \cup {NoRow}], party : [Chars -> Objs \cup {NoObj}],
     pid : [Objs -> Chars \cup {NoOne}], ldr : [Objs -> Chars \cup {NoOne, Gone}],
     out : Seq(Message)]

(* A book in which members of an object are on one map, objects in use     *)
(* have an id, and a party row has its session row; pos and home: where    *)
(* the characters are and where their session rows say.                    *)
Sound(b, pos, home) ==
    /\ b \in Books
    /\ \A c \in Chars : b.party[c] # NoObj => pos[c] # NoMap /\ b.pid[b.party[c]] # NoOne
    /\ \A c, d \in Chars : b.party[c] # NoObj /\ b.party[c] = b.party[d] => pos[c] = pos[d]
    /\ \A c \in Chars : home[c] = NoMap => b.row[c] = NoRow

(* Everything but the book.                                                *)
Rest ==
    /\ addr \in [Chars -> Maps \cup {NoMap}]
    /\ at \in [Chars -> Maps \cup {NoMap}] /\ zoned \subseteq {c \in Chars : at[c] # NoMap}
    /\ reload \subseteq Chars /\ invite \in [Chars -> Chars \cup {NoOne}]
    /\ task \in [Maps -> Task \cup {NoTask}]
    /\ toWorld \in [Maps -> Seq(Message)] /\ toMap \in [Maps -> Seq(Message)]
    /\ acts \in 0..MaxActs

(* A map in the middle of RemovePartyLeader still has the leader, in its   *)
(* party.                                                                  *)
TaskHere ==
    \A m \in Maps : task[m] # NoTask =>
       /\ at[task[m].char] = m /\ party[task[m].char] # NoObj
       /\ task[m].then = "off" => task[m].char \notin zoned

Typed == TypeOK /\ TaskHere

LEMMA TypedParts == TypeOK <=> Rest /\ Sound(Book, at, addr)
<1>1. << >> \in Seq(Message)
  OBVIOUS
<1>2. /\ Book \in Books <=> /\ row \in [Chars -> Row \cup {NoRow}] /\ party \in [Chars -> Objs \cup {NoObj}]
                            /\ pid \in [Objs -> Chars \cup {NoOne}] /\ ldr \in [Objs -> Chars \cup {NoOne, Gone}]
      /\ Book.row = row /\ Book.party = party /\ Book.pid = pid /\ Book.ldr = ldr
  BY <1>1 DEF Book, Books
<1> HIDE DEF Book
<1>3. QED BY <1>2 DEF TypeOK, Rest, Sound

LEMMA TypedPartsNext == TypeOK' <=> Rest' /\ Sound(Book', at', addr')
<1>1. << >> \in Seq(Message)
  OBVIOUS
<1>2. /\ Book' \in Books <=> /\ row' \in [Chars -> Row \cup {NoRow}] /\ party' \in [Chars -> Objs \cup {NoObj}]
                             /\ pid' \in [Objs -> Chars \cup {NoOne}] /\ ldr' \in [Objs -> Chars \cup {NoOne, Gone}]
      /\ Book'.row = row' /\ Book'.party = party' /\ Book'.pid = pid' /\ Book'.ldr = ldr'
  BY <1>1 DEF Book, Books
<1>3. QED BY <1>2 DEF TypeOK, Rest, Sound

(* The distinguished values differ from the others.                        *)
LEMMA Names ==
    /\ NoOne \notin Chars /\ Gone \notin Chars /\ NoMap \notin Maps /\ NoObj \notin Objs
    /\ NoRow \notin Row /\ NoTask \notin Task
    /\ Start \in [Chars -> Maps] /\ PartyMax \in Nat /\ MaxActs \in Nat
BY PartyAssumption DEF Row, Task

LEMMA MessageTypes ==
    ASSUME NEW c \in Chars, NEW d \in Chars
    PROVE  /\ PartyReload(c) \in Message /\ PartyDisband(c) \in Message /\ PlayerKick(c) \in Message
           /\ PartyInvite(c, d) \in Message /\ PartyInviteResponse(c, d) \in Message
BY DEF PartyReload, PartyDisband, PlayerKick, PartyInvite, PartyInviteResponse, Message

-----------------------------------------------------------------------------
(* The methods keep a book sound.                                          *)
LEMMA BookFields ==
    ASSUME NEW b \in Books
    PROVE  /\ b.row \in [Chars -> Row \cup {NoRow}] /\ b.party \in [Chars -> Objs \cup {NoObj}]
           /\ b.pid \in [Objs -> Chars \cup {NoOne}] /\ b.ldr \in [Objs -> Chars \cup {NoOne, Gone}]
           /\ b.out \in Seq(Message)
BY DEF Books

LEMMA SaySound ==
    ASSUME NEW b, NEW pos, NEW home, Sound(b, pos, home), NEW p \in Message
    PROVE  /\ Sound(Say(b, p), pos, home)
           /\ Say(b, p).row = b.row /\ Say(b, p).party = b.party /\ Say(b, p).pid = b.pid
           /\ Say(b, p).ldr = b.ldr /\ Say(b, p).out = Append(b.out, p)
<1>1. b \in Books /\ b.out \in Seq(Message)
  BY BookFields DEF Sound
<1>2. Append(b.out, p) \in Seq(Message)
  BY <1>1
<1>3. /\ Say(b, p) \in Books
      /\ Say(b, p).row = b.row /\ Say(b, p).party = b.party /\ Say(b, p).pid = b.pid
      /\ Say(b, p).ldr = b.ldr /\ Say(b, p).out = Append(b.out, p)
  BY <1>1, <1>2 DEF Say, Books
<1>4. QED BY <1>3 DEF Sound

(* A book stays sound if only its rows and leaders change.                 *)
LEMMA SoundRows ==
    ASSUME NEW b, NEW pos, NEW home, Sound(b, pos, home), NEW n \in Books,
           \A c \in Chars : n.party[c] = b.party[c],
           \A o \in Objs : n.pid[o] = b.pid[o] \/ n.pid[o] # NoOne,
           \A c \in Chars : home[c] = NoMap => n.row[c] = NoRow
    PROVE  Sound(n, pos, home)
<1>1. \A c \in Chars : b.party[c] # NoObj => b.party[c] \in Objs
  BY BookFields DEF Sound
<1>2. QED BY <1>1 DEF Sound

LEMMA InsertSound ==
    ASSUME NEW b, NEW pos, Sound(b, pos, addr), NEW c \in Chars, NEW p \in Chars
    PROVE  /\ Sound(Insert(b, c, p), pos, addr)
           /\ Insert(b, c, p).party = b.party /\ Insert(b, c, p).pid = b.pid
           /\ Insert(b, c, p).ldr = b.ldr /\ Insert(b, c, p).out = b.out
           /\ \A d \in Chars : Insert(b, c, p).row[d]
                = IF d = c /\ b.row[c] = NoRow /\ addr[c] # NoMap THEN [party |-> p, leader |-> FALSE] ELSE b.row[d]
<1>1. b \in Books
  BY DEF Sound
<1>2. [party |-> p, leader |-> FALSE] \in Row
  BY DEF Row
<1>3. /\ Insert(b, c, p) \in Books
      /\ Insert(b, c, p).party = b.party /\ Insert(b, c, p).pid = b.pid
      /\ Insert(b, c, p).ldr = b.ldr /\ Insert(b, c, p).out = b.out
  BY <1>1, <1>2 DEF Insert, Books
<1>4. \A d \in Chars : Insert(b, c, p).row[d]
                = IF d = c /\ b.row[c] = NoRow /\ addr[c] # NoMap THEN [party |-> p, leader |-> FALSE] ELSE b.row[d]
  BY <1>1 DEF Insert, Books
<1>5. \A d \in Chars : addr[d] = NoMap => Insert(b, c, p).row[d] = NoRow
  BY <1>4 DEF Sound
<1>6. Sound(Insert(b, c, p), pos, addr)
  BY <1>3, <1>5, SoundRows
<1>7. QED BY <1>3, <1>4, <1>6

LEMMA RowFlag ==
    ASSUME NEW x \in Row
    PROVE  /\ [x EXCEPT !.leader = TRUE] = [party |-> x.party, leader |-> TRUE]
           /\ [party |-> x.party, leader |-> TRUE] \in Row
<1>1. x.party \in Chars /\ x = [party |-> x.party, leader |-> x.leader]
  BY DEF Row
<1>2. [party |-> x.party, leader |-> TRUE] \in Row
  BY <1>1 DEF Row
<1> DEFINE y == [x EXCEPT !.leader = TRUE]
<1>3. y = [party |-> x.party, leader |-> TRUE]
  <2>1. y \in Row /\ y.party = x.party /\ y.leader = TRUE
    BY DEF Row
  <2> HIDE DEF y
  <2>2. y = [party |-> y.party, leader |-> y.leader]
    BY <2>1 DEF Row
  <2>3. QED BY <2>1, <2>2
<1>4. QED BY <1>2, <1>3

LEMMA SetLeaderSound ==
    ASSUME NEW b, NEW pos, Sound(b, pos, addr), NEW o \in Objs, NEW n \in Chars
    PROVE  LET s == SetLeader(b, o, n) IN
           /\ Sound(s, pos, addr)
           /\ s.party = b.party /\ s.out = b.out
           /\ addr[n] = NoMap => s = b
           /\ addr[n] # NoMap =>
                /\ s.pid[o] = n /\ s.ldr[o] = IF n \in Members(b, o) THEN n ELSE NoOne
                /\ \A x \in Objs \ {o} : s.pid[x] = b.pid[x] /\ s.ldr[x] = b.ldr[x]
                /\ \A c \in Chars : s.row[c] = IF c \in Rows(b, b.pid[o]) THEN [party |-> n, leader |-> c = n]
                                               ELSE IF c = n /\ b.row[c] # NoRow
                                                    THEN [party |-> b.row[c].party, leader |-> TRUE]
                                                    ELSE b.row[c]
<1> DEFINE s == SetLeader(b, o, n)
<1>1. b \in Books
  BY DEF Sound
<1>2. CASE addr[n] = NoMap
  <2>1. s = b
    BY <1>2 DEF SetLeader
  <2> HIDE DEF s
  <2>2. QED BY <1>2, <2>1 DEF s
<1>3. CASE addr[n] # NoMap
  <2> DEFINE r == [c \in Chars |-> IF c \in Rows(b, b.pid[o]) THEN [party |-> n, leader |-> FALSE] ELSE b.row[c]]
             t == IF r[n] = NoRow THEN r ELSE [r EXCEPT ![n].leader = TRUE]
             l == IF n \in Members(b, o) THEN n ELSE NoOne
  <2>1. s = [b EXCEPT !.row = t, !.pid[o] = n, !.ldr[o] = l]
    BY <1>3 DEF SetLeader
  <2>2. [party |-> n, leader |-> FALSE] \in Row
    BY DEF Row
  <2>3. r \in [Chars -> Row \cup {NoRow}]
    BY <1>1, <2>2, BookFields
  <2>4. r[n] # NoRow => r[n] \in Row /\ [r[n] EXCEPT !.leader = TRUE] = [party |-> r[n].party, leader |-> TRUE]
                        /\ [party |-> r[n].party, leader |-> TRUE] \in Row
    <3> HIDE DEF r
    <3>1. QED BY <2>3, RowFlag
  <2>5. t \in [Chars -> Row \cup {NoRow}] /\ \A c \in Chars : t[c] = IF c = n /\ r[c] # NoRow
                                                THEN [party |-> r[c].party, leader |-> TRUE] ELSE r[c]
    <3> HIDE DEF r
    <3>1. QED BY <2>3, <2>4
  <2>6. l \in Chars \cup {NoOne, Gone}
    OBVIOUS
  <2>7. \A c \in Chars : t[c] = IF c \in Rows(b, b.pid[o]) THEN [party |-> n, leader |-> c = n]
                                ELSE IF c = n /\ b.row[c] # NoRow
                                     THEN [party |-> b.row[c].party, leader |-> TRUE]
                                     ELSE b.row[c]
    <3> SUFFICES ASSUME NEW c \in Chars
                 PROVE  t[c] = IF c \in Rows(b, b.pid[o]) THEN [party |-> n, leader |-> c = n]
                               ELSE IF c = n /\ b.row[c] # NoRow
                                     THEN [party |-> b.row[c].party, leader |-> TRUE]
                                     ELSE b.row[c]
      OBVIOUS
    <3>1. t[c] = IF c = n /\ r[c] # NoRow THEN [party |-> r[c].party, leader |-> TRUE] ELSE r[c]
      BY <2>5
    <3>2. r[c] = IF c \in Rows(b, b.pid[o]) THEN [party |-> n, leader |-> FALSE] ELSE b.row[c]
      OBVIOUS
    <3>3. [party |-> n, leader |-> FALSE] # NoRow
      BY <2>2, Names
    <3> HIDE DEF r, t
    <3>4. CASE c \in Rows(b, b.pid[o])
      <4>1. CASE c = n
        <5>1. (c = n) = TRUE
          BY <4>1
        <5>2. t[c] = [party |-> r[c].party, leader |-> TRUE] /\ r[c] = [party |-> n, leader |-> FALSE]
          BY <3>1, <3>2, <3>3, <3>4, <4>1
        <5>3. r[c].party = n
          BY <5>2
        <5>4. QED BY <3>4, <5>1, <5>2, <5>3
      <4>2. CASE c # n
        <5>1. (c = n) = FALSE
          BY <4>2
        <5>2. QED BY <3>1, <3>2, <3>4, <4>2, <5>1
      <4>3. QED BY <4>1, <4>2
    <3>5. CASE c \notin Rows(b, b.pid[o])
      BY <3>1, <3>2, <3>5
    <3>6. QED BY <3>4, <3>5
  <2> HIDE DEF r, t, l
  <2>8. /\ s \in Books /\ s.party = b.party /\ s.out = b.out /\ s.row = t
        /\ s.pid = [b.pid EXCEPT ![o] = n] /\ s.ldr = [b.ldr EXCEPT ![o] = l]
    <3> DEFINE p == [b.pid EXCEPT ![o] = n]
               q == [b.ldr EXCEPT ![o] = l]
    <3>1. p \in [Objs -> Chars \cup {NoOne}] /\ q \in [Objs -> Chars \cup {NoOne, Gone}]
      BY <1>1, <2>6, BookFields
    <3>2. s = [b EXCEPT !.row = t, !.pid = p, !.ldr = q]
      BY <2>1
    <3> HIDE DEF s, p, q
    <3>3. s \in Books /\ s.party = b.party /\ s.out = b.out /\ s.row = t /\ s.pid = p /\ s.ldr = q
      BY <1>1, <2>5, <3>1, <3>2 DEF Books
    <3>4. QED BY <3>3 DEF p, q
  <2> HIDE DEF s
  <2>9. /\ s.pid[o] = n /\ s.ldr[o] = l
        /\ \A x \in Objs \ {o} : s.pid[x] = b.pid[x] /\ s.ldr[x] = b.ldr[x]
    BY <1>1, <2>8, BookFields
  <2>10. \A c \in Chars : addr[c] = NoMap => s.row[c] = NoRow
    <3> SUFFICES ASSUME NEW c \in Chars, addr[c] = NoMap PROVE s.row[c] = NoRow
      OBVIOUS
    <3>1. b.row[c] = NoRow
      BY DEF Sound
    <3>2. c \notin Rows(b, b.pid[o])
      BY <3>1 DEF Rows
    <3>3. QED BY <2>7, <2>8, <3>1, <3>2
  <2>11. \A x \in Objs : s.pid[x] = b.pid[x] \/ s.pid[x] # NoOne
    BY <2>9, Names
  <2>12. Sound(s, pos, addr)
    BY <2>8, <2>10, <2>11, SoundRows
  <2>13. QED BY <1>3, <2>7, <2>8, <2>9, <2>12 DEF s, l
<1>4. QED BY <1>2, <1>3

(* Somebody joins an object of its map.                                    *)
LEMMA JoinSound ==
    ASSUME NEW b, NEW pos, NEW home, Sound(b, pos, home), NEW c \in Chars, NEW o \in Objs,
           pos[c] # NoMap, b.pid[o] # NoOne, \A d \in Chars : b.party[d] = o => pos[d] = pos[c]
    PROVE  LET j == [b EXCEPT !.party[c] = o] IN
           /\ Sound(j, pos, home)
           /\ j.row = b.row /\ j.pid = b.pid /\ j.ldr = b.ldr /\ j.out = b.out
           /\ \A d \in Chars : j.party[d] = IF d = c THEN o ELSE b.party[d]
<1> DEFINE q == [b.party EXCEPT ![c] = o]
           j == [b EXCEPT !.party = q]
<1>1. b \in Books
  BY DEF Sound
<1>2. q \in [Chars -> Objs \cup {NoObj}] /\ \A d \in Chars : q[d] = IF d = c THEN o ELSE b.party[d]
  BY <1>1, BookFields
<1> HIDE DEF q
<1>3. j \in Books /\ j.row = b.row /\ j.pid = b.pid /\ j.ldr = b.ldr /\ j.out = b.out /\ j.party = q
  BY <1>1, <1>2 DEF Books
<1> HIDE DEF j
<1>4. \A d \in Chars : j.party[d] # NoObj => pos[d] # NoMap /\ j.pid[j.party[d]] # NoOne
  BY <1>2, <1>3 DEF Sound
<1>5. \A d, e \in Chars : j.party[d] # NoObj /\ j.party[d] = j.party[e] => pos[d] = pos[e]
  BY <1>2, <1>3 DEF Sound
<1>6. Sound(j, pos, home)
  BY <1>3, <1>4, <1>5 DEF Sound
<1>7. QED BY <1>2, <1>3, <1>6 DEF j, q

LEMMA AddHereSound ==
    ASSUME NEW b, NEW pos, Sound(b, pos, addr), NEW c \in Chars, NEW o \in Objs,
           pos[c] # NoMap, b.pid[o] \in Chars, \A d \in Chars : b.party[d] = o => pos[d] = pos[c]
    PROVE  LET h == AddHere(b, o, c) IN
           /\ Sound(h, pos, addr) /\ h.pid = b.pid /\ h.ldr = b.ldr
           /\ h # b => b.party[c] = NoObj
           /\ \/ h = b /\ (b.party[c] # NoObj \/ IsFull(b, o))
              \/ /\ b.party[c] = NoObj /\ h.out = Append(b.out, PartyReload(b.pid[o]))
                 /\ \A d \in Chars : h.party[d] = IF d = c THEN o ELSE b.party[d]
                 /\ \A d \in Chars : h.row[d] = IF d = c /\ b.row[c] = NoRow /\ addr[c] # NoMap
                                                THEN [party |-> b.pid[o], leader |-> FALSE] ELSE b.row[d]
<1>1. CASE b.party[c] # NoObj \/ IsFull(b, o)
  <2>1. AddHere(b, o, c) = b
    BY <1>1 DEF AddHere
  <2>2. QED BY <1>1, <2>1
<1>2. CASE ~(b.party[c] # NoObj \/ IsFull(b, o))
  <2> DEFINE j == [b EXCEPT !.party[c] = o]
             i == Insert(j, c, b.pid[o])
             h == Say(i, PartyReload(b.pid[o]))
  <2>1. AddHere(b, o, c) = h
    BY <1>2 DEF AddHere
  <2>2. b.pid[o] # NoOne
    BY Names
  <2>3. /\ Sound(j, pos, addr)
        /\ j.row = b.row /\ j.pid = b.pid /\ j.ldr = b.ldr /\ j.out = b.out
        /\ \A d \in Chars : j.party[d] = IF d = c THEN o ELSE b.party[d]
    BY <2>2, JoinSound
  <2> HIDE DEF j
  <2>4. /\ Sound(i, pos, addr) /\ i.party = j.party /\ i.pid = j.pid /\ i.ldr = j.ldr /\ i.out = j.out
        /\ \A d \in Chars : i.row[d] = IF d = c /\ j.row[c] = NoRow /\ addr[c] # NoMap
                                       THEN [party |-> b.pid[o], leader |-> FALSE] ELSE j.row[d]
    BY <2>3, InsertSound, SMTT(60)
  <2> HIDE DEF i
  <2>5. PartyReload(b.pid[o]) \in Message
    BY MessageTypes
  <2>6. /\ Sound(h, pos, addr) /\ h.row = i.row /\ h.party = i.party /\ h.pid = i.pid /\ h.ldr = i.ldr
        /\ h.out = Append(i.out, PartyReload(b.pid[o]))
    BY <2>4, <2>5, SaySound
  <2> HIDE DEF h
  <2>7. QED BY <1>2, <2>1, <2>3, <2>4, <2>6, ZenonT(60)
<1>3. QED BY <1>1, <1>2

LEMMA AddThereSound ==
    ASSUME NEW b, NEW pos, Sound(b, pos, addr), NEW c \in Chars, NEW o \in Objs, b.pid[o] \in Chars
    PROVE  LET h == AddThere(b, o, c) IN
           /\ Sound(h, pos, addr) /\ h.party = b.party /\ h.pid = b.pid /\ h.ldr = b.ldr
           /\ \/ h = b
              \/ /\ h.out = Append(b.out, PartyReload(b.pid[o]))
                 /\ \A d \in Chars : h.row[d] = IF d = c /\ b.row[c] = NoRow /\ addr[c] # NoMap
                                                THEN [party |-> b.pid[o], leader |-> FALSE] ELSE b.row[d]
<1>1. CASE IsFull(b, o)
  BY <1>1 DEF AddThere
<1>2. CASE ~IsFull(b, o)
  <2> DEFINE i == Insert(b, c, b.pid[o])
             h == Say(i, PartyReload(b.pid[o]))
  <2>1. AddThere(b, o, c) = h
    BY <1>2 DEF AddThere
  <2>2. /\ Sound(i, pos, addr) /\ i.party = b.party /\ i.pid = b.pid /\ i.ldr = b.ldr /\ i.out = b.out
        /\ \A d \in Chars : i.row[d] = IF d = c /\ b.row[c] = NoRow /\ addr[c] # NoMap
                                       THEN [party |-> b.pid[o], leader |-> FALSE] ELSE b.row[d]
    BY InsertSound
  <2> HIDE DEF i
  <2>3. PartyReload(b.pid[o]) \in Message
    BY MessageTypes
  <2>4. /\ Sound(h, pos, addr) /\ h.row = i.row /\ h.party = i.party /\ h.pid = i.pid /\ h.ldr = i.ldr
        /\ h.out = Append(i.out, PartyReload(b.pid[o]))
    BY <2>2, <2>3, SaySound
  <2> HIDE DEF h
  <2>5. QED BY <2>1, <2>2, <2>4
<1>3. QED BY <1>1, <1>2

(* There are enough objects: one that nobody is in, if somebody has none.  *)
LEMMA FreeObjExists ==
    ASSUME NEW b \in Books, NEW a \in Chars, b.party[a] = NoObj
    PROVE  FreeObj(b) \in Objs /\ \A d \in Chars : b.party[d] # FreeObj(b)
<1>1. SUFFICES ASSUME \A o \in Objs : \E d \in Chars : b.party[d] = o PROVE FALSE
  BY DEF FreeObj, Members
<1>2. IsFiniteSet(Chars) /\ IsFiniteSet(Objs) /\ Cardinality(Objs) >= Cardinality(Chars) /\ NoObj \notin Objs
  BY PartyAssumption
<1> DEFINE S == {c \in Chars : b.party[c] \in Objs}
           f == [c \in S |-> b.party[c]]
<1>3. f \in Surjection(S, Objs)
  BY <1>1 DEF Surjection
<1>4. S \in SUBSET (Chars \ {a})
  BY <1>2
<1>5. IsFiniteSet(Chars \ {a}) /\ Cardinality(Chars \ {a}) = Cardinality(Chars) - 1
  BY <1>2, FS_RemoveElement
<1> HIDE DEF S, f
<1>6. IsFiniteSet(S) /\ Cardinality(S) <= Cardinality(Chars \ {a})
  BY <1>4, <1>5, FS_Subset
<1>7. Cardinality(Objs) <= Cardinality(S)
  BY <1>3, <1>6, FS_Surjection
<1>8. Cardinality(Chars) \in Nat /\ Cardinality(Objs) \in Nat /\ Cardinality(S) \in Nat
  BY <1>2, <1>6, FS_CardinalityType
<1>9. QED BY <1>2, <1>5, <1>6, <1>7, <1>8

(* A new CParty: an object nobody was in, for a alone. A row that changes  *)
(* its party is one of the new party, and the party is announced.          *)
NewParty(b, f, a, o) ==
    /\ \A d \in Chars : b.party[d] # o
    /\ f.party[a] \in {o, NoObj}
    /\ \A x \in Objs \ {o} : f.pid[x] = b.pid[x] /\ f.ldr[x] = b.ldr[x]
    /\ f.pid[o] = a /\ f.ldr[o] \in {a, NoOne}
    /\ f.party[a] = NoObj => f.ldr[o] = NoOne /\ f.out = b.out
    /\ f.party[a] = o => f.out = Append(b.out, PartyReload(a))
    /\ \A d \in Chars : f.row[d] # NoRow =>
          \/ b.row[d] # NoRow /\ f.row[d].party = b.row[d].party
          \/ f.party[a] = o /\ f.row[d].party = a

LEMMA FoundedSound ==
    ASSUME NEW b, NEW pos, Sound(b, pos, addr), NEW a \in Chars, pos[a] # NoMap
    PROVE  /\ Sound(Founded(b, a), pos, addr)
           /\ b.party[a] # NoObj => Founded(b, a) = b
           /\ \A d \in Chars : Founded(b, a).party[d] = b.party[d] \/ (b.party[d] = NoObj /\ d = a)
           /\ b.party[a] = NoObj => \E o \in Objs : NewParty(b, Founded(b, a), a, o)
<1>1. CASE b.party[a] # NoObj
  BY <1>1 DEF Founded
<1>2. CASE b.party[a] = NoObj
  <2> DEFINE o == FreeObj(b)
             p == [b.pid EXCEPT ![o] = a]
             l == [b.ldr EXCEPT ![o] = NoOne]
             n == [b EXCEPT !.pid = p, !.ldr = l]
             h == AddHere(n, o, a)
             f == SetLeader(h, o, a)
  <2>1. Founded(b, a) = f
    BY <1>2 DEF Founded
  <2>2. b \in Books
    BY DEF Sound
  <2>3. o \in Objs /\ \A d \in Chars : b.party[d] # o
    BY <1>2, <2>2, FreeObjExists
  <2> HIDE DEF o
  <2>4. /\ p \in [Objs -> Chars \cup {NoOne}] /\ l \in [Objs -> Chars \cup {NoOne, Gone}]
        /\ p[o] = a /\ l[o] = NoOne /\ \A x \in Objs \ {o} : p[x] = b.pid[x] /\ l[x] = b.ldr[x]
    BY <2>2, <2>3, BookFields
  <2> HIDE DEF p, l
  <2>5. /\ n \in Books /\ n.row = b.row /\ n.party = b.party /\ n.out = b.out
        /\ n.pid = p /\ n.ldr = l
    BY <2>2, <2>4 DEF Books
  <2>6. Sound(n, pos, addr)
    <3> HIDE DEF n
    <3>1. \A x \in Objs : n.pid[x] = b.pid[x] \/ n.pid[x] # NoOne
      BY <2>4, <2>5, Names
    <3>2. \A c \in Chars : addr[c] = NoMap => n.row[c] = NoRow
      BY <2>5 DEF Sound
    <3>3. QED BY <2>5, <3>1, <3>2, SoundRows
  <2> HIDE DEF n
  <2>7. n.pid[o] \in Chars /\ \A d \in Chars : n.party[d] = o => pos[d] = pos[a]
    BY <2>3, <2>4, <2>5
  <2>8. /\ Sound(h, pos, addr) /\ h.pid = n.pid /\ h.ldr = n.ldr
        /\ \/ h = n
           \/ /\ n.party[a] = NoObj /\ h.out = Append(n.out, PartyReload(n.pid[o]))
              /\ \A d \in Chars : h.party[d] = IF d = a THEN o ELSE n.party[d]
              /\ \A d \in Chars : h.row[d] = IF d = a /\ n.row[a] = NoRow /\ addr[a] # NoMap
                                             THEN [party |-> n.pid[o], leader |-> FALSE] ELSE n.row[d]
    BY <2>3, <2>6, <2>7, AddHereSound
  <2> HIDE DEF h
  <2>9. /\ Sound(f, pos, addr) /\ f.party = h.party /\ f.out = h.out
        /\ addr[a] = NoMap => f = h
        /\ addr[a] # NoMap =>
             /\ f.pid[o] = a /\ f.ldr[o] = IF a \in Members(h, o) THEN a ELSE NoOne
             /\ \A x \in Objs \ {o} : f.pid[x] = h.pid[x] /\ f.ldr[x] = h.ldr[x]
             /\ \A c \in Chars : f.row[c] = IF c \in Rows(h, h.pid[o]) THEN [party |-> a, leader |-> c = a]
                                            ELSE IF c = a /\ h.row[c] # NoRow
                                                 THEN [party |-> h.row[c].party, leader |-> TRUE]
                                                 ELSE h.row[c]
    BY <2>3, <2>8, SetLeaderSound
  <2> HIDE DEF f
  <2>10. /\ \A d \in Chars \ {a} : f.party[d] = b.party[d]
         /\ f.party[a] \in {o, NoObj} /\ f.pid[o] = a
         /\ \A x \in Objs \ {o} : f.pid[x] = b.pid[x] /\ f.ldr[x] = b.ldr[x]
    BY <1>2, <2>4, <2>5, <2>8, <2>9
  <2>11. o # NoObj
    BY <2>3, Names
  <2>12. f.ldr[o] \in {a, NoOne} /\ (f.party[a] = NoObj => f.ldr[o] = NoOne)
    BY <2>4, <2>5, <2>8, <2>9, <2>11 DEF Members
  <2>13. /\ f.party[a] = NoObj => f.out = b.out
         /\ f.party[a] = o => f.out = Append(b.out, PartyReload(a))
    BY <1>2, <2>4, <2>5, <2>8, <2>9, <2>11
  <2>14. ASSUME NEW d \in Chars, f.row[d] # NoRow
         PROVE  \/ b.row[d] # NoRow /\ f.row[d].party = b.row[d].party
                \/ f.party[a] = o /\ f.row[d].party = a
    <3>1. \/ h.row[d] # NoRow /\ f.row[d].party = h.row[d].party
      <4>1. CASE addr[a] = NoMap
        BY <2>9, <2>14, <4>1
      <4>2. CASE addr[a] # NoMap /\ d \in Rows(h, h.pid[o])
        <5>1. h.row[d] # NoRow /\ h.row[d].party = a
          BY <2>4, <2>5, <2>8, <4>2 DEF Rows
        <5>2. f.row[d] = [party |-> a, leader |-> d = a]
          BY <2>9, <4>2
        <5>3. f.row[d].party = a
          BY <5>2
        <5>4. QED BY <5>1, <5>3
      <4>3. CASE addr[a] # NoMap /\ d \notin Rows(h, h.pid[o])
        <5>1. CASE d = a /\ h.row[d] # NoRow
          <6>1. f.row[d] = [party |-> h.row[d].party, leader |-> TRUE]
            BY <2>9, <4>3, <5>1
          <6>2. f.row[d].party = h.row[d].party
            BY <6>1
          <6>3. QED BY <5>1, <6>2
        <5>2. CASE ~(d = a /\ h.row[d] # NoRow)
          BY <2>9, <2>14, <4>3, <5>2
        <5>3. QED BY <5>1, <5>2
      <4>4. QED BY <4>1, <4>2, <4>3
    <3>2. CASE h.row[d] = b.row[d]
      BY <3>1, <3>2
    <3>3. CASE h.row[d] # b.row[d]
      <4>1. h.row[d] = [party |-> a, leader |-> FALSE] /\ h.party[a] = o
        BY <2>4, <2>5, <2>8, <3>3
      <4>2. h.row[d].party = a
        BY <4>1
      <4>3. QED BY <2>9, <3>1, <4>1, <4>2
    <3>4. QED BY <3>2, <3>3
  <2>15. NewParty(b, f, a, o)
    BY <2>3, <2>10, <2>12, <2>13, <2>14 DEF NewParty
  <2>16. QED BY <1>2, <2>1, <2>3, <2>9, <2>10, <2>15
<1>3. QED BY <1>1, <1>2

(* Somebody leaves its object, its row staying or going.                   *)
LEMMA QuitSound ==
    ASSUME NEW b, NEW pos, NEW home, Sound(b, pos, home), NEW c \in Chars
    PROVE  /\ LET j == [b EXCEPT !.party[c] = NoObj] IN
              /\ Sound(j, pos, home)
              /\ j.row = b.row /\ j.pid = b.pid /\ j.ldr = b.ldr /\ j.out = b.out
              /\ \A d \in Chars : j.party[d] = IF d = c THEN NoObj ELSE b.party[d]
           /\ LET j == [b EXCEPT !.row[c] = NoRow] IN
              /\ Sound(j, pos, home)
              /\ j.party = b.party /\ j.pid = b.pid /\ j.ldr = b.ldr /\ j.out = b.out
              /\ \A d \in Chars : j.row[d] = IF d = c THEN NoRow ELSE b.row[d]
           /\ LET j == [b EXCEPT !.row[c] = NoRow, !.party[c] = NoObj] IN
              /\ Sound(j, pos, home)
              /\ j.pid = b.pid /\ j.ldr = b.ldr /\ j.out = b.out
              /\ \A d \in Chars : j.party[d] = IF d = c THEN NoObj ELSE b.party[d]
              /\ \A d \in Chars : j.row[d] = IF d = c THEN NoRow ELSE b.row[d]
<1> DEFINE q == [b.party EXCEPT ![c] = NoObj]
           r == [b.row EXCEPT ![c] = NoRow]
<1>1. b \in Books
  BY DEF Sound
<1>2. /\ q \in [Chars -> Objs \cup {NoObj}] /\ \A d \in Chars : q[d] = IF d = c THEN NoObj ELSE b.party[d]
      /\ r \in [Chars -> Row \cup {NoRow}] /\ \A d \in Chars : r[d] = IF d = c THEN NoRow ELSE b.row[d]
  BY <1>1, BookFields
<1> HIDE DEF q, r
<1>3. ASSUME NEW j \in Books, j.pid = b.pid, j.party \in {q, b.party}, j.row \in {r, b.row}
      PROVE  Sound(j, pos, home)
  <2>1. \A d \in Chars : j.party[d] \in {NoObj, b.party[d]} /\ j.row[d] \in {NoRow, b.row[d]}
    BY <1>2, <1>3
  <2>2. \A d \in Chars : j.party[d] # NoObj => j.party[d] = b.party[d]
    BY <2>1
  <2>3. \A d \in Chars : j.party[d] # NoObj => pos[d] # NoMap /\ j.pid[j.party[d]] # NoOne
    BY <1>3, <2>2 DEF Sound
  <2>4. \A d, e \in Chars : j.party[d] # NoObj /\ j.party[d] = j.party[e] => pos[d] = pos[e]
    BY <2>2 DEF Sound
  <2>5. \A d \in Chars : home[d] = NoMap => j.row[d] = NoRow
    BY <2>1 DEF Sound
  <2>6. QED BY <2>3, <2>4, <2>5 DEF Sound
<1> DEFINE x == [b EXCEPT !.party[c] = NoObj]
           y == [b EXCEPT !.row[c] = NoRow]
           z == [b EXCEPT !.row[c] = NoRow, !.party[c] = NoObj]
<1>4. x = [b EXCEPT !.party = q] /\ y = [b EXCEPT !.row = r] /\ z = [b EXCEPT !.row = r, !.party = q]
  BY DEF q, r
<1> HIDE DEF x, y, z
<1>5. x \in Books /\ x.row = b.row /\ x.pid = b.pid /\ x.ldr = b.ldr /\ x.out = b.out /\ x.party = q
  BY <1>1, <1>2, <1>4 DEF Books
<1>6. y \in Books /\ y.row = r /\ y.pid = b.pid /\ y.ldr = b.ldr /\ y.out = b.out /\ y.party = b.party
  BY <1>1, <1>2, <1>4 DEF Books
<1>7. z \in Books /\ z.row = r /\ z.pid = b.pid /\ z.ldr = b.ldr /\ z.out = b.out /\ z.party = q
  BY <1>1, <1>2, <1>4 DEF Books
<1>8. Sound(x, pos, home) /\ \A d \in Chars : x.party[d] = IF d = c THEN NoObj ELSE b.party[d]
  BY <1>2, <1>3, <1>5
<1>9. Sound(y, pos, home) /\ \A d \in Chars : y.row[d] = IF d = c THEN NoRow ELSE b.row[d]
  BY <1>2, <1>3, <1>6
<1>10. /\ Sound(z, pos, home) /\ \A d \in Chars : z.party[d] = IF d = c THEN NoObj ELSE b.party[d]
       /\ \A d \in Chars : z.row[d] = IF d = c THEN NoRow ELSE b.row[d]
  BY <1>2, <1>3, <1>7
<1>11. QED BY <1>5, <1>6, <1>7, <1>8, <1>9, <1>10 DEF x, y, z

RowGone(j, b, c) == j = [b EXCEPT !.row[c] = NoRow]

LEMMA RowGoneSound ==
    ASSUME NEW b, NEW pos, NEW home, Sound(b, pos, home), NEW c \in Chars, NEW j, RowGone(j, b, c)
    PROVE  /\ Sound(j, pos, home)
           /\ j.party = b.party /\ j.pid = b.pid /\ j.ldr = b.ldr /\ j.out = b.out
           /\ \A d \in Chars : j.row[d] = IF d = c THEN NoRow ELSE b.row[d]
<1>0. PICK r : r = [b.row EXCEPT ![c] = NoRow] /\ j = [b EXCEPT !.row = r]
  BY DEF RowGone
<1>1. b \in Books
  BY DEF Sound
<1>2. r \in [Chars -> Row \cup {NoRow}] /\ \A d \in Chars : r[d] = IF d = c THEN NoRow ELSE b.row[d]
  BY <1>0, <1>1, BookFields
<1>3. j \in Books /\ j.row = r /\ j.pid = b.pid /\ j.ldr = b.ldr /\ j.out = b.out /\ j.party = b.party
  BY <1>0, <1>1, <1>2 DEF Books
<1>4. \A d \in Chars : home[d] = NoMap => j.row[d] = NoRow
  BY <1>2, <1>3 DEF Sound
<1>5. Sound(j, pos, home)
  BY <1>3, <1>4, SoundRows
<1>6. QED BY <1>2, <1>3, <1>5

LEMMA RemoveMemberSound ==
    ASSUME NEW b, NEW pos, NEW home, Sound(b, pos, home), NEW c \in Chars, b.party[c] # NoObj
    PROVE  LET r == RemoveMember(b, c) IN
           /\ Sound(r, pos, home) /\ r.pid = b.pid /\ r.ldr = b.ldr
           /\ b.pid[b.party[c]] \in Chars /\ r.out = Append(b.out, PartyReload(b.pid[b.party[c]]))
           /\ \A d \in Chars : r.party[d] = IF d = c THEN NoObj ELSE b.party[d]
           /\ \A d \in Chars : r.row[d] = IF d = c THEN NoRow ELSE b.row[d]
<1> DEFINE j == [b EXCEPT !.row[c] = NoRow, !.party[c] = NoObj]
           p == b.pid[b.party[c]]
<1>1. RemoveMember(b, c) = Say(j, PartyReload(p))
  BY DEF RemoveMember
<1>2. p \in Chars
  BY BookFields DEF Sound
<1>3. /\ Sound(j, pos, home) /\ j.pid = b.pid /\ j.ldr = b.ldr /\ j.out = b.out
      /\ \A d \in Chars : j.party[d] = IF d = c THEN NoObj ELSE b.party[d]
      /\ \A d \in Chars : j.row[d] = IF d = c THEN NoRow ELSE b.row[d]
  BY QuitSound, ZenonT(60)
<1> HIDE DEF j
<1>4. PartyReload(p) \in Message
  BY <1>2, MessageTypes
<1>5. QED BY <1>1, <1>2, <1>3, <1>4, SaySound, SMTT(60)

LEMMA DisbandSound ==
    ASSUME NEW b, NEW pos, NEW home, Sound(b, pos, home), NEW o \in Objs
    PROVE  /\ LET r == DisbandParty(b, o) IN
              /\ Sound(r, pos, home) /\ r.pid = b.pid /\ r.ldr = b.ldr /\ r.out = b.out
              /\ \A d \in Chars : r.party[d] = IF b.party[d] = o THEN NoObj ELSE b.party[d]
              /\ \A d \in Chars : r.row[d] = IF b.party[d] = o THEN NoRow ELSE b.row[d]
           /\ b.pid[o] \in Chars => LET r == DisbandAndTell(b, o) IN
              /\ Sound(r, pos, home) /\ r.pid = b.pid /\ r.ldr = b.ldr
              /\ r.out = Append(b.out, PartyDisband(b.pid[o]))
              /\ \A d \in Chars : r.party[d] = IF b.party[d] = o THEN NoObj ELSE b.party[d]
              /\ \A d \in Chars : r.row[d] = IF b.party[d] = o THEN NoRow ELSE b.row[d]
<1> DEFINE q == [c \in Chars |-> IF c \in Members(b, o) THEN NoRow ELSE b.row[c]]
           s == [c \in Chars |-> IF c \in Members(b, o) THEN NoObj ELSE b.party[c]]
           r == DisbandParty(b, o)
<1>1. b \in Books
  BY DEF Sound
<1>2. /\ q \in [Chars -> Row \cup {NoRow}] /\ s \in [Chars -> Objs \cup {NoObj}]
      /\ \A d \in Chars : q[d] = IF b.party[d] = o THEN NoRow ELSE b.row[d]
      /\ \A d \in Chars : s[d] = IF b.party[d] = o THEN NoObj ELSE b.party[d]
  BY <1>1, BookFields DEF Members
<1>3. r = [b EXCEPT !.row = q, !.party = s]
  BY DEF DisbandParty
<1> HIDE DEF q, s, r
<1>4. r \in Books /\ r.row = q /\ r.party = s /\ r.pid = b.pid /\ r.ldr = b.ldr /\ r.out = b.out
  BY <1>1, <1>2, <1>3 DEF Books
<1>5. \A d \in Chars : r.party[d] # NoObj => r.party[d] = b.party[d]
  BY <1>2, <1>4
<1>6. Sound(r, pos, home)
  <2>1. \A d \in Chars : r.party[d] # NoObj => pos[d] # NoMap /\ r.pid[r.party[d]] # NoOne
    BY <1>4, <1>5 DEF Sound
  <2>2. \A d, e \in Chars : r.party[d] # NoObj /\ r.party[d] = r.party[e] => pos[d] = pos[e]
    BY <1>5 DEF Sound
  <2>3. \A d \in Chars : home[d] = NoMap => r.row[d] = NoRow
    BY <1>2, <1>4 DEF Sound
  <2>4. QED BY <1>4, <2>1, <2>2, <2>3 DEF Sound
<1>7. DisbandAndTell(b, o) = Say(r, PartyDisband(b.pid[o]))
  BY DEF DisbandAndTell, r
<1>8. b.pid[o] \in Chars => PartyDisband(b.pid[o]) \in Message
  BY MessageTypes
<1>9. QED BY <1>2, <1>4, <1>6, <1>7, <1>8, SaySound DEF r

LEMMA PopSound ==
    ASSUME NEW b, NEW pos, NEW home, Sound(b, pos, home), NEW c \in Chars
    PROVE  LET r == PopMember(b, c) IN
           /\ Sound(r, pos, home) /\ r.row = b.row /\ r.pid = b.pid /\ r.out = b.out
           /\ \A d \in Chars : r.party[d] = IF d = c THEN NoObj ELSE b.party[d]
           /\ \A o \in Objs : r.ldr[o] = IF o = b.party[c] /\ b.ldr[o] = c THEN Gone ELSE b.ldr[o]
<1>1. b \in Books /\ NoObj \notin Objs
  BY Names DEF Sound
<1>2. CASE b.party[c] = NoObj
  BY <1>1, <1>2 DEF PopMember
<1>3. CASE b.party[c] # NoObj
  <2> DEFINE o == b.party[c]
             j == [b EXCEPT !.party[c] = NoObj]
             l == [b.ldr EXCEPT ![o] = IF b.ldr[o] = c THEN Gone ELSE b.ldr[o]]
             r == PopMember(b, c)
  <2>1. /\ Sound(j, pos, home)
        /\ j.row = b.row /\ j.pid = b.pid /\ j.ldr = b.ldr /\ j.out = b.out
        /\ \A d \in Chars : j.party[d] = IF d = c THEN NoObj ELSE b.party[d]
    BY QuitSound, ZenonT(60)
  <2>2. r = [b EXCEPT !.party[c] = NoObj, !.ldr = l]
    BY <1>3 DEF PopMember
  <2>3. r = [j EXCEPT !.ldr = l]
    BY <2>2
  <2>4. o \in Objs
    BY <1>1, <1>3, BookFields
  <2>5. /\ l \in [Objs -> Chars \cup {NoOne, Gone}]
        /\ \A x \in Objs : l[x] = IF x = o /\ b.ldr[x] = c THEN Gone ELSE b.ldr[x]
    BY <1>1, <2>4, BookFields
  <2> HIDE DEF r, j, l, o
  <2>6. j \in Books
    BY <2>1 DEF Sound
  <2>7. r \in Books /\ r.row = j.row /\ r.party = j.party /\ r.pid = j.pid /\ r.ldr = l /\ r.out = j.out
    BY <2>3, <2>5, <2>6 DEF Books
  <2>8. Sound(r, pos, home)
    <3>1. \A d \in Chars : home[d] = NoMap => r.row[d] = NoRow
      BY <2>1, <2>7 DEF Sound
    <3>2. QED BY <2>1, <2>7, <3>1, SoundRows
  <2>9. QED BY <2>1, <2>5, <2>7, <2>8 DEF r, o
<1>4. QED BY <1>2, <1>3

(* The rest of RemovePartyLeader.                                          *)
LEMMA LeaderRemovedSound ==
    ASSUME NEW b, NEW pos, Sound(b, pos, addr), NEW c \in Chars, b.party[c] # NoObj, NEW next \in Chars
    PROVE  LET o == b.party[c]
               n == SetLeader(b, o, next)
               r == LeaderRemoved(b, c, next)
           IN /\ Sound(r, pos, addr) /\ r.pid = n.pid /\ r.ldr = n.ldr
              /\ r.party[c] = NoObj /\ r.row[c] = NoRow
              /\ \A d \in Chars : r.party[d] = b.party[d] \/ (r.party[d] = NoObj /\ b.party[d] = o)
              /\ n.ldr[o] = c => r = DisbandAndTell(n, o)
              /\ n.ldr[o] # c => r = RemoveMember(n, c)
<1> DEFINE o == b.party[c]
           n == SetLeader(b, o, next)
           r == LeaderRemoved(b, c, next)
<1>1. o \in Objs
  BY BookFields DEF Sound
<1>2. Sound(n, pos, addr) /\ n.party = b.party
  BY <1>1, SetLeaderSound
<1>3. n.pid[o] \in Chars
  BY <1>1, <1>2, BookFields DEF Sound
<1>4. n.ldr[o] = c => r = DisbandAndTell(n, o)
  BY DEF LeaderRemoved
<1>5. n.ldr[o] # c => r = RemoveMember(n, c)
  BY DEF LeaderRemoved
<1> HIDE DEF n, r
<1>6. CASE n.ldr[o] = c
  <2>1. /\ Sound(r, pos, addr) /\ r.pid = n.pid /\ r.ldr = n.ldr
        /\ \A d \in Chars : r.party[d] = IF n.party[d] = o THEN NoObj ELSE n.party[d]
        /\ \A d \in Chars : r.row[d] = IF n.party[d] = o THEN NoRow ELSE n.row[d]
    BY <1>1, <1>2, <1>3, <1>4, <1>6, DisbandSound
  <2>2. QED BY <1>2, <1>4, <1>6, <2>1 DEF n, r
<1>7. CASE n.ldr[o] # c
  <2>1. n.party[c] # NoObj
    BY <1>2
  <2>2. /\ Sound(r, pos, addr) /\ r.pid = n.pid /\ r.ldr = n.ldr
        /\ \A d \in Chars : r.party[d] = IF d = c THEN NoObj ELSE n.party[d]
        /\ \A d \in Chars : r.row[d] = IF d = c THEN NoRow ELSE n.row[d]
    BY <1>2, <1>5, <1>7, <2>1, RemoveMemberSound
  <2>3. QED BY <1>2, <1>5, <1>7, <2>2 DEF n, r
<1>8. QED BY <1>6, <1>7

(* RefreshFlags.                                                           *)
LEMMA RefreshSound ==
    ASSUME NEW b, NEW pos, NEW home, Sound(b, pos, home), NEW o \in Objs, NEW l \in LeaderViews(b, o)
    PROVE  LET r == [b EXCEPT !.ldr[o] = l] IN
           /\ Sound(r, pos, home) /\ r.row = b.row /\ r.party = b.party /\ r.pid = b.pid /\ r.out = b.out
           /\ \A x \in Objs : r.ldr[x] = IF x = o THEN l ELSE b.ldr[x]
           /\ l \in Chars \cup {NoOne}
<1> DEFINE q == [b.ldr EXCEPT ![o] = l]
           r == [b EXCEPT !.ldr = q]
<1>1. b \in Books
  BY DEF Sound
<1>2. l \in Chars \cup {NoOne}
  BY DEF LeaderViews, LeaderRows, Rows, Members
<1>3. /\ q \in [Objs -> Chars \cup {NoOne, Gone}]
      /\ \A x \in Objs : q[x] = IF x = o THEN l ELSE b.ldr[x]
  BY <1>1, <1>2, BookFields
<1> HIDE DEF q
<1>4. r \in Books /\ r.row = b.row /\ r.party = b.party /\ r.pid = b.pid /\ r.out = b.out /\ r.ldr = q
  BY <1>1, <1>3 DEF Books
<1> HIDE DEF r
<1>5. Sound(r, pos, home)
  BY <1>4 DEF Sound
<1>6. QED BY <1>2, <1>3, <1>4, <1>5 DEF r, q

(* The next state's book.                                                  *)
LEMMA BecomeSound ==
    ASSUME NEW b, Sound(b, at', addr'), NEW m \in Maps, toWorld \in [Maps -> Seq(Message)], Become(b, m)
    PROVE  /\ Sound(Book', at', addr') /\ row' = b.row /\ party' = b.party
           /\ toWorld' \in [Maps -> Seq(Message)]
           /\ toWorld'[m] = toWorld[m] \o b.out
           /\ \A n \in Maps \ {m} : toWorld'[n] = toWorld[n]
           /\ \A o \in Objs : \/ (pid'[o] = b.pid[o] /\ ldr'[o] = b.ldr[o])
                              \/ (pid'[o] = NoOne /\ ldr'[o] = NoOne /\ \A c \in Chars : party'[c] # o)
<1>1. b \in Books /\ b.out \in Seq(Message)
  BY BookFields DEF Sound
<1>2. row' = b.row /\ party' = b.party
  BY DEF Become
<1>3. /\ pid' = [o \in Objs |-> IF Members(b, o) = {} THEN NoOne ELSE b.pid[o]]
      /\ ldr' = [o \in Objs |-> IF Members(b, o) = {} THEN NoOne ELSE b.ldr[o]]
      /\ toWorld' = [toWorld EXCEPT ![m] = toWorld[m] \o b.out]
  BY DEF Become
<1>4. toWorld[m] \o b.out \in Seq(Message)
  BY <1>1, ConcatProperties
<1>5. /\ toWorld' \in [Maps -> Seq(Message)] /\ toWorld'[m] = toWorld[m] \o b.out
      /\ \A n \in Maps \ {m} : toWorld'[n] = toWorld[n]
  BY <1>3, <1>4
<1>6. pid' \in [Objs -> Chars \cup {NoOne}] /\ ldr' \in [Objs -> Chars \cup {NoOne, Gone}]
  BY <1>1, <1>3, BookFields
<1>7. \A o \in Objs : \/ (pid'[o] = b.pid[o] /\ ldr'[o] = b.ldr[o])
                      \/ (pid'[o] = NoOne /\ ldr'[o] = NoOne /\ \A c \in Chars : party'[c] # o)
  BY <1>2, <1>3 DEF Members
<1>8. /\ Book'.row = row' /\ Book'.party = party' /\ Book'.pid = pid' /\ Book'.ldr = ldr'
      /\ Book' \in Books
  <2>1. << >> \in Seq(Message)
    OBVIOUS
  <2>2. row' \in [Chars -> Row \cup {NoRow}] /\ party' \in [Chars -> Objs \cup {NoObj}]
    BY <1>1, <1>2, BookFields
  <2>3. QED BY <1>6, <2>1, <2>2 DEF Book, Books
<1>9. \A c \in Chars : party'[c] # NoObj => party'[c] \in Objs
  BY <1>1, <1>2, BookFields
<1>10. \A c \in Chars : party'[c] # NoObj => pid'[party'[c]] = b.pid[party'[c]]
  BY <1>7, <1>9
<1>11. Sound(Book', at', addr')
  BY <1>2, <1>8, <1>10 DEF Sound
<1>12. QED BY <1>2, <1>5, <1>7, <1>11

LEMMA BookSound ==
    ASSUME TypeOK
    PROVE  /\ Sound(Book, at, addr) /\ Book.row = row /\ Book.party = party /\ Book.pid = pid /\ Book.ldr = ldr
           /\ Book.out = << >>
BY TypedParts DEF Book

(* Somebody without party object and row may be anywhere.                  *)
LEMMA SoundAway ==
    ASSUME NEW b, NEW pos, NEW home, Sound(b, pos, home), NEW npos, NEW nhome, NEW c \in Chars,
           \A d \in Chars \ {c} : npos[d] = pos[d] /\ nhome[d] = home[d],
           npos[c] = pos[c] \/ b.party[c] = NoObj, nhome[c] = home[c] \/ nhome[c] # NoMap \/ b.row[c] = NoRow
    PROVE  Sound(b, npos, nhome)
<1>1. \A d \in Chars : b.party[d] # NoObj => npos[d] = pos[d]
  OBVIOUS
<1>2. \A d \in Chars : b.party[d] # NoObj => npos[d] # NoMap /\ b.pid[b.party[d]] # NoOne
  BY <1>1 DEF Sound
<1>3. \A d, e \in Chars : b.party[d] # NoObj /\ b.party[d] = b.party[e] => npos[d] = npos[e]
  BY <1>1 DEF Sound
<1>4. \A d \in Chars : nhome[d] = NoMap => b.row[d] = NoRow
  BY DEF Sound
<1>5. QED BY <1>2, <1>3, <1>4 DEF Sound

-----------------------------------------------------------------------------
(* The actions keep the types.                                             *)

(* A step of maps that are not in the middle of something.                 *)
LEMMA TasksKept ==
    ASSUME Typed, task' = task,
           \A c \in Chars : at[c] # NoMap /\ task[at[c]] # NoTask =>
              /\ at'[c] = at[c] /\ (party[c] # NoObj => party'[c] # NoObj)
              /\ c \in zoned' => c \in zoned
    PROVE  TaskHere'
<1> SUFFICES ASSUME NEW m \in Maps, task[m] # NoTask
             PROVE  /\ at'[task[m].char] = m /\ party'[task[m].char] # NoObj
                    /\ task[m].then = "off" => task[m].char \notin zoned'
  BY DEF TaskHere
<1>1. task[m].char \in Chars
  BY TypedParts DEF Typed, Rest, Task
<1>2. at[task[m].char] = m /\ party[task[m].char] # NoObj /\ (task[m].then = "off" => task[m].char \notin zoned)
  BY DEF Typed, TaskHere
<1>3. m # NoMap
  BY Names
<1>4. QED BY <1>1, <1>2, <1>3

(* The book stays.                                                         *)
LEMMA BookStays ==
    ASSUME Typed, UNCHANGED bookVars, UNCHANGED <<at, addr>>
    PROVE  Sound(Book', at', addr')
<1>1. Sound(Book, at, addr)
  BY TypedParts DEF Typed
<1>2. Book' = Book
  BY DEF Book, bookVars
<1>3. QED BY <1>1, <1>2

LEMMA PacketFacts ==
    ASSUME Typed, NEW c \in Chars, NEW a, Packet(c, a)
    PROVE  /\ acts' \in 0..MaxActs /\ at[c] \in Maps /\ at[c] # NoMap /\ task[at[c]] = NoTask /\ c \in zoned
           /\ Settled
<1>1. Rest
  BY TypedParts DEF Typed
<1>2. acts' \in 0..MaxActs
  BY <1>1, Names DEF Packet, Rest
<1>3. QED BY <1>1, <1>2, Names DEF Packet, Rest

LEMMA Posted ==
    ASSUME NEW q \in [Maps -> Seq(Message)], NEW m \in Maps, NEW p \in Message, NEW n,
           n = [q EXCEPT ![m] = Append(q[m], p)]
    PROVE  /\ n \in [Maps -> Seq(Message)] /\ n[m] = Append(q[m], p)
           /\ \A x \in Maps \ {m} : n[x] = q[x]
<1>1. Append(q[m], p) \in Seq(Message)
  OBVIOUS
<1>2. QED BY <1>1

LEMMA AddHereParty ==
    ASSUME NEW b, NEW pos, Sound(b, pos, addr), NEW c \in Chars, NEW o \in Objs,
           pos[c] # NoMap, b.pid[o] \in Chars, \A d \in Chars : b.party[d] = o => pos[d] = pos[c]
    PROVE  /\ Sound(AddHere(b, o, c), pos, addr)
           /\ \A d \in Chars : AddHere(b, o, c).party[d] = b.party[d] \/ (d = c /\ b.party[d] = NoObj)
<1> DEFINE h == AddHere(b, o, c)
<1>1. /\ Sound(h, pos, addr) /\ h.pid = b.pid /\ h.ldr = b.ldr
      /\ h # b => b.party[c] = NoObj
      /\ \/ h = b /\ (b.party[c] # NoObj \/ IsFull(b, o))
         \/ /\ b.party[c] = NoObj /\ h.out = Append(b.out, PartyReload(b.pid[o]))
            /\ \A d \in Chars : h.party[d] = IF d = c THEN o ELSE b.party[d]
            /\ \A d \in Chars : h.row[d] = IF d = c /\ b.row[c] = NoRow /\ addr[c] # NoMap
                                           THEN [party |-> b.pid[o], leader |-> FALSE] ELSE b.row[d]
  BY AddHereSound
<1> HIDE DEF h
<1>2. QED BY <1>1 DEF h

LEMMA InviteTyped ==
    ASSUME Typed, NEW a \in Chars, NEW c \in Chars, Invite(a, c)
    PROVE  Typed'
<1>1. Rest /\ acts' \in 0..MaxActs /\ at[a] \in Maps
  BY TypedParts, PacketFacts DEF Typed, Invite
<1>2. UNCHANGED bookVars /\ UNCHANGED <<addr, at, zoned, reload, task, toMap>>
  BY DEF Invite
<1>3. PartyInvite(c, a) \in Message
  BY MessageTypes
<1>4. toWorld' = toWorld \/ toWorld' = [toWorld EXCEPT ![at[a]] = Append(toWorld[at[a]], PartyInvite(c, a))]
  BY DEF Invite
<1>5. toWorld' \in [Maps -> Seq(Message)]
  <2>1. CASE toWorld' = toWorld
    BY <1>1, <2>1 DEF Rest
  <2>2. CASE toWorld' = [toWorld EXCEPT ![at[a]] = Append(toWorld[at[a]], PartyInvite(c, a))]
    BY <1>1, <1>3, <2>2, Posted DEF Rest
  <2>3. QED BY <1>4, <2>1, <2>2
<1>6. invite' \in [Chars -> Chars \cup {NoOne}]
  BY <1>1 DEF Invite, Rest
<1>7. Rest'
  BY <1>1, <1>2, <1>5, <1>6 DEF Rest
<1>8. TaskHere'
  BY <1>2, TasksKept DEF bookVars
<1>9. QED BY <1>2, <1>7, <1>8, BookStays, TypedPartsNext DEF Typed

LEMMA AcceptTyped ==
    ASSUME Typed, NEW c \in Chars, AcceptInvite(c)
    PROVE  Typed'
<1>1. /\ Rest /\ acts' \in 0..MaxActs /\ at[c] \in Maps /\ at[c] # NoMap /\ task[at[c]] = NoTask
      /\ invite[c] \in Chars
  BY TypedParts, PacketFacts DEF Typed, AcceptInvite, Rest
<1>2. UNCHANGED <<addr, at, zoned, reload, task, toMap>> /\ invite' = [invite EXCEPT ![c] = NoOne]
  BY DEF AcceptInvite
<1> DEFINE a == invite[c]
           f == Founded(Book, a)
           b == IF party[c] # NoObj THEN Book ELSE IF Leads(f, a) THEN AddHere(f, f.party[a], c) ELSE f
<1>3. ASSUME toWorld' \in [Maps -> Seq(Message)] PROVE Rest'
  BY <1>1, <1>2, <1>3 DEF Rest
<1>4. CASE /\ toWorld' = [toWorld EXCEPT ![at[c]] = Append(toWorld[at[c]], PartyInviteResponse(a, c))]
           /\ UNCHANGED bookVars
  <2>1. toWorld' \in [Maps -> Seq(Message)]
    BY <1>1, <1>4, MessageTypes, Posted DEF Rest
  <2>2. TaskHere'
    BY <1>2, <1>4, TasksKept DEF bookVars
  <2>3. QED BY <1>2, <1>3, <1>4, <2>1, <2>2, BookStays, TypedPartsNext DEF Typed
<1>5. CASE a \in zoned /\ at[a] = at[c] /\ Become(b, at[c])
  <2>1. /\ Sound(Book, at, addr) /\ Book.party = party
    BY BookSound DEF Typed
  <2>2. at[a] # NoMap
    BY <1>1, <1>5
  <2>3. /\ Sound(f, at, addr)
        /\ \A d \in Chars : f.party[d] = party[d] \/ (party[d] = NoObj /\ d = a)
    BY <1>1, <2>1, <2>2, FoundedSound
  <2> HIDE DEF f
  <2>4. Sound(b, at, addr) /\ \A d \in Chars : b.party[d] = party[d] \/ party[d] = NoObj
    <3>1. CASE party[c] # NoObj
      BY <2>1, <3>1
    <3>2. CASE party[c] = NoObj /\ ~Leads(f, a)
      BY <2>3, <3>2
    <3>3. CASE party[c] = NoObj /\ Leads(f, a)
      <4> DEFINE o == f.party[a]
                 h == AddHere(f, o, c)
      <4>1. o \in Objs /\ f.pid[o] \in Chars
        BY <1>1, <2>3, <3>3, BookFields, Names DEF Leads, Sound
      <4>2. \A d \in Chars : f.party[d] = o => at[d] = at[c]
        BY <1>1, <1>5, <2>3, <4>1, Names DEF Sound
      <4>3. Sound(h, at, addr) /\ \A d \in Chars : h.party[d] = f.party[d] \/ (d = c /\ f.party[d] = NoObj)
        BY <1>1, <2>3, <4>1, <4>2, AddHereParty
      <4>4. b = h
        BY <3>3
      <4> HIDE DEF b, h, o
      <4>5. QED BY <2>3, <4>3, <4>4
    <3>4. QED BY <3>1, <3>2, <3>3
  <2> HIDE DEF b
  <2>5. /\ Sound(Book', at', addr') /\ party' = b.party /\ toWorld' \in [Maps -> Seq(Message)]
    BY <1>1, <1>2, <1>5, <2>4, BecomeSound DEF Rest
  <2>6. TaskHere'
    BY <1>2, <2>4, <2>5, TasksKept
  <2>7. QED BY <1>3, <2>5, <2>6, TypedPartsNext DEF Typed
<1>6. QED BY <1>4, <1>5 DEF AcceptInvite

LEMMA DeclineTyped ==
    ASSUME Typed, NEW c \in Chars, DeclineInvite(c)
    PROVE  Typed'
<1>1. Rest /\ acts' \in 0..MaxActs
  BY TypedParts, PacketFacts DEF Typed, DeclineInvite
<1>2. /\ UNCHANGED bookVars /\ UNCHANGED <<addr, at, zoned, reload, task, toWorld, toMap>>
      /\ invite' = [invite EXCEPT ![c] = NoOne]
  BY DEF DeclineInvite
<1>3. Rest'
  BY <1>1, <1>2 DEF Rest
<1>4. TaskHere'
  BY <1>2, TasksKept DEF bookVars
<1>5. QED BY <1>2, <1>3, <1>4, BookStays, TypedPartsNext DEF Typed

(* RemovePartyLeader and RemoveMember: the character is out of the party,  *)
(* or its map is in the middle of RemovePartyLeader.                       *)
Removed(n, b, c) ==
    /\ Sound(n, at, addr) /\ Become(n, at[c]) /\ task' = task
    /\ n.party[c] = NoObj /\ (b.row[c] = NoRow \/ party[c] # NoObj => n.row[c] = NoRow)
    /\ \A d \in Chars : n.party[d] = party[d] \/ (party[d] = party[c] /\ party[d] # NoObj)
BeingRemoved(b, c, then, next) ==
    /\ Become(b, at[c]) /\ party[c] # NoObj
    /\ task' = [task EXCEPT ![at[c]] = [char |-> c, next |-> next, then |-> then]]

LEMMA RemoveLeaderResult ==
    ASSUME Typed, NEW b, Sound(b, at, addr), b.party = party, NEW c \in Chars, party[c] # NoObj,
           NEW then, RemovePartyLeader(b, c, then)
    PROVE  (\E n : Removed(n, b, c)) \/ (\E x \in Chars : BeingRemoved(b, c, then, x))
<1>1. CASE Successors(b, party[c]) = {} /\ Become(DisbandAndTell(b, party[c]), at[c]) /\ UNCHANGED task
  <2> DEFINE o == party[c]
             n == DisbandAndTell(b, o)
  <2>1. o \in Objs /\ b.pid[o] \in Chars
    BY BookFields, Names DEF Sound
  <2>2. /\ Sound(n, at, addr)
        /\ \A d \in Chars : n.party[d] = IF b.party[d] = o THEN NoObj ELSE b.party[d]
        /\ \A d \in Chars : n.row[d] = IF b.party[d] = o THEN NoRow ELSE b.row[d]
    BY <2>1, DisbandSound
  <2>3. Become(n, at[c])
    BY <1>1
  <2> HIDE DEF n
  <2>4. Removed(n, b, c)
    BY <1>1, <2>2, <2>3 DEF Removed
  <2>5. QED BY <2>4
<1>2. CASE /\ \E x \in Successors(b, party[c]) :
                task' = [task EXCEPT ![at[c]] = [char |-> c, next |-> x, then |-> then]]
           /\ Become(b, at[c])
  BY <1>2 DEF BeingRemoved, Successors, Rows
<1>3. QED BY <1>1, <1>2 DEF RemovePartyLeader

LEMMA RemoveResult ==
    ASSUME Typed, NEW b, Sound(b, at, addr), b.party = party, NEW c \in Chars, NEW then, Remove(b, c, then)
    PROVE  (\E n : Removed(n, b, c)) \/ (\E x \in Chars : BeingRemoved(b, c, then, x))
<1>1. CASE Leads(b, c) /\ RemovePartyLeader(b, c, then)
  BY <1>1, RemoveLeaderResult DEF Leads
<1>2. CASE Become(IF party[c] = NoObj THEN b ELSE RemoveMember(b, c), at[c]) /\ UNCHANGED task
  <2>1. CASE party[c] = NoObj
    <3>1. Removed(b, b, c)
      BY <1>2, <2>1 DEF Removed
    <3>2. QED BY <3>1
  <2>2. CASE party[c] # NoObj
    <3> DEFINE n == RemoveMember(b, c)
    <3>1. /\ Sound(n, at, addr)
          /\ \A d \in Chars : n.party[d] = IF d = c THEN NoObj ELSE b.party[d]
          /\ \A d \in Chars : n.row[d] = IF d = c THEN NoRow ELSE b.row[d]
      BY <2>2, RemoveMemberSound
    <3>2. Become(n, at[c])
      BY <1>2, <2>2
    <3> HIDE DEF n
    <3>3. Removed(n, b, c)
      BY <1>2, <2>2, <3>1, <3>2 DEF Removed
    <3>4. QED BY <3>3
  <2>3. QED BY <2>1, <2>2
<1>3. QED BY <1>1, <1>2 DEF Remove

(* What the two outcomes leave behind.                                     *)
LEMMA RemovedTasks ==
    ASSUME Typed, NEW c \in Chars, at[c] \in Maps, task[at[c]] = NoTask, NEW b, NEW n, Removed(n, b, c),
           party' = n.party, \A d \in Chars \ {c} : at'[d] = at[d],  zoned' \subseteq zoned
    PROVE  TaskHere'
<1>1. Sound(Book, at, addr) /\ Book.party = party
  BY BookSound DEF Typed
<1>2. \A d \in Chars : at[d] # NoMap /\ task[at[d]] # NoTask =>
         /\ at'[d] = at[d] /\ (party[d] # NoObj => party'[d] # NoObj) /\ (d \in zoned' => d \in zoned)
  BY <1>1 DEF Removed, Sound
<1>3. QED BY <1>2, TasksKept DEF Removed

LEMMA BeingRemovedTasks ==
    ASSUME Typed, NEW c \in Chars, at[c] \in Maps, task[at[c]] = NoTask,
           NEW then \in {"stay", "off", "reload"}, NEW b, NEW x \in Chars, BeingRemoved(b, c, then, x),
           party' = party, at' = at, zoned' \subseteq zoned, then = "off" => c \notin zoned'
    PROVE  /\ TaskHere' /\ task' \in [Maps -> Task \cup {NoTask}] /\ task' # task
<1> DEFINE k == [char |-> c, next |-> x, then |-> then]
<1>1. k \in Task /\ k.char = c /\ k.then = then
  BY DEF Task
<1>2. task' = [task EXCEPT ![at[c]] = k] /\ task \in [Maps -> Task \cup {NoTask}] /\ party[c] # NoObj
  BY TypedParts DEF BeingRemoved, Typed, Rest
<1> HIDE DEF k
<1>3. task' \in [Maps -> Task \cup {NoTask}] /\ task'[at[c]] = k /\ k # NoTask
  BY <1>1, <1>2, Names
<1>4. \A m \in Maps : task'[m] # NoTask =>
         /\ at'[task'[m].char] = m /\ party'[task'[m].char] # NoObj
         /\ task'[m].then = "off" => task'[m].char \notin zoned'
  BY <1>1, <1>2, <1>3 DEF Typed, TaskHere
<1>5. QED BY <1>3, <1>4 DEF TaskHere

LEMMA LeaveTyped ==
    ASSUME Typed, NEW c \in Chars, Leave(c)
    PROVE  Typed'
<1>1. Rest /\ acts' \in 0..MaxActs /\ at[c] \in Maps /\ task[at[c]] = NoTask
  BY TypedParts, PacketFacts DEF Typed, Leave
<1>2. UNCHANGED <<addr, at, zoned, reload, invite, toMap>> /\ Remove(Book, c, "stay")
  BY DEF Leave
<1>3. Sound(Book, at, addr) /\ Book.party = party
  BY BookSound DEF Typed
<1>4. (\E n : Removed(n, Book, c)) \/ (\E x \in Chars : BeingRemoved(Book, c, "stay", x))
  BY <1>2, <1>3, RemoveResult
<1>5. CASE \E n : Removed(n, Book, c)
  <2>1. PICK n : Removed(n, Book, c)
    BY <1>5
  <2>2. Sound(Book', at', addr') /\ party' = n.party /\ toWorld' \in [Maps -> Seq(Message)]
    BY <1>1, <1>2, <2>1, BecomeSound DEF Rest, Removed
  <2>3. TaskHere'
    BY <1>1, <1>2, <2>1, <2>2, RemovedTasks
  <2>4. Rest'
    BY <1>1, <1>2, <2>1, <2>2 DEF Rest, Removed
  <2>5. QED BY <2>2, <2>3, <2>4, TypedPartsNext DEF Typed
<1>6. CASE \E x \in Chars : BeingRemoved(Book, c, "stay", x)
  <2>1. PICK x \in Chars : BeingRemoved(Book, c, "stay", x)
    BY <1>6
  <2>2. Sound(Book', at', addr') /\ party' = party /\ toWorld' \in [Maps -> Seq(Message)]
    BY <1>1, <1>2, <1>3, <2>1, BecomeSound DEF Rest, BeingRemoved
  <2>3. TaskHere' /\ task' \in [Maps -> Task \cup {NoTask}]
    BY <1>1, <1>2, <2>1, <2>2, BeingRemovedTasks
  <2>4. Rest'
    BY <1>1, <1>2, <2>2, <2>3 DEF Rest
  <2>5. QED BY <2>2, <2>3, <2>4, TypedPartsNext DEF Typed
<1>7. QED BY <1>4, <1>5, <1>6

(* A step of one map that is not in the middle of something, after which   *)
(* everybody is where it was.                                              *)
LEMMA HandlerTyped ==
    ASSUME Typed, NEW m \in Maps, task[m] = NoTask, NEW b, Sound(b, at, addr), Become(b, m),
           UNCHANGED <<addr, at, zoned, task>>,
           \A d \in Chars : b.party[d] = party[d] \/ party[d] = NoObj \/ at[d] = m,
           invite' \in [Chars -> Chars \cup {NoOne}], reload' \subseteq Chars,
           toMap' \in [Maps -> Seq(Message)], acts' \in 0..MaxActs
    PROVE  Typed'
<1>1. Rest
  BY TypedParts DEF Typed
<1>2. Sound(Book', at', addr') /\ party' = b.party /\ toWorld' \in [Maps -> Seq(Message)]
  BY <1>1, BecomeSound DEF Rest
<1>3. Rest'
  BY <1>1, <1>2 DEF Rest
<1>4. TaskHere'
  BY <1>2, TasksKept
<1>5. QED BY <1>2, <1>3, <1>4, TypedPartsNext DEF Typed

(* The character leaves its party for good, or its map is to take it out.  *)
LEMMA EndTyped ==
    ASSUME Typed, NEW c \in Chars, at[c] \in Maps, task[at[c]] = NoTask,
           NEW b, Sound(b, at, addr), b.party = party, Remove(b, c, "off"),
           zoned' = zoned \ {c}, reload' \subseteq Chars, toMap' = toMap,
           invite' \in [Chars -> Chars \cup {NoOne}], acts' \in 0..MaxActs,
           addr' \in {addr, [addr EXCEPT ![c] = NoMap]},
           at' = IF task' = task THEN [at EXCEPT ![c] = NoMap] ELSE at,
           addr' = addr \/ b.row[c] = NoRow \/ (task' = task /\ party[c] # NoObj)
    PROVE  Typed'
<1>1. Rest
  BY TypedParts DEF Typed
<1>2. (\E n : Removed(n, b, c)) \/ (\E x \in Chars : BeingRemoved(b, c, "off", x))
  BY RemoveResult
<1>3. /\ addr' \in [Chars -> Maps \cup {NoMap}] /\ at' \in [Chars -> Maps \cup {NoMap}]
      /\ \A d \in Chars \ {c} : at'[d] = at[d] /\ addr'[d] = addr[d]
      /\ zoned' \subseteq {d \in Chars : at'[d] # NoMap}
  BY <1>1 DEF Rest
<1>4. ASSUME NEW n, Sound(n, at, addr), n.party[c] = NoObj \/ at' = at, n.row[c] = NoRow \/ addr' = addr
      PROVE  Sound(n, at', addr')
  BY <1>3, <1>4, SoundAway
<1>5. CASE \E n : Removed(n, b, c)
  <2>1. PICK n : Removed(n, b, c)
    BY <1>5
  <2>2. /\ n.party[c] = NoObj /\ Sound(n, at, addr) /\ Become(n, at[c]) /\ task' = task
        /\ addr' = addr \/ n.row[c] = NoRow
    BY <2>1 DEF Removed
  <2>3. Sound(n, at', addr')
    BY <1>4, <2>2
  <2>4. Sound(Book', at', addr') /\ party' = n.party /\ toWorld' \in [Maps -> Seq(Message)]
    BY <1>1, <2>2, <2>3, BecomeSound DEF Rest
  <2>5. TaskHere'
    BY <1>1, <1>3, <2>1, <2>4, RemovedTasks
  <2>6. Rest'
    BY <1>1, <1>3, <2>2, <2>4 DEF Rest
  <2>7. QED BY <2>4, <2>5, <2>6, TypedPartsNext DEF Typed
<1>6. CASE \E x \in Chars : BeingRemoved(b, c, "off", x)
  <2>1. PICK x \in Chars : BeingRemoved(b, c, "off", x)
    BY <1>6
  <2>2. Become(b, at[c]) /\ party[c] # NoObj /\ party' = party
    BY <2>1 DEF BeingRemoved, Become
  <2>3. task' # task
    <3> DEFINE k == [char |-> c, next |-> x, then |-> "off"]
    <3>1. k \in Task
      BY DEF Task
    <3>2. task'[at[c]] = k
      BY <1>1, <2>1 DEF BeingRemoved, Rest
    <3> HIDE DEF k
    <3>3. QED BY <1>1, <3>1, <3>2, Names
  <2>4. at' = at /\ (addr' = addr \/ b.row[c] = NoRow)
    BY <2>3
  <2>5. TaskHere' /\ task' \in [Maps -> Task \cup {NoTask}]
    BY <1>1, <1>3, <2>1, <2>2, <2>4, BeingRemovedTasks
  <2>6. Sound(b, at', addr')
    BY <1>4, <2>4
  <2>7. Sound(Book', at', addr') /\ toWorld' \in [Maps -> Seq(Message)]
    BY <1>1, <2>2, <2>6, BecomeSound DEF Rest
  <2>8. Rest'
    BY <1>1, <1>3, <2>5, <2>7 DEF Rest
  <2>9. QED BY <2>5, <2>7, <2>8, TypedPartsNext DEF Typed
<1>7. QED BY <1>2, <1>5, <1>6

(* The book a disconnection starts from: without the row, or as it is.     *)
LEMMA RowGoneOrNot ==
    ASSUME Typed, NEW c \in Chars, NEW b, b = Book \/ RowGone(b, Book, c)
    PROVE  /\ Sound(b, at, addr) /\ b.party = party /\ b.ldr = ldr
           /\ RowGone(b, Book, c) => b.row[c] = NoRow
<1>1. Sound(Book, at, addr) /\ Book.party = party /\ Book.ldr = ldr
  BY BookSound DEF Typed
<1> HIDE DEF Book
<1>2. QED BY <1>1, RowGoneSound

LEMMA LogoffTyped ==
    ASSUME Typed, NEW c \in Chars, NEW timed \in BOOLEAN, Logoff(c, timed)
    PROVE  Typed'
<1>1. Rest /\ acts' \in 0..MaxActs /\ at[c] \in Maps /\ task[at[c]] = NoTask
  BY TypedParts, PacketFacts DEF Typed, Logoff
<1> DEFINE b == IF timed \/ party[c] = NoObj THEN [Book EXCEPT !.row[c] = NoRow] ELSE Book
<1>2. /\ Remove(b, c, "off") /\ zoned' = zoned \ {c} /\ reload' = reload \ {c}
      /\ invite' = [invite EXCEPT ![c] = NoOne] /\ toMap' = toMap
      /\ addr' = IF task' = task \/ timed THEN [addr EXCEPT ![c] = NoMap] ELSE addr
      /\ at' = IF task' = task THEN [at EXCEPT ![c] = NoMap] ELSE at
  BY DEF Logoff
<1>3. IF timed \/ party[c] = NoObj THEN RowGone(b, Book, c) ELSE b = Book
  BY DEF RowGone
<1> HIDE DEF b
<1>4. /\ Sound(b, at, addr) /\ b.party = party
      /\ timed \/ party[c] = NoObj => b.row[c] = NoRow
  BY <1>3, RowGoneOrNot
<1>5. reload' \subseteq Chars /\ invite' \in [Chars -> Chars \cup {NoOne}]
  BY <1>1, <1>2 DEF Rest
<1>6. QED BY <1>1, <1>2, <1>4, <1>5, EndTyped

LEMMA TimeOutTyped ==
    ASSUME Typed, NEW c \in Chars, TimeOut(c)
    PROVE  Typed'
<1>1. Rest /\ acts' \in 0..MaxActs /\ at[c] \in Maps /\ task[at[c]] = NoTask /\ zoned' = zoned \ {c}
  BY TypedParts DEF Typed, TimeOut, Rest
<1> DEFINE b == IF addr[c] = at[c] THEN [Book EXCEPT !.row[c] = NoRow] ELSE Book
<1>2. /\ Remove(b, c, "off") /\ reload' = reload \ {c} /\ invite' = invite /\ toMap' = toMap
      /\ addr' = IF addr[c] = at[c] THEN [addr EXCEPT ![c] = NoMap] ELSE addr
      /\ at' = IF task' = task THEN [at EXCEPT ![c] = NoMap] ELSE at
  BY DEF TimeOut
<1>3. IF addr[c] = at[c] THEN RowGone(b, Book, c) ELSE b = Book
  BY DEF RowGone
<1> HIDE DEF b
<1>4. Sound(b, at, addr) /\ b.party = party /\ (addr[c] = at[c] => b.row[c] = NoRow)
  BY <1>3, RowGoneOrNot
<1>5. reload' \subseteq Chars /\ invite' \in [Chars -> Chars \cup {NoOne}]
  BY <1>1, <1>2 DEF Rest
<1>6. QED BY <1>1, <1>2, <1>4, <1>5, EndTyped

LEMMA BreakupTyped ==
    ASSUME Typed, NEW a \in Chars, Breakup(a)
    PROVE  Typed'
<1>1. Rest /\ acts' \in 0..MaxActs /\ at[a] \in Maps /\ task[at[a]] = NoTask
  BY TypedParts, PacketFacts DEF Typed, Breakup
<1>2. /\ Sound(Book, at, addr) /\ Book.party = party /\ party[a] # NoObj
  BY BookSound DEF Typed, Breakup, Leads
<1> DEFINE o == party[a]
           n == DisbandAndTell(Book, o)
<1>3. o \in Objs /\ Book.pid[o] \in Chars
  BY <1>2, BookFields DEF Sound
<1>4. Sound(n, at, addr) /\ \A d \in Chars : n.party[d] = IF party[d] = o THEN NoObj ELSE party[d]
  BY <1>2, <1>3, DisbandSound
<1>5. Become(n, at[a]) /\ UNCHANGED <<addr, at, zoned, reload, invite, task, toMap>>
  BY DEF Breakup
<1> HIDE DEF n
<1>6. \A d \in Chars : n.party[d] = party[d] \/ party[d] = NoObj \/ at[d] = at[a]
  BY <1>2, <1>4 DEF Sound
<1>7. QED BY <1>1, <1>4, <1>5, <1>6, HandlerTyped DEF Rest

LEMMA StrikeTyped ==
    ASSUME Typed, NEW a \in Chars, NEW v \in Chars, Strike(a, v)
    PROVE  Typed'
<1>1. Rest /\ acts' \in 0..MaxActs /\ at[a] \in Maps /\ task[at[a]] = NoTask
  BY TypedParts, PacketFacts DEF Typed, Strike
<1>2. /\ Sound(Book, at, addr) /\ Book.party = party /\ Book.pid = pid /\ Book.out = << >> /\ party[a] # NoObj
  BY BookSound DEF Typed, Strike, Leads
<1>3. UNCHANGED <<addr, at, zoned, reload, invite, task, toMap>>
  BY DEF Strike
<1>4. CASE party[v] = party[a] /\ Become(RemoveMember(Book, v), at[a])
  <2> DEFINE n == RemoveMember(Book, v)
  <2>1. Sound(n, at, addr) /\ \A d \in Chars : n.party[d] = IF d = v THEN NoObj ELSE party[d]
    BY <1>2, <1>4, RemoveMemberSound
  <2>2. Become(n, at[a])
    BY <1>4
  <2> HIDE DEF n
  <2>3. \A d \in Chars : n.party[d] = party[d] \/ party[d] = NoObj \/ at[d] = at[a]
    BY <1>2, <1>4, <2>1 DEF Sound
  <2>4. QED BY <1>1, <1>3, <2>1, <2>2, <2>3, HandlerTyped DEF Rest
<1>5. CASE Become([Book EXCEPT !.row[v] = NoRow,
                               !.out = <<PartyReload(pid[party[a]]), PlayerKick(v)>>], at[a])
  <2> DEFINE j == [Book EXCEPT !.row[v] = NoRow]
             w == <<PartyReload(pid[party[a]]), PlayerKick(v)>>
             n == [j EXCEPT !.out = w]
  <2>1. Sound(j, at, addr) /\ j.party = party
    BY <1>2, QuitSound
  <2>2. pid[party[a]] \in Chars
    BY <1>2, BookFields DEF Sound
  <2>3. w \in Seq(Message)
    BY <2>2, MessageTypes
  <2>4. Become(n, at[a])
    BY <1>5
  <2> HIDE DEF j, w
  <2>5. /\ n \in Books /\ n.row = j.row /\ n.party = j.party /\ n.pid = j.pid
    BY <2>1, <2>3 DEF Books, Sound
  <2> HIDE DEF n
  <2>6. Sound(n, at, addr)
    BY <2>1, <2>5 DEF Sound
  <2>7. QED BY <1>1, <1>3, <2>1, <2>4, <2>5, <2>6, HandlerTyped DEF Rest
<1>6. QED BY <1>4, <1>5 DEF Strike

LEMMA PassLeadTyped ==
    ASSUME Typed, NEW a \in Chars, NEW x \in Chars, PassLead(a, x)
    PROVE  Typed'
<1>1. Rest /\ acts' \in 0..MaxActs /\ at[a] \in Maps /\ task[at[a]] = NoTask
  BY TypedParts, PacketFacts DEF Typed, PassLead
<1>2. /\ Sound(Book, at, addr) /\ Book.party = party /\ party[a] # NoObj
  BY BookSound DEF Typed, PassLead, Leads
<1> DEFINE o == party[a]
           b == SetLeader(Book, o, x)
           n == Say(b, PartyReload(b.pid[o]))
<1>3. o \in Objs
  BY <1>2, BookFields DEF Sound
<1>4. Sound(b, at, addr) /\ b.party = party
  BY <1>2, <1>3, SetLeaderSound
<1>5. Become(n, at[a]) /\ UNCHANGED <<addr, at, zoned, reload, invite, task, toMap>>
  BY DEF PassLead
<1> HIDE DEF b
<1>6. b.pid[o] \in Chars
  BY <1>2, <1>3, <1>4, BookFields DEF Sound
<1>7. Sound(n, at, addr) /\ n.party = party
  BY <1>4, <1>6, MessageTypes, SaySound
<1> HIDE DEF n
<1>8. QED BY <1>1, <1>5, <1>7, HandlerTyped DEF Rest

LEMMA ZoneOutTyped ==
    ASSUME Typed, NEW c \in Chars, NEW m \in Maps, ZoneOut(c, m)
    PROVE  Typed'
<1>1. Rest /\ acts' \in 0..MaxActs
  BY TypedParts, PacketFacts DEF Typed, ZoneOut
<1>2. /\ UNCHANGED <<row, party, pid, ldr>> /\ UNCHANGED <<at, reload, task, toWorld, toMap>>
      /\ addr' = [addr EXCEPT ![c] = IF addr[c] = NoMap THEN NoMap ELSE m]
      /\ zoned' = zoned \ {c} /\ invite' = [invite EXCEPT ![c] = NoOne]
  BY DEF ZoneOut, bookVars
<1>3. Rest'
  BY <1>1, <1>2 DEF Rest
<1>4. Sound(Book', at', addr')
  <2>1. Sound(Book, at, addr) /\ Book' = Book
    BY <1>2, BookSound DEF Typed, Book
  <2>2. /\ \A d \in Chars \ {c} : at'[d] = at[d] /\ addr'[d] = addr[d]
        /\ at'[c] = at[c] /\ (addr'[c] = addr[c] \/ addr'[c] # NoMap)
    BY <1>1, <1>2, Names DEF Rest
  <2>3. QED BY <2>1, <2>2, SoundAway
<1>5. TaskHere'
  BY <1>2, TasksKept
<1>6. QED BY <1>3, <1>4, <1>5, TypedPartsNext DEF Typed

LEMMA DepartTyped ==
    ASSUME Typed, NEW c \in Chars, NEW mog \in BOOLEAN, Depart(c, mog)
    PROVE  Typed'
<1>1. Rest /\ at[c] \in Maps /\ c \notin zoned /\ task[at[c]] = NoTask
  BY TypedParts DEF Typed, Depart, Rest
<1>2. /\ UNCHANGED <<addr, zoned, invite, task, toMap, acts>>
      /\ at' = [at EXCEPT ![c] = NoMap] /\ reload' = reload \ {c}
  BY DEF Depart
<1>3. /\ Sound(Book, at, addr) /\ Book.party = party /\ Book.pid = pid
  BY BookSound DEF Typed
<1> DEFINE b == PopMember(Book, c)
           n == IF party[c] = NoObj \/ mog THEN b ELSE Say(b, PartyReload(pid[party[c]]))
<1>4. Become(n, at[c])
  BY DEF Depart
<1>5. Sound(b, at, addr) /\ \A d \in Chars : b.party[d] = IF d = c THEN NoObj ELSE party[d]
  BY <1>3, PopSound
<1> HIDE DEF b
<1>6. Sound(n, at, addr) /\ n.party = b.party
  <2>1. CASE party[c] = NoObj \/ mog
    BY <1>5, <2>1
  <2>2. CASE ~(party[c] = NoObj \/ mog)
    <3>1. pid[party[c]] \in Chars
      BY <1>3, <2>2, BookFields DEF Sound
    <3>2. PartyReload(pid[party[c]]) \in Message
      BY <3>1, MessageTypes
    <3>3. QED BY <1>5, <2>2, <3>2, SaySound
  <2>3. QED BY <2>1, <2>2
<1> HIDE DEF n
<1>7. (\A d \in Chars \ {c} : at'[d] = at[d] /\ addr'[d] = addr[d]) /\ addr'[c] = addr[c]
  BY <1>1, <1>2 DEF Rest
<1>8. Sound(n, at', addr')
  <2>1. n.party[c] = NoObj
    BY <1>5, <1>6
  <2>2. QED BY <1>6, <1>7, <2>1, SoundAway
<1>9. Sound(Book', at', addr') /\ party' = n.party /\ toWorld' \in [Maps -> Seq(Message)]
  BY <1>1, <1>4, <1>8, BecomeSound DEF Rest
<1>10. Rest'
  BY <1>1, <1>2, <1>9 DEF Rest
<1>11. TaskHere'
  BY <1>1, <1>2, <1>5, <1>6, <1>7, <1>9, TasksKept
<1>12. QED BY <1>9, <1>10, <1>11, TypedPartsNext DEF Typed

LEMMA ArriveTyped ==
    ASSUME Typed, NEW c \in Chars, Arrive(c)
    PROVE  Typed'
<1>1. Rest /\ at[c] = NoMap /\ addr[c] \in Maps
  BY TypedParts DEF Typed, Arrive, Rest
<1>2. /\ UNCHANGED <<row, party, pid, ldr>> /\ UNCHANGED <<addr, invite, task, toWorld, toMap, acts>>
      /\ at' = [at EXCEPT ![c] = addr[c]] /\ zoned' = zoned \cup {c} /\ reload' = reload \cup {c}
  BY DEF Arrive, bookVars
<1>3. at' \in [Chars -> Maps \cup {NoMap}] /\ at'[c] # NoMap /\ \A d \in Chars \ {c} : at'[d] = at[d]
  BY <1>1, <1>2, Names DEF Rest
<1>4. Rest'
  BY <1>1, <1>2, <1>3 DEF Rest
<1>5. Sound(Book', at', addr')
  <2>1. Sound(Book, at, addr) /\ Book' = Book /\ Book.party = party
    BY <1>2, BookSound DEF Typed, Book
  <2>2. Book.party[c] = NoObj
    BY <1>1, <2>1 DEF Sound
  <2>3. QED BY <1>2, <1>3, <2>1, <2>2, SoundAway
<1>6. TaskHere'
  BY <1>1, <1>2, <1>3, TasksKept
<1>7. QED BY <1>4, <1>5, <1>6, TypedPartsNext DEF Typed

LEMMA LoseTyped ==
    ASSUME Typed, NEW c \in Chars, Lose(c)
    PROVE  Typed'
<1>1. Rest
  BY TypedParts DEF Typed
<1>2. /\ UNCHANGED <<party, pid, ldr, at, zoned, reload, invite, task, toWorld, toMap, acts>>
      /\ addr' = [addr EXCEPT ![c] = NoMap] /\ row' = [row EXCEPT ![c] = NoRow]
  BY DEF Lose
<1>3. Rest'
  BY <1>1, <1>2 DEF Rest
<1>4. Sound(Book', at', addr')
  <2> DEFINE j == [Book EXCEPT !.row[c] = NoRow]
  <2>1. Sound(Book, at, addr)
    BY BookSound DEF Typed
  <2>2. Book' = j
    BY <1>2 DEF Book
  <2>3. Sound(j, at, addr) /\ \A d \in Chars : j.row[d] = IF d = c THEN NoRow ELSE Book.row[d]
    BY <2>1, QuitSound, ZenonT(60)
  <2> HIDE DEF j
  <2>4. (\A d \in Chars \ {c} : at'[d] = at[d] /\ addr'[d] = addr[d]) /\ at'[c] = at[c]
    BY <1>1, <1>2 DEF Rest
  <2>5. j.row[c] = NoRow
    BY <2>3
  <2>6. Sound(j, at', addr')
    BY <2>3, <2>4, <2>5, SoundAway
  <2>7. QED BY <2>2, <2>6
<1>5. TaskHere'
  BY <1>2, TasksKept
<1>6. QED BY <1>3, <1>4, <1>5, TypedPartsNext DEF Typed

LEMMA FinishRemovalTyped ==
    ASSUME Typed, NEW m \in Maps, FinishRemoval(m)
    PROVE  Typed'
<1> DEFINE k == task[m]
<1>1. /\ Rest /\ k \in Task /\ k # NoTask /\ k.char \in Chars /\ k.next \in Chars
      /\ at[k.char] = m /\ party[k.char] # NoObj /\ (k.then = "off" => k.char \notin zoned)
  BY TypedParts DEF Typed, FinishRemoval, Rest, Task, TaskHere
<1>2. PICK c \in Chars : c = k.char
  BY <1>1
<1>3. PICK next \in Chars : next = k.next
  BY <1>1
<1>4. /\ Sound(Book, at, addr) /\ Book.party = party
  BY BookSound DEF Typed
<1> DEFINE o == party[c]
           b == LeaderRemoved(Book, c, next)
<1>5. /\ Sound(b, at, addr) /\ b.party[c] = NoObj /\ b.row[c] = NoRow
      /\ \A d \in Chars : b.party[d] = Book.party[d] \/ (b.party[d] = NoObj /\ Book.party[d] = Book.party[c])
  BY <1>1, <1>2, <1>4, LeaderRemovedSound
<1>6. o \in Objs
  BY <1>1, <1>2, <1>4, BookFields DEF Sound
<1>7. /\ \/ Become(b, m) /\ UNCHANGED reload
         \/ /\ \E l \in LeaderViews(b, o) : Become([b EXCEPT !.ldr[o] = l], m)
            /\ reload' = reload \ Members(b, o)
      /\ IF k.then = "off" THEN /\ addr' = [addr EXCEPT ![c] = IF addr[c] = m THEN NoMap ELSE addr[c]]
                                /\ at' = [at EXCEPT ![c] = NoMap]
                           ELSE UNCHANGED <<addr, at>>
      /\ task' = [task EXCEPT ![m] = NoTask]
      /\ UNCHANGED <<zoned, invite, toMap, acts>>
  BY <1>2, <1>3 DEF FinishRemoval
<1> HIDE DEF b
<1>8. /\ addr' \in [Chars -> Maps \cup {NoMap}] /\ at' \in [Chars -> Maps \cup {NoMap}]
      /\ \A d \in Chars \ {c} : at'[d] = at[d] /\ addr'[d] = addr[d]
      /\ zoned' \subseteq {d \in Chars : at'[d] # NoMap}
  <2>1. /\ addr \in [Chars -> Maps \cup {NoMap}] /\ at \in [Chars -> Maps \cup {NoMap}]
        /\ zoned \subseteq {d \in Chars : at[d] # NoMap}
    BY <1>1 DEF Rest
  <2>2. CASE k.then = "off"
    <3>1. /\ addr' = [addr EXCEPT ![c] = IF addr[c] = m THEN NoMap ELSE addr[c]]
          /\ at' = [at EXCEPT ![c] = NoMap] /\ zoned' = zoned
      BY <1>7, <2>2
    <3>2. c \notin zoned
      BY <1>1, <1>2, <2>2
    <3>3. QED BY <2>1, <3>1, <3>2
  <2>3. CASE k.then # "off"
    BY <1>7, <2>1, <2>3
  <2>4. QED BY <2>2, <2>3
<1>9. \E n : Sound(n, at, addr) /\ n.party = b.party /\ n.row = b.row /\ Become(n, m)
  <2>1. CASE Become(b, m)
    BY <1>5, <2>1
  <2>2. CASE \E l \in LeaderViews(b, o) : Become([b EXCEPT !.ldr[o] = l], m)
    <3>1. PICK l \in LeaderViews(b, o) : Become([b EXCEPT !.ldr[o] = l], m)
      BY <2>2
    <3> DEFINE n == [b EXCEPT !.ldr[o] = l]
    <3>2. Sound(n, at, addr) /\ n.row = b.row /\ n.party = b.party
      BY <1>5, <1>6, RefreshSound
    <3>3. Become(n, m)
      BY <3>1
    <3> HIDE DEF n
    <3>4. QED BY <3>2, <3>3
  <2>3. QED BY <1>7, <2>1, <2>2
<1>10. PICK n : Sound(n, at, addr) /\ n.party = b.party /\ n.row = b.row /\ Become(n, m)
  BY <1>9
<1>11. Sound(n, at', addr')
  BY <1>5, <1>8, <1>10, SoundAway
<1>12. Sound(Book', at', addr') /\ party' = n.party /\ toWorld' \in [Maps -> Seq(Message)]
  BY <1>1, <1>10, <1>11, BecomeSound DEF Rest
<1>13. Rest'
  BY <1>1, <1>7, <1>8, <1>12 DEF Rest
<1>14. TaskHere'
  <2> SUFFICES ASSUME NEW w \in Maps, task'[w] # NoTask
               PROVE  /\ at'[task'[w].char] = w /\ party'[task'[w].char] # NoObj
                      /\ task'[w].then = "off" => task'[w].char \notin zoned'
    BY DEF TaskHere
  <2>1. w # m /\ task'[w] = task[w]
    BY <1>1, <1>7 DEF Rest
  <2>2. task[w].char \in Chars /\ at[task[w].char] = w /\ party[task[w].char] # NoObj
        /\ (task[w].then = "off" => task[w].char \notin zoned)
    BY <1>1, <2>1 DEF Rest, Task, Typed, TaskHere
  <2>3. PICK x \in Chars : x = task[w].char
    BY <2>2
  <2>4. x # c /\ party[x] # party[c]
    BY <1>1, <1>2, <1>4, <2>1, <2>2, <2>3 DEF Sound
  <2>5. party'[x] # NoObj
    BY <1>4, <1>5, <1>10, <1>12, <2>2, <2>3, <2>4
  <2>6. QED BY <1>7, <1>8, <2>1, <2>2, <2>3, <2>4, <2>5
<1>15. QED BY <1>12, <1>13, <1>14, TypedPartsNext DEF Typed

LEMMA WorldHandleTyped ==
    ASSUME Typed, NEW q \in Maps, WorldHandle(q)
    PROVE  Typed'
<1>1. Rest
  BY TypedParts DEF Typed
<1>2. /\ toWorld[q] # << >> /\ toWorld' = [toWorld EXCEPT ![q] = Tail(toWorld[q])]
      /\ UNCHANGED bookVars /\ UNCHANGED <<addr, at, zoned, reload, invite, task, acts>>
  BY DEF WorldHandle
<1>3. Head(toWorld[q]) \in Message /\ Tail(toWorld[q]) \in Seq(Message)
  BY <1>1, <1>2, HeadTailProperties DEF Rest
<1>4. toWorld' \in [Maps -> Seq(Message)]
  BY <1>1, <1>2, <1>3 DEF Rest
<1>5. PICK p \in Message : p = Head(toWorld[q])
  BY <1>3
<1>6. PICK to : toMap' = [m \in Maps |-> IF m \in to THEN Append(toMap[m], p) ELSE toMap[m]]
  BY <1>5 DEF WorldHandle
<1>7. \A m \in Maps : Append(toMap[m], p) \in Seq(Message)
  BY <1>1 DEF Rest
<1>8. toMap' \in [Maps -> Seq(Message)]
  BY <1>1, <1>6, <1>7 DEF Rest
<1>9. Rest'
  BY <1>1, <1>2, <1>4, <1>8 DEF Rest
<1>10. TaskHere'
  BY <1>2, TasksKept DEF bookVars
<1>11. QED BY <1>2, <1>9, <1>10, BookStays, TypedPartsNext DEF Typed

LEMMA Received ==
    ASSUME Typed, NEW m \in Maps, NEW ty, Receive(m, ty)
    PROVE  /\ toMap' \in [Maps -> Seq(Message)] /\ Head(toMap[m]) \in Message
           /\ Head(toMap[m]).who \in Chars /\ Head(toMap[m]).from \in Chars
           /\ Head(toMap[m]).type = ty /\ task[m] = NoTask
<1>1. Rest
  BY TypedParts DEF Typed
<1>2. toMap[m] # << >> /\ toMap' = [toMap EXCEPT ![m] = Tail(toMap[m])] /\ Head(toMap[m]).type = ty /\ task[m] = NoTask
  BY DEF Receive
<1>3. Head(toMap[m]) \in Message /\ Tail(toMap[m]) \in Seq(Message)
  BY <1>1, <1>2, HeadTailProperties DEF Rest
<1>4. QED BY <1>1, <1>2, <1>3 DEF Rest, Message

(* The messages that leave the book alone.                                 *)
LEMMA NoticeTyped ==
    ASSUME Typed, NEW m \in Maps, MapPartyReload(m) \/ MapPlayerKick(m) \/ MapPartyInvite(m)
    PROVE  Typed'
<1>1. Rest
  BY TypedParts DEF Typed
<1>2. UNCHANGED bookVars /\ UNCHANGED <<addr, at, zoned, task, toWorld, acts>>
  BY Zenon DEF MapPartyReload, MapPlayerKick, MapPartyInvite
<1>3. \E ty : Receive(m, ty)
  BY DEF MapPartyReload, MapPlayerKick, MapPartyInvite
<1>4. toMap' \in [Maps -> Seq(Message)] /\ Head(toMap[m]).from \in Chars
  BY <1>3, Received
<1>5. reload' \subseteq Chars
  BY <1>1 DEF MapPartyReload, MapPlayerKick, MapPartyInvite, Rest, Here
<1>6. invite' \in [Chars -> Chars \cup {NoOne}]
  BY <1>1, <1>4, ZenonT(60) DEF MapPartyReload, MapPlayerKick, MapPartyInvite, Rest
<1>7. Rest'
  BY <1>1, <1>2, <1>4, <1>5, <1>6 DEF Rest
<1>8. TaskHere'
  BY <1>2, TasksKept DEF bookVars
<1>9. QED BY <1>2, <1>7, <1>8, BookStays, TypedPartsNext DEF Typed

(* The objects that a map has.                                             *)
LEMMA KnownHere ==
    ASSUME Typed, NEW m \in Maps, NEW p \in Chars, NEW o \in Known(m, p)
    PROVE  /\ o \in Objs /\ pid[o] = p /\ \E d \in Here(m) : party[d] = o
           /\ \A d \in Chars : party[d] = o => at[d] = m
<1>1. Sound(Book, at, addr) /\ Book.party = party /\ Book.pid = pid /\ Rest
  BY BookSound, TypedParts DEF Typed
<1>2. PICK d \in Here(m) : party[d] # NoObj /\ pid[party[d]] = p /\ o = party[d]
  BY DEF Known
<1>3. d \in Chars /\ at[d] = m
  BY <1>1 DEF Here, Rest
<1>4. o \in Objs
  BY <1>1, <1>2, <1>3, BookFields DEF Sound
<1>5. \A e \in Chars : party[e] = o => at[e] = m
  BY <1>1, <1>2, <1>3 DEF Sound
<1>6. QED BY <1>2, <1>4, <1>5

LEMMA MapPartyDisbandTyped ==
    ASSUME Typed, NEW m \in Maps, MapPartyDisband(m)
    PROVE  Typed'
<1>1. Rest
  BY TypedParts DEF Typed
<1>2. Receive(m, "PartyDisband") /\ UNCHANGED <<addr, at, zoned, reload, invite, task, acts>>
  BY DEF MapPartyDisband
<1>3. toMap' \in [Maps -> Seq(Message)] /\ Head(toMap[m]).who \in Chars /\ task[m] = NoTask
  BY <1>2, Received
<1>4. PICK p \in Chars : p = Head(toMap[m]).who
  BY <1>3
<1>5. CASE UNCHANGED <<bookVars, toWorld>>
  <2>1. Rest'
    BY <1>1, <1>2, <1>3, <1>5 DEF Rest
  <2>2. TaskHere'
    BY <1>2, <1>5, TasksKept DEF bookVars
  <2>3. QED BY <1>2, <1>5, <2>1, <2>2, BookStays, TypedPartsNext DEF Typed
<1>6. CASE \E o \in Known(m, p) : Become(DisbandParty(Book, o), m)
  <2>1. PICK o \in Known(m, p) : Become(DisbandParty(Book, o), m)
    BY <1>6
  <2> DEFINE n == DisbandParty(Book, o)
  <2>2. o \in Objs /\ \A d \in Chars : party[d] = o => at[d] = m
    BY KnownHere
  <2>3. Sound(Book, at, addr) /\ Book.party = party
    BY BookSound DEF Typed
  <2>4. Sound(n, at, addr) /\ \A d \in Chars : n.party[d] = IF party[d] = o THEN NoObj ELSE party[d]
    BY <2>2, <2>3, DisbandSound
  <2>5. Become(n, m)
    BY <2>1
  <2> HIDE DEF n
  <2>6. \A d \in Chars : n.party[d] = party[d] \/ party[d] = NoObj \/ at[d] = m
    BY <2>2, <2>4
  <2>7. QED BY <1>1, <1>2, <1>3, <2>4, <2>5, <2>6, HandlerTyped DEF Rest
<1>7. QED BY <1>4, <1>5, <1>6 DEF MapPartyDisband

LEMMA MapPartyInviteResponseTyped ==
    ASSUME Typed, NEW m \in Maps, MapPartyInviteResponse(m)
    PROVE  Typed'
<1>1. Rest
  BY TypedParts DEF Typed
<1>2. Receive(m, "PartyInviteResponse") /\ UNCHANGED <<addr, at, zoned, reload, invite, task, acts>>
  BY DEF MapPartyInviteResponse
<1>3. /\ toMap' \in [Maps -> Seq(Message)] /\ task[m] = NoTask
      /\ Head(toMap[m]).who \in Chars /\ Head(toMap[m]).from \in Chars
  BY <1>2, Received
<1>4. PICK a \in Chars : a = Head(toMap[m]).who
  BY <1>3
<1>5. PICK c \in Chars : c = Head(toMap[m]).from
  BY <1>3
<1>6. Sound(Book, at, addr) /\ Book.party = party
  BY BookSound DEF Typed
<1> DEFINE f == Founded(Book, a)
           h == AddThere(f, f.party[a], c)
<1>7. \/ Become(Book, m)
      \/ a \in Here(m) /\ Become(f, m)
      \/ a \in Here(m) /\ Leads(f, a) /\ Become(h, m)
  BY <1>4, <1>5 DEF MapPartyInviteResponse
<1>8. CASE Become(Book, m)
  BY <1>1, <1>2, <1>3, <1>6, <1>8, HandlerTyped DEF Rest
<1>9. ASSUME a \in Here(m)
      PROVE  Sound(f, at, addr) /\ \A d \in Chars : f.party[d] = party[d] \/ (party[d] = NoObj /\ d = a)
  <2>1. at[a] # NoMap
    BY <1>9, Names DEF Here
  <2>2. QED BY <1>6, <2>1, FoundedSound
<1> HIDE DEF f
<1>10. CASE a \in Here(m) /\ Become(f, m)
  <2>1. \A d \in Chars : f.party[d] = party[d] \/ party[d] = NoObj \/ at[d] = m
    BY <1>9, <1>10
  <2>2. QED BY <1>1, <1>2, <1>3, <1>9, <1>10, <2>1, HandlerTyped DEF Rest
<1>11. CASE a \in Here(m) /\ Leads(f, a) /\ Become(h, m)
  <2> DEFINE o == f.party[a]
  <2>1. o \in Objs /\ f.pid[o] \in Chars
    BY <1>9, <1>11, BookFields DEF Sound, Leads
  <2>2. Sound(h, at, addr) /\ h.party = f.party
    BY <1>9, <1>11, <2>1, AddThereSound
  <2> HIDE DEF h
  <2>3. \A d \in Chars : h.party[d] = party[d] \/ party[d] = NoObj \/ at[d] = m
    BY <1>9, <1>11, <2>2
  <2>4. QED BY <1>1, <1>2, <1>3, <1>11, <2>2, <2>3, HandlerTyped DEF Rest
<1>12. QED BY <1>7, <1>8, <1>10, <1>11

(* ReloadParty gives the character an object of its row's party.           *)
LEMMA LinkedSound ==
    ASSUME Typed, NEW c \in Chars, at[c] \in Maps, row[c] # NoRow
    PROVE  /\ Sound(Linked(c), at, addr) /\ Linked(c).row = row /\ Linked(c).ldr = ldr /\ Linked(c).out = << >>
           /\ Linked(c).party[c] \in Objs /\ Linked(c).pid[Linked(c).party[c]] = row[c].party
           /\ \A d \in Chars \ {c} : Linked(c).party[d] = party[d]
           /\ \A x \in Objs \ {Linked(c).party[c]} : Linked(c).pid[x] = pid[x]
           /\ \/ party[c] = Linked(c).party[c]
              \/ party[c] = NoObj /\ Linked(c).party[c] \in Known(at[c], row[c].party)
              \/ party[c] = NoObj /\ \A d \in Chars : party[d] # Linked(c).party[c]
<1>1. /\ Sound(Book, at, addr) /\ Book \in Books /\ Book.row = row /\ Book.party = party /\ Book.pid = pid
      /\ Book.ldr = ldr /\ Book.out = << >>
  BY BookSound DEF Typed, Sound
<1>2. PICK p \in Chars : p = row[c].party
  BY <1>1, BookFields DEF Row
<1>3. PICK B : B = Book
  OBVIOUS
<1> DEFINE o == IF party[c] # NoObj THEN party[c]
                ELSE IF Known(at[c], p) # {} THEN CHOOSE x \in Known(at[c], p) : TRUE ELSE FreeObj(Book)
<1>4. /\ o \in Objs
      /\ \/ party[c] = o
         \/ party[c] = NoObj /\ o \in Known(at[c], p)
         \/ party[c] = NoObj /\ \A d \in Chars : party[d] # o
  <2>1. CASE party[c] # NoObj
    BY <1>1, <2>1, BookFields
  <2>2. CASE party[c] = NoObj /\ Known(at[c], p) # {}
    <3>1. o \in Known(at[c], p)
      BY <2>2
    <3> HIDE DEF o
    <3>2. o \in Objs
      BY <3>1, KnownHere
    <3>3. QED BY <2>2, <3>1, <3>2
  <2>3. CASE party[c] = NoObj /\ Known(at[c], p) = {}
    BY <1>1, <2>3, FreeObjExists
  <2>4. QED BY <2>1, <2>2, <2>3
<1>5. \A d \in Chars : party[d] = o => at[d] = at[c]
  <2> HIDE DEF o
  <2>1. CASE party[c] = o
    BY <1>1, <1>4, <2>1, Names DEF Sound
  <2>2. CASE o \in Known(at[c], p)
    BY <2>2, KnownHere
  <2>3. QED BY <1>4, <2>1, <2>2
<1> DEFINE q == [B.pid EXCEPT ![o] = p]
           n == [B EXCEPT !.pid = q]
<1>6. /\ q \in [Objs -> Chars \cup {NoOne}] /\ q[o] = p /\ \A x \in Objs \ {o} : q[x] = pid[x]
  BY <1>1, <1>3, <1>4, BookFields
<1>7. Linked(c) = IF party[c] # NoObj THEN n ELSE [n EXCEPT !.party[c] = o]
  <2>1. CASE party[c] # NoObj
    BY <1>2, <1>3, <2>1 DEF Linked
  <2>2. CASE party[c] = NoObj
    <3>1. Linked(c) = [B EXCEPT !.party[c] = o, !.pid[o] = p]
      BY <1>2, <1>3, <2>2 DEF Linked
    <3>2. [B EXCEPT !.party[c] = o, !.pid[o] = p] = [n EXCEPT !.party[c] = o]
      <4> HIDE DEF o
      <4>1. [B EXCEPT !.party[c] = o, !.pid[o] = p] = [B EXCEPT !.party[c] = o, !.pid = q]
        OBVIOUS
      <4>2. QED BY <1>1, <1>3, <4>1 DEF Books
    <3>3. QED BY <2>2, <3>1, <3>2
  <2>3. QED BY <2>1, <2>2
<1> HIDE DEF o, q
<1>8. /\ n \in Books /\ n.row = row /\ n.party = party /\ n.ldr = ldr /\ n.out = << >> /\ n.pid = q
  BY <1>1, <1>3, <1>6 DEF Books
<1> HIDE DEF n
<1>9. Sound(n, at, addr)
  <2>1. \A x \in Objs : n.pid[x] = Book.pid[x] \/ n.pid[x] # NoOne
    BY <1>1, <1>6, <1>8, Names
  <2>2. \A d \in Chars : addr[d] = NoMap => n.row[d] = NoRow
    BY <1>1, <1>8 DEF Sound
  <2>3. QED BY <1>1, <1>8, <2>1, <2>2, SoundRows
<1>10. CASE party[c] # NoObj
  <2>1. Linked(c) = n /\ o = party[c]
    BY <1>7, <1>10 DEF o
  <2>2. QED BY <1>2, <1>4, <1>6, <1>8, <1>9, <2>1
<1>11. CASE party[c] = NoObj
  <2> DEFINE j == [n EXCEPT !.party[c] = o]
  <2>1. at[c] # NoMap /\ n.pid[o] # NoOne /\ \A d \in Chars : n.party[d] = o => at[d] = at[c]
    BY <1>5, <1>6, <1>8, Names
  <2>2. /\ Sound(j, at, addr)
        /\ j.row = n.row /\ j.pid = n.pid /\ j.ldr = n.ldr /\ j.out = n.out
        /\ \A d \in Chars : j.party[d] = IF d = c THEN o ELSE n.party[d]
    BY <1>4, <1>9, <2>1, JoinSound
  <2>3. Linked(c) = j
    BY <1>7, <1>11
  <2> HIDE DEF j
  <2>4. j.party[c] = o
    BY <2>2
  <2>5. QED BY <1>2, <1>4, <1>6, <1>8, <1>11, <2>2, <2>3, <2>4
<1>12. QED BY <1>10, <1>11

LEMMA ReloadPartyTyped ==
    ASSUME Typed, NEW c \in Chars, ReloadParty(c)
    PROVE  Typed'
<1>1. Rest /\ at[c] \in Maps /\ task[at[c]] = NoTask /\ row[c] # NoRow
  BY TypedParts DEF Typed, ReloadParty, Due, Rest
<1>2. UNCHANGED <<addr, at, zoned, invite, task, toMap, acts>>
  BY DEF ReloadParty
<1>3. PICK b : b = Linked(c)
  OBVIOUS
<1>4. Sound(b, at, addr) /\ b.party[c] \in Objs /\ \A d \in Chars \ {c} : b.party[d] = party[d]
  BY <1>1, <1>3, LinkedSound
<1>5. PICK o \in Objs : o = b.party[c]
  BY <1>4
<1>6. PICK l \in LeaderViews(b, o) : Become([b EXCEPT !.ldr[o] = l], at[c])
  BY <1>3, <1>5 DEF ReloadParty
<1>7. reload' \subseteq Chars
  BY <1>1 DEF ReloadParty, Rest
<1> DEFINE n == [b EXCEPT !.ldr[o] = l]
<1>8. Sound(n, at, addr) /\ n.party = b.party
  BY <1>4, RefreshSound
<1>9. Become(n, at[c])
  BY <1>6
<1> HIDE DEF n
<1>10. \A d \in Chars : n.party[d] = party[d] \/ party[d] = NoObj \/ at[d] = at[c]
  BY <1>4, <1>8
<1>11. QED BY <1>1, <1>2, <1>7, <1>8, <1>9, <1>10, HandlerTyped DEF Rest

LEMMA DelMemberTyped ==
    ASSUME Typed, NEW c \in Chars, DelMember(c)
    PROVE  Typed'
<1>1. Rest /\ at[c] \in Maps /\ task[at[c]] = NoTask
  BY TypedParts DEF Typed, DelMember, Due, Rest
<1>2. UNCHANGED <<addr, at, zoned, invite, toMap, acts>> /\ reload' \subseteq Chars
  BY <1>1 DEF DelMember, Rest
<1>3. Sound(Book, at, addr) /\ Book.party = party
  BY BookSound DEF Typed
<1>4. CASE UNCHANGED <<bookVars, task, toWorld>>
  <2>1. Rest'
    BY <1>1, <1>2, <1>4 DEF Rest
  <2>2. TaskHere'
    BY <1>2, <1>4, TasksKept DEF bookVars
  <2>3. QED BY <1>2, <1>4, <2>1, <2>2, BookStays, TypedPartsNext DEF Typed
<1>5. CASE party[c] # NoObj /\ RemovePartyLeader(Book, c, "reload")
  <2>1. (\E n : Removed(n, Book, c)) \/ (\E x \in Chars : BeingRemoved(Book, c, "reload", x))
    BY <1>3, <1>5, RemoveLeaderResult
  <2>2. CASE \E n : Removed(n, Book, c)
    <3>1. PICK n : Removed(n, Book, c)
      BY <2>2
    <3>2. \A d \in Chars : n.party[d] = party[d] \/ party[d] = NoObj \/ at[d] = at[c]
      BY <1>3, <3>1 DEF Removed, Sound
    <3>3. QED BY <1>1, <1>2, <3>1, <3>2, HandlerTyped DEF Rest, Removed
  <2>3. CASE \E x \in Chars : BeingRemoved(Book, c, "reload", x)
    <3>1. PICK x \in Chars : BeingRemoved(Book, c, "reload", x)
      BY <2>3
    <3>2. Sound(Book', at', addr') /\ party' = party /\ toWorld' \in [Maps -> Seq(Message)]
      BY <1>1, <1>2, <1>3, <3>1, BecomeSound DEF Rest, BeingRemoved
    <3>3. TaskHere' /\ task' \in [Maps -> Task \cup {NoTask}]
      BY <1>1, <1>2, <3>1, <3>2, BeingRemovedTasks
    <3>4. Rest'
      BY <1>1, <1>2, <3>2, <3>3 DEF Rest
    <3>5. QED BY <3>2, <3>3, <3>4, TypedPartsNext DEF Typed
  <2>4. QED BY <2>1, <2>2, <2>3
<1>6. CASE /\ party[c] # NoObj /\ UNCHANGED task
           /\ \E l \in LeaderViews([Book EXCEPT !.party[c] = NoObj], party[c]) :
                 Become([[Book EXCEPT !.party[c] = NoObj] EXCEPT !.ldr[party[c]] = l], at[c])
  <2>1. PICK b : b = [Book EXCEPT !.party[c] = NoObj]
    OBVIOUS
  <2>2. Sound(b, at, addr) /\ \A d \in Chars : b.party[d] = IF d = c THEN NoObj ELSE Book.party[d]
    BY <1>3, <2>1, QuitSound, ZenonT(60)
  <2>3. PICK o \in Objs : o = party[c]
    BY <1>3, <1>6, BookFields DEF Sound
  <2>4. PICK l \in LeaderViews(b, o) : Become([b EXCEPT !.ldr[o] = l], at[c])
    BY <1>6, <2>1, <2>3
  <2> DEFINE n == [b EXCEPT !.ldr[o] = l]
  <2>5. Sound(n, at, addr) /\ n.party = b.party
    BY <2>2, RefreshSound
  <2>6. Become(n, at[c])
    BY <2>4
  <2> HIDE DEF n
  <2>7. \A d \in Chars : n.party[d] = party[d] \/ party[d] = NoObj \/ at[d] = at[c]
    BY <1>3, <2>2, <2>5
  <2>8. QED BY <1>1, <1>2, <1>6, <2>5, <2>6, <2>7, HandlerTyped DEF Rest
<1>7. QED BY <1>4, <1>5, <1>6 DEF DelMember

LEMMA TypedInit ==
    ASSUME Init
    PROVE  Typed
<1>1. 0 \in 0..MaxActs /\ << >> \in Seq(Message)
  BY Names
<1>2. Rest /\ TaskHere
  BY <1>1, Names DEF Init, Rest, TaskHere
<1>3. Sound(Book, at, addr)
  <2>1. Book.row = row /\ Book.party = party /\ Book.pid = pid /\ Book \in Books
    BY <1>1 DEF Book, Books, Init
  <2>2. QED BY <2>1, Names DEF Sound, Init
<1>4. QED BY <1>2, <1>3, TypedParts DEF Typed

LEMMA TypedNext ==
    ASSUME Typed, [Next]_vars
    PROVE  Typed'
<1>1. ASSUME NEW c \in Chars, PlayerNext(c) PROVE Typed'
  <2>1. CASE \E d \in Chars : Invite(c, d) \/ Strike(c, d) \/ PassLead(c, d)
    BY <2>1, InviteTyped, StrikeTyped, PassLeadTyped
  <2>2. CASE \E m \in Maps : ZoneOut(c, m)
    BY <2>2, ZoneOutTyped
  <2>3. CASE \E b \in BOOLEAN : Depart(c, b) \/ Logoff(c, b)
    BY <2>3, DepartTyped, LogoffTyped
  <2>4. QED BY <1>1, <2>1, <2>2, <2>3, AcceptTyped, DeclineTyped, LeaveTyped, BreakupTyped, ArriveTyped,
               LoseTyped, TimeOutTyped DEF PlayerNext
<1>2. ASSUME NEW c \in Chars, PostTick(c) PROVE Typed'
  BY <1>2, ReloadPartyTyped, DelMemberTyped DEF PostTick
<1>3. ASSUME NEW m \in Maps, WorldHandle(m) \/ MapHandle(m) PROVE Typed'
  BY <1>3, WorldHandleTyped, NoticeTyped, MapPartyDisbandTyped, MapPartyInviteResponseTyped,
     FinishRemovalTyped DEF MapHandle
<1>4. CASE UNCHANGED vars
  <2>1. /\ UNCHANGED bookVars
        /\ UNCHANGED <<addr, at, zoned, reload, invite, task, toWorld, toMap, acts>>
    BY <1>4 DEF vars
  <2>2. Rest'
    BY <2>1, TypedParts DEF Typed, Rest
  <2>3. TaskHere'
    BY <2>1, TasksKept DEF bookVars
  <2>4. QED BY <2>1, <2>2, <2>3, BookStays, TypedPartsNext DEF Typed
<1>5. QED BY <1>1, <1>2, <1>3, <1>4 DEF Next

(* Every variable keeps its type, a character is in one place, members of  *)
(* a CParty are on one map and a party row has its session row, whatever   *)
(* order messages, reloads and the players' packets come in (the handlers  *)
(* of CParty, charutils::ReloadParty, the ON DELETE CASCADE).              *)
THEOREM PartyTypeCorrect == Spec => []TypeOK
<1>1. Init => Typed
  BY TypedInit
<1>2. Typed /\ [Next]_vars => Typed'
  BY TypedNext
<1>3. QED BY <1>1, <1>2, PTL DEF Spec, Typed

-----------------------------------------------------------------------------
(* Who leads and who is told. What the methods of CParty do to the leader  *)
(* pointers of a book, and to those who are in a party's rows but in no    *)
(* object yet.                                                             *)

(* An object in use points to a member, or to no character.                *)
Pointed(b) ==
    \A o \in Objs, d \in Chars : b.party[d] = o /\ b.ldr[o] \in Chars => b.party[b.ldr[o]] = o

(* c is in the rows of p, a party that is headed, and has no object.       *)
Fellow(b, c, p) == b.row[c] # NoRow /\ b.row[c].party = p
Waits(b, c, p)  == b.party[c] = NoObj /\ Fellow(b, c, p) /\ Fellow(b, p, p)

(* Between the books z and b, whoever came to wait for a party was told.   *)
Tells(z, b) == \A c, p \in Chars : Waits(b, c, p) => Waits(z, c, p) \/ Among(PartyReload(p), b.out)
Fit(z, b)   == Pointed(b) /\ Tells(z, b)

LEMMA AmongFacts ==
    ASSUME NEW q \in Seq(Message), NEW p \in Message
    PROVE  /\ ~Among(p, << >>)
           /\ \A r \in Seq(Message) : Among(p, q) \/ Among(p, r) => Among(p, q \o r)
           /\ \A r \in Message : Among(p, q) \/ p = r => Among(p, Append(q, r))
           /\ q # << >> /\ Among(p, q) /\ Head(q) # p => Among(p, Tail(q))
<1>1. ~Among(p, << >>)
  BY DEF Among
<1>2. ASSUME NEW r \in Seq(Message), Among(p, q) \/ Among(p, r) PROVE Among(p, q \o r)
  <2>1. /\ Len(q) \in Nat /\ Len(r) \in Nat /\ Len(q \o r) = Len(q) + Len(r)
        /\ \A i \in 1..(Len(q) + Len(r)) : (q \o r)[i] = IF i <= Len(q) THEN q[i] ELSE r[i - Len(q)]
    BY <1>2
  <2>2. CASE Among(p, q)
    <3>1. PICK i \in 1..Len(q) : q[i] = p
      BY <2>2 DEF Among
    <3>2. i \in 1..(Len(q) + Len(r)) /\ (q \o r)[i] = p
      BY <2>1, <3>1
    <3>3. QED BY <2>1, <3>2 DEF Among
  <2>3. CASE Among(p, r)
    <3>1. PICK i \in 1..Len(r) : r[i] = p
      BY <2>3 DEF Among
    <3>2. Len(q) + i \in 1..(Len(q) + Len(r)) /\ (q \o r)[Len(q) + i] = p
      BY <2>1, <3>1
    <3>3. QED BY <2>1, <3>2 DEF Among
  <2>4. QED BY <1>2, <2>2, <2>3
<1>3. ASSUME NEW r \in Message, Among(p, q) \/ p = r PROVE Among(p, Append(q, r))
  BY <1>3 DEF Among
<1>4. ASSUME q # << >>, Among(p, q), Head(q) # p PROVE Among(p, Tail(q))
  <2>1. PICK i \in 1..Len(q) : q[i] = p
    BY <1>4 DEF Among
  <2>2. i # 1
    BY <1>4, <2>1
  <2>3. i - 1 \in 1..Len(Tail(q)) /\ Tail(q)[i - 1] = p
    BY <1>4, <2>1, <2>2
  <2>4. QED BY <2>3 DEF Among
<1>5. QED BY <1>1, <1>2, <1>3, <1>4

LEMMA ReloadFields ==
    ASSUME NEW c \in Chars
    PROVE  /\ PartyReload(c) \in Message /\ PartyReload(c).type = "PartyReload" /\ PartyReload(c).who = c
BY MessageTypes DEF PartyReload

(* Nobody comes to wait if rows only go and messages stay.                 *)
LEMMA TellsStill ==
    ASSUME NEW z, NEW b \in Books, Tells(z, b), NEW n,
           \A c, p \in Chars : Waits(n, c, p) => Waits(b, c, p) \/ Among(PartyReload(p), n.out),
           n.out = b.out \/ \E r \in Message : n.out = Append(b.out, r)
    PROVE  Tells(z, n)
<1>1. ASSUME NEW p \in Chars, Among(PartyReload(p), b.out) PROVE Among(PartyReload(p), n.out)
  <2>1. PICK q \in Seq(Message) : q = b.out
    BY BookFields
  <2>2. PICK w \in Message : w = PartyReload(p)
    BY ReloadFields
  <2>3. ASSUME NEW r \in Message, n.out = Append(q, r) PROVE Among(w, n.out)
    BY <1>1, <2>1, <2>2, <2>3, AmongFacts
  <2>4. QED BY <1>1, <2>1, <2>2, <2>3
<1>2. QED BY <1>1 DEF Tells

LEMMA FitRowGone ==
    ASSUME NEW z, NEW b \in Books, Fit(z, b), NEW c \in Chars, NEW n,
           n.party = b.party, n.ldr = b.ldr, n.out = b.out,
           \A d \in Chars : n.row[d] = IF d = c THEN NoRow ELSE b.row[d]
    PROVE  Fit(z, n)
<1>1. Pointed(n)
  BY DEF Fit, Pointed
<1>2. \A d, p \in Chars : Waits(n, d, p) => Waits(b, d, p)
  BY DEF Waits, Fellow
<1>3. QED BY <1>1, <1>2, TellsStill DEF Fit

LEMMA FitAddHere ==
    ASSUME NEW z, NEW b, NEW pos, Sound(b, pos, addr), Fit(z, b), NEW c \in Chars, NEW o \in Objs,
           pos[c] # NoMap, b.pid[o] \in Chars, \A d \in Chars : b.party[d] = o => pos[d] = pos[c],
           b.ldr[o] \in Chars => b.party[b.ldr[o]] = o
    PROVE  Fit(z, AddHere(b, o, c))
<1> DEFINE h == AddHere(b, o, c)
<1>1. /\ Sound(h, pos, addr) /\ h.pid = b.pid /\ h.ldr = b.ldr
      /\ \/ h = b
         \/ /\ b.party[c] = NoObj /\ h.out = Append(b.out, PartyReload(b.pid[o]))
            /\ \A d \in Chars : h.party[d] = IF d = c THEN o ELSE b.party[d]
            /\ \A d \in Chars : h.row[d] = IF d = c /\ b.row[c] = NoRow /\ addr[c] # NoMap
                                           THEN [party |-> b.pid[o], leader |-> FALSE] ELSE b.row[d]
  BY AddHereSound
<1> HIDE DEF h
<1>2. CASE h = b
  BY <1>2 DEF h
<1>3. CASE h # b
  <2>1. b \in Books /\ o # NoObj /\ PartyReload(b.pid[o]) \in Message /\ b.out \in Seq(Message)
    BY BookFields, Names, ReloadFields DEF Sound
  <2>2. Pointed(h)
    <3> SUFFICES ASSUME NEW x \in Objs, NEW d \in Chars, h.party[d] = x, h.ldr[x] \in Chars
                 PROVE  h.party[h.ldr[x]] = x
      BY DEF Pointed
    <3>1. b.party[b.ldr[x]] = x
      BY <1>1, <1>3 DEF Fit, Pointed
    <3>2. b.ldr[x] # c
      BY <1>1, <1>3, <3>1, Names
    <3>3. QED BY <1>1, <1>3, <3>1, <3>2
  <2>3. ASSUME NEW d \in Chars, NEW p \in Chars, Waits(h, d, p)
        PROVE  Waits(b, d, p) \/ Among(PartyReload(p), h.out)
    <3>1. d # c /\ h.row[d] = b.row[d] /\ b.party[d] = NoObj
      BY <1>1, <1>3, <2>1, <2>3 DEF Waits
    <3>2. CASE h.row[p] = b.row[p]
      BY <2>3, <3>1, <3>2 DEF Waits, Fellow
    <3>3. CASE h.row[p] # b.row[p]
      <4>1. h.row[p] = [party |-> b.pid[o], leader |-> FALSE]
        BY <1>1, <1>3, <3>3
      <4>2. h.row[p].party = b.pid[o]
        BY <4>1
      <4>3. p = b.pid[o]
        BY <2>3, <4>2 DEF Waits, Fellow
      <4>4. QED BY <1>1, <1>3, <2>1, <4>3, AmongFacts
    <3>4. QED BY <3>2, <3>3
  <2>4. QED BY <1>1, <1>3, <2>1, <2>2, <2>3, TellsStill DEF Fit, h
<1>4. QED BY <1>2, <1>3

LEMMA FitAddThere ==
    ASSUME NEW z, NEW b, NEW pos, Sound(b, pos, addr), Fit(z, b), NEW c \in Chars, NEW o \in Objs,
           b.pid[o] \in Chars
    PROVE  Fit(z, AddThere(b, o, c))
<1> DEFINE h == AddThere(b, o, c)
<1>1. /\ h.party = b.party /\ h.ldr = b.ldr
      /\ \/ h = b
         \/ /\ h.out = Append(b.out, PartyReload(b.pid[o]))
            /\ \A d \in Chars : h.row[d] = IF d = c /\ b.row[c] = NoRow /\ addr[c] # NoMap
                                           THEN [party |-> b.pid[o], leader |-> FALSE] ELSE b.row[d]
  BY AddThereSound
<1> HIDE DEF h
<1>2. CASE h = b
  BY <1>2 DEF h
<1>3. CASE h # b
  <2>1. b \in Books /\ PartyReload(b.pid[o]) \in Message /\ b.out \in Seq(Message)
    BY BookFields, ReloadFields DEF Sound
  <2>2. Pointed(h)
    BY <1>1 DEF Fit, Pointed
  <2>3. ASSUME NEW d \in Chars, NEW p \in Chars, Waits(h, d, p)
        PROVE  Waits(b, d, p) \/ Among(PartyReload(p), h.out)
    <3>1. CASE h.row[d] = b.row[d] /\ h.row[p] = b.row[p]
      BY <1>1, <2>3, <3>1 DEF Waits, Fellow
    <3>2. ASSUME NEW x \in {d, p}, h.row[x] # b.row[x]
          PROVE  Among(PartyReload(p), h.out)
      <4>1. h.row[x] = [party |-> b.pid[o], leader |-> FALSE]
        BY <1>1, <1>3, <3>2
      <4>2. h.row[x].party = b.pid[o]
        BY <4>1
      <4>3. p = b.pid[o]
        BY <2>3, <3>2, <4>2 DEF Waits, Fellow
      <4>4. QED BY <1>1, <1>3, <2>1, <4>3, AmongFacts
    <3>3. QED BY <3>1, <3>2
  <2>4. QED BY <1>1, <1>3, <2>1, <2>2, <2>3, TellsStill DEF Fit, h
<1>4. QED BY <1>2, <1>3

LEMMA FitFounded ==
    ASSUME NEW z, NEW b, NEW pos, Sound(b, pos, addr), Fit(z, b), NEW a \in Chars, pos[a] # NoMap
    PROVE  Fit(z, Founded(b, a))
<1>1. CASE b.party[a] # NoObj
  BY <1>1, FoundedSound
<1>2. CASE b.party[a] = NoObj
  <2> DEFINE f == Founded(b, a)
  <2>1. PICK o \in Objs : NewParty(b, f, a, o)
    BY <1>2, FoundedSound
  <2>2. \A d \in Chars : f.party[d] = b.party[d] \/ (b.party[d] = NoObj /\ d = a)
    BY FoundedSound
  <2> HIDE DEF f
  <2>3. b \in Books /\ o # NoObj /\ PartyReload(a) \in Message /\ b.out \in Seq(Message)
    BY BookFields, Names, ReloadFields DEF Sound
  <2>4. Pointed(f)
    <3> SUFFICES ASSUME NEW x \in Objs, NEW d \in Chars, f.party[d] = x, f.ldr[x] \in Chars
                 PROVE  f.party[f.ldr[x]] = x
      BY DEF Pointed
    <3>1. CASE x = o
      BY <2>1, <3>1, Names DEF NewParty
    <3>2. CASE x # o
      <4>1. b.party[d] = x /\ b.ldr[x] = f.ldr[x]
        BY <2>1, <2>2, <3>2, Names DEF NewParty
      <4>2. b.party[f.ldr[x]] = x
        BY <4>1 DEF Fit, Pointed
      <4>3. QED BY <2>2, <4>2, Names
    <3>3. QED BY <3>1, <3>2
  <2>5. ASSUME NEW d \in Chars, NEW p \in Chars, Waits(f, d, p)
        PROVE  Waits(b, d, p) \/ Among(PartyReload(p), f.out)
    <3>1. b.party[d] = NoObj
      BY <1>2, <2>2, <2>5 DEF Waits
    <3>2. CASE f.party[a] # o \/ p # a
      <4>1. /\ b.row[d] # NoRow /\ f.row[d].party = b.row[d].party
            /\ b.row[p] # NoRow /\ f.row[p].party = b.row[p].party
        BY <2>1, <2>5, <3>2 DEF NewParty, Waits, Fellow
      <4>2. QED BY <2>5, <3>1, <4>1 DEF Waits, Fellow
    <3>3. CASE f.party[a] = o /\ p = a
      BY <2>1, <2>3, <3>3, AmongFacts DEF NewParty
    <3>4. QED BY <3>2, <3>3
  <2>6. f.out = b.out \/ \E r \in Message : f.out = Append(b.out, r)
    BY <2>1, <2>3 DEF NewParty
  <2>7. QED BY <2>3, <2>4, <2>5, <2>6, TellsStill DEF Fit, f
<1>3. QED BY <1>1, <1>2

(* SetLeader: who waits in a renamed party waits for its new name.         *)
LEMMA SetLeaderWaits ==
    ASSUME NEW b, NEW pos, Sound(b, pos, addr), Pointed(b), NEW o \in Objs, b.pid[o] \in Chars,
           NEW n \in Chars, NEW s, s = SetLeader(b, o, n)
    PROVE  /\ Sound(s, pos, addr) /\ s.party = b.party /\ s.out = b.out /\ s.pid[o] \in Chars /\ Pointed(s)
           /\ \A d, p \in Chars : Waits(s, d, p) => Waits(b, d, p) \/ (addr[n] # NoMap /\ p = s.pid[o])
           /\ addr[n] # NoMap => s.pid[o] = n
           /\ s.ldr[o] = b.ldr[o] \/ s.ldr[o] \in {n, NoOne}
           /\ addr[n] = NoMap => s = b
<1>1. /\ Sound(s, pos, addr) /\ s.party = b.party /\ s.out = b.out
      /\ addr[n] = NoMap => s = b
      /\ addr[n] # NoMap =>
           /\ s.pid[o] = n /\ s.ldr[o] = IF n \in Members(b, o) THEN n ELSE NoOne
           /\ \A x \in Objs \ {o} : s.pid[x] = b.pid[x] /\ s.ldr[x] = b.ldr[x]
           /\ \A c \in Chars : s.row[c] = IF c \in Rows(b, b.pid[o]) THEN [party |-> n, leader |-> c = n]
                                          ELSE IF c = n /\ b.row[c] # NoRow
                                               THEN [party |-> b.row[c].party, leader |-> TRUE]
                                               ELSE b.row[c]
  BY SetLeaderSound
<1>2. CASE addr[n] = NoMap
  BY <1>1, <1>2
<1>3. CASE addr[n] # NoMap
  <2>1. Pointed(s)
    <3> SUFFICES ASSUME NEW x \in Objs, NEW d \in Chars, s.party[d] = x, s.ldr[x] \in Chars
                 PROVE  s.party[s.ldr[x]] = x
      BY DEF Pointed
    <3>1. CASE x = o
      BY <1>1, <1>3, <3>1, Names DEF Members
    <3>2. CASE x # o
      BY <1>1, <1>3, <3>2 DEF Pointed
    <3>3. QED BY <3>1, <3>2
  <2>2. ASSUME NEW c \in Chars, s.row[c] # NoRow
        PROVE  b.row[c] # NoRow /\ (s.row[c].party = b.row[c].party \/ s.row[c].party = n)
    <3>1. CASE c \in Rows(b, b.pid[o])
      <4>1. s.row[c] = [party |-> n, leader |-> c = n]
        BY <1>1, <1>3, <3>1
      <4>2. s.row[c].party = n
        BY <4>1
      <4>3. QED BY <3>1, <4>2 DEF Rows
    <3>2. CASE c \notin Rows(b, b.pid[o]) /\ c = n /\ b.row[c] # NoRow
      <4>1. s.row[c] = [party |-> b.row[c].party, leader |-> TRUE]
        BY <1>1, <1>3, <3>2
      <4>2. s.row[c].party = b.row[c].party
        BY <4>1
      <4>3. QED BY <3>2, <4>2
    <3>3. CASE c \notin Rows(b, b.pid[o]) /\ ~(c = n /\ b.row[c] # NoRow)
      BY <1>1, <1>3, <2>2, <3>3
    <3>4. QED BY <3>1, <3>2, <3>3
  <2>3. \A d, p \in Chars : Waits(s, d, p) => Waits(b, d, p) \/ p = n
    BY <1>1, <2>2 DEF Waits, Fellow
  <2>4. s.ldr[o] \in {n, NoOne}
    BY <1>1, <1>3
  <2>5. QED BY <1>1, <1>3, <2>1, <2>3, <2>4
<1>4. QED BY <1>2, <1>3

(* ... and is told with the message that follows.                          *)
LEMMA FitPassed ==
    ASSUME NEW z, NEW b, NEW pos, Sound(b, pos, addr), Fit(z, b), NEW o \in Objs, b.pid[o] \in Chars,
           NEW n \in Chars, NEW s, s = SetLeader(b, o, n)
    PROVE  Fit(z, Say(s, PartyReload(s.pid[o])))
<1>1. /\ Sound(s, pos, addr) /\ s.party = b.party /\ s.out = b.out /\ s.pid[o] \in Chars /\ Pointed(s)
      /\ \A d, p \in Chars : Waits(s, d, p) => Waits(b, d, p) \/ p = s.pid[o]
  BY SetLeaderWaits DEF Fit
<1>2. PICK w \in Message : w = PartyReload(s.pid[o])
  BY <1>1, ReloadFields
<1> DEFINE t == Say(s, w)
<1>3. /\ t.row = s.row /\ t.party = s.party /\ t.ldr = s.ldr /\ t.out = Append(b.out, w)
  BY <1>1, SaySound
<1> HIDE DEF t
<1>4. b \in Books /\ b.out \in Seq(Message)
  BY BookFields DEF Sound
<1>5. Pointed(t)
  BY <1>1, <1>3 DEF Pointed
<1>6. \A d, p \in Chars : Waits(t, d, p) => Waits(b, d, p) \/ Among(PartyReload(p), t.out)
  BY <1>1, <1>2, <1>3, <1>4, AmongFacts DEF Waits, Fellow
<1>7. Fit(z, t)
  BY <1>3, <1>4, <1>5, <1>6, TellsStill DEF Fit
<1>8. QED BY <1>2, <1>7 DEF t

(* RemoveMember of a character nobody points to, whatever was renamed      *)
(* before.                                                                 *)
LEMMA FitRemoved ==
    ASSUME NEW z, NEW b \in Books, Fit(z, b), NEW s, NEW pos, Sound(s, pos, addr), Pointed(s), s.out = b.out,
           NEW c \in Chars, s.party[c] \in Objs, s.ldr[s.party[c]] # c,
           \A d, p \in Chars : Waits(s, d, p) => Waits(b, d, p) \/ p = s.pid[s.party[c]]
    PROVE  Fit(z, RemoveMember(s, c))
<1> DEFINE r == RemoveMember(s, c)
           o == s.party[c]
<1>1. /\ r.ldr = s.ldr /\ s.pid[o] \in Chars /\ r.out = Append(b.out, PartyReload(s.pid[o]))
      /\ \A d \in Chars : r.party[d] = IF d = c THEN NoObj ELSE s.party[d]
      /\ \A d \in Chars : r.row[d] = IF d = c THEN NoRow ELSE s.row[d]
  BY RemoveMemberSound, Names
<1> HIDE DEF r
<1>2. PICK w \in Message : w = PartyReload(s.pid[o])
  BY <1>1, ReloadFields
<1>3. Pointed(r)
  <2> SUFFICES ASSUME NEW x \in Objs, NEW d \in Chars, r.party[d] = x, r.ldr[x] \in Chars
               PROVE  r.party[r.ldr[x]] = x
    BY DEF Pointed
  <2>1. s.party[d] = x /\ s.party[s.ldr[x]] = x
    BY <1>1, Names DEF Pointed
  <2>2. s.ldr[x] # c
    BY <2>1
  <2>3. QED BY <1>1, <2>1, <2>2
<1>4. \A d, p \in Chars : Waits(r, d, p) => Waits(s, d, p)
  BY <1>1 DEF Waits, Fellow
<1>5. b.out \in Seq(Message)
  BY BookFields
<1>6. \A d, p \in Chars : Waits(r, d, p) => Waits(b, d, p) \/ Among(PartyReload(p), r.out)
  BY <1>1, <1>2, <1>4, <1>5, AmongFacts
<1>7. Fit(z, r)
  BY <1>1, <1>2, <1>3, <1>6, TellsStill DEF Fit
<1>8. QED BY <1>7 DEF r

(* A party is broken up, after a leader of it gave it a name nobody has.   *)
LEMMA FitDisbanded ==
    ASSUME NEW z, NEW b \in Books, Fit(z, b), NEW s, Pointed(s),
           NEW o \in Objs, NEW r, r.ldr = s.ldr, r.out = b.out \/ (\E w \in Message : r.out = Append(b.out, w)),
           \A d \in Chars : r.party[d] = IF s.party[d] = o THEN NoObj ELSE s.party[d],
           \A d \in Chars : r.row[d] = IF s.party[d] = o THEN NoRow ELSE s.row[d],
           \A d, p \in Chars : Waits(s, d, p) => Waits(b, d, p) \/ s.party[p] = o
    PROVE  Fit(z, r)
<1>1. Pointed(r)
  <2> SUFFICES ASSUME NEW x \in Objs, NEW d \in Chars, r.party[d] = x, r.ldr[x] \in Chars
               PROVE  r.party[r.ldr[x]] = x
    BY DEF Pointed
  <2>1. s.party[d] = x /\ x # o /\ s.party[s.ldr[x]] = x
    BY Names DEF Pointed
  <2>2. QED BY <2>1
<1>2. \A d, p \in Chars : Waits(r, d, p) => Waits(s, d, p) /\ s.party[p] # o
  BY DEF Waits, Fellow
<1>3. QED BY <1>1, <1>2, TellsStill DEF Fit

LEMMA FitDisband ==
    ASSUME NEW z, NEW b, NEW pos, Sound(b, pos, addr), Fit(z, b), NEW o \in Objs
    PROVE  /\ Fit(z, DisbandParty(b, o))
           /\ b.pid[o] \in Chars => Fit(z, DisbandAndTell(b, o))
<1>1. b \in Books
  BY DEF Sound
<1>2. Fit(z, DisbandParty(b, o))
  <2> DEFINE r == DisbandParty(b, o)
  <2>1. /\ r.ldr = b.ldr /\ r.out = b.out
        /\ \A d \in Chars : r.party[d] = IF b.party[d] = o THEN NoObj ELSE b.party[d]
        /\ \A d \in Chars : r.row[d] = IF b.party[d] = o THEN NoRow ELSE b.row[d]
    BY DisbandSound
  <2> HIDE DEF r
  <2>2. Fit(z, r)
    BY <1>1, <2>1, FitDisbanded DEF Fit
  <2>3. QED BY <2>2 DEF r
<1>3. ASSUME b.pid[o] \in Chars PROVE Fit(z, DisbandAndTell(b, o))
  <2> DEFINE r == DisbandAndTell(b, o)
  <2>1. /\ r.ldr = b.ldr /\ r.out = Append(b.out, PartyDisband(b.pid[o]))
        /\ \A d \in Chars : r.party[d] = IF b.party[d] = o THEN NoObj ELSE b.party[d]
        /\ \A d \in Chars : r.row[d] = IF b.party[d] = o THEN NoRow ELSE b.row[d]
    BY <1>3, DisbandSound
  <2>2. PartyDisband(b.pid[o]) \in Message
    BY <1>3, MessageTypes
  <2> HIDE DEF r
  <2>3. Fit(z, r)
    BY <1>1, <2>1, <2>2, FitDisbanded DEF Fit
  <2>4. QED BY <2>3 DEF r
<1>4. QED BY <1>2, <1>3

LEMMA FitLeaderRemoved ==
    ASSUME NEW z, NEW b, NEW pos, Sound(b, pos, addr), Fit(z, b), NEW c \in Chars, b.party[c] # NoObj,
           NEW next \in Chars
    PROVE  Fit(z, LeaderRemoved(b, c, next))
<1> DEFINE o == b.party[c]
<1>1. b \in Books /\ o \in Objs /\ b.pid[o] \in Chars
  BY BookFields, Names DEF Sound
<1>2. PICK s : s = SetLeader(b, o, next)
  OBVIOUS
<1>3. /\ Sound(s, pos, addr) /\ s.party = b.party /\ s.out = b.out /\ s.pid[o] \in Chars /\ Pointed(s)
      /\ \A d, p \in Chars : Waits(s, d, p) => Waits(b, d, p) \/ (addr[next] # NoMap /\ p = s.pid[o])
      /\ addr[next] # NoMap => s.pid[o] = next
      /\ s.ldr[o] = b.ldr[o] \/ s.ldr[o] \in {next, NoOne}
      /\ addr[next] = NoMap => s = b
  BY <1>1, <1>2, SetLeaderWaits DEF Fit
<1>4. CASE s.ldr[o] = c
  <2> DEFINE r == DisbandAndTell(s, o)
  <2>1. LeaderRemoved(b, c, next) = r
    BY <1>2, <1>4 DEF LeaderRemoved
  <2>2. /\ r.ldr = s.ldr /\ r.out = Append(s.out, PartyDisband(s.pid[o]))
        /\ \A d \in Chars : r.party[d] = IF s.party[d] = o THEN NoObj ELSE s.party[d]
        /\ \A d \in Chars : r.row[d] = IF s.party[d] = o THEN NoRow ELSE s.row[d]
    BY <1>1, <1>3, DisbandSound
  <2>3. PartyDisband(s.pid[o]) \in Message
    BY <1>3, MessageTypes
  <2>4. addr[next] # NoMap => c = next
    BY <1>1, <1>2, <1>4, SetLeaderSound, Names
  <2> HIDE DEF r
  <2>5. \A d, p \in Chars : Waits(s, d, p) => Waits(b, d, p) \/ s.party[p] = o
    BY <1>3, <2>4
  <2>6. Fit(z, r)
    BY <1>1, <1>3, <2>2, <2>3, <2>5, FitDisbanded DEF Fit
  <2>7. QED BY <2>1, <2>6
<1>5. CASE s.ldr[o] # c
  <2>1. LeaderRemoved(b, c, next) = RemoveMember(s, c)
    BY <1>2, <1>5 DEF LeaderRemoved
  <2>2. s.party[c] = o
    BY <1>3
  <2>3. QED BY <1>1, <1>3, <1>5, <2>1, <2>2, FitRemoved
<1>6. QED BY <1>4, <1>5

-----------------------------------------------------------------------------
(* The invariant. A character in a zone has the session row it came with,  *)
(* if it has one: world finds it where it is.                              *)
HomeIsHere == \A c \in zoned : addr[c] \in {at[c], NoMap}
Told       == LeaderIsMember /\ JoinIsAnnounced /\ HomeIsHere
Inv        == Typed /\ Told

LEMMA InvFacts ==
    ASSUME Inv
    PROVE  /\ Rest /\ Sound(Book, at, addr) /\ Book \in Books /\ Fit(Book, Book)
           /\ Book.row = row /\ Book.party = party /\ Book.pid = pid /\ Book.ldr = ldr /\ Book.out = << >>
           /\ zoned \subseteq Chars
<1>1. /\ Rest /\ Sound(Book, at, addr) /\ Book \in Books
      /\ Book.row = row /\ Book.party = party /\ Book.pid = pid /\ Book.ldr = ldr /\ Book.out = << >>
  BY TypedParts, BookSound DEF Inv, Typed, Sound
<1>2. \A o \in Objs : ldr[o] \in Members(Book, o) \cup {NoOne, Gone}
  BY DEF Inv, Told, LeaderIsMember
<1> HIDE DEF Book
<1>3. Pointed(Book)
  BY <1>1, <1>2, Names DEF Pointed, Members
<1>4. Fit(Book, Book)
  BY <1>3 DEF Fit, Tells
<1>5. QED BY <1>1, <1>4 DEF Rest

(* The messages that matter stay on their links, or are followed.          *)
KeepsMail(c) ==
    /\ \A m \in Maps, p \in Chars : Among(PartyReload(p), toWorld[m]) => Among(PartyReload(p), toWorld'[m])
    /\ \A p \in Chars : Among(PartyReload(p), toMap[at[c]]) => Among(PartyReload(p), toMap'[at[c]])

(* A step that leaves the objects alone and gives nobody a row.            *)
LEMMA StaysTold ==
    ASSUME Inv, UNCHANGED <<party, pid, ldr>>, \A c \in Chars : row'[c] = row[c] \/ row'[c] = NoRow,
           zoned' \subseteq Chars,
           \A c \in zoned' \ reload' : /\ c \in zoned /\ at'[c] = at[c]
                                       /\ Announced(c) /\ row'[c] = row[c] => Announced(c)'
    PROVE  LeaderIsMember' /\ JoinIsAnnounced'
<1>1. /\ Book.row = row /\ Book.party = party /\ row \in [Chars -> Row \cup {NoRow}]
  BY InvFacts, BookFields
<1>2. LeaderIsMember'
  BY DEF Inv, Told, LeaderIsMember, Members, Book
<1>3. ASSUME NEW c \in Chars, Joining(c)', Headed(row[c].party)', c \notin reload'
      PROVE  Announced(c)'
  <2>1. /\ c \in zoned /\ row[c] # NoRow /\ party[c] = NoObj /\ row'[c] = row[c]
        /\ Announced(c) => Announced(c)'
    <3>1. row'[c] # NoRow /\ c \in zoned' /\ party'[c] = NoObj
      BY <1>3 DEF Joining
    <3>2. QED BY <1>3, <3>1
  <2>2. row[c].party \in Chars
    BY <1>1, <2>1 DEF Row
  <2>3. Headed(row[c].party)
    BY <1>3, <2>1, <2>2 DEF Headed
  <2>4. QED BY <2>1, <2>3 DEF Inv, Told, JoinIsAnnounced, Joining
<1>4. JoinIsAnnounced'
  <2>1. ASSUME NEW c \in Chars, c \in reload' PROVE Announced(c)'
    BY <2>1 DEF Announced
  <2>2. QED BY <1>3, <2>1 DEF JoinIsAnnounced
<1>5. QED BY <1>2, <1>4

LEMMA MailTold ==
    ASSUME NEW c, at'[c] = at[c], row'[c] = row[c], row[c].party \in Chars, KeepsMail(c),
           c \in reload => c \in reload', Announced(c)
    PROVE  Announced(c)'
BY DEF Announced, KeepsMail

(* A step that turns the book into b, which is fit as far as those in a    *)
(* zone are concerned.                                                     *)
LEMMA FitBecome ==
    ASSUME Inv, NEW b \in Books, NEW m \in Maps, Become(b, m), Pointed(b),
           \A c \in zoned', p \in Chars : Waits(b, c, p) => Waits(Book, c, p) \/ Among(PartyReload(p), b.out),
           zoned' \subseteq zoned,
           \A c \in zoned' : /\ at'[c] = at[c]
                             /\ c \in reload /\ b.party[c] = NoObj /\ b.row[c] # NoRow => c \in reload'
                             /\ \A p \in Chars : Among(PartyReload(p), toMap[at[c]]) =>
                                                    Among(PartyReload(p), toMap'[at[c]])
    PROVE  LeaderIsMember' /\ JoinIsAnnounced'
<1>1. /\ row' = b.row /\ party' = b.party
      /\ ldr' = [o \in Objs |-> IF Members(b, o) = {} THEN NoOne ELSE b.ldr[o]]
      /\ toWorld' = [toWorld EXCEPT ![m] = toWorld[m] \o b.out]
  BY DEF Become
<1>2. /\ Rest /\ Book.row = row /\ Book.party = party /\ zoned \subseteq Chars /\ row \in [Chars -> Row \cup {NoRow}]
      /\ b.ldr \in [Objs -> Chars \cup {NoOne, Gone}] /\ b.row \in [Chars -> Row \cup {NoRow}]
      /\ b.party \in [Chars -> Objs \cup {NoObj}]
  BY InvFacts, BookFields
<1>3. LeaderIsMember'
  <2> SUFFICES ASSUME NEW o \in Objs PROVE ldr'[o] \in Members(Book, o)' \cup {NoOne, Gone}
    BY DEF LeaderIsMember
  <2>1. Members(Book, o)' = Members(b, o)
    BY <1>1 DEF Members, Book
  <2>2. b.ldr[o] \in Members(b, o) \cup {NoOne, Gone} \/ Members(b, o) = {}
    BY <1>2 DEF Pointed, Members
  <2>3. QED BY <1>1, <2>1, <2>2
<1>4. ASSUME NEW p \in Chars, NEW x \in Maps, Among(PartyReload(p), toWorld[x])
      PROVE  Among(PartyReload(p), toWorld'[x])
  <2>1. PICK w \in Message : w = PartyReload(p)
    BY ReloadFields
  <2>2. PICK q \in Seq(Message), r \in Seq(Message) : q = toWorld[x] /\ r = b.out
    BY <1>2, BookFields DEF Rest
  <2>3. Among(w, q \o r)
    BY <1>4, <2>1, <2>2, AmongFacts
  <2>4. QED BY <1>1, <1>2, <1>4, <2>1, <2>2, <2>3 DEF Rest
<1>5. ASSUME NEW p \in Chars, Among(PartyReload(p), b.out)
      PROVE  Among(PartyReload(p), toWorld'[m])
  <2>1. PICK w \in Message : w = PartyReload(p)
    BY ReloadFields
  <2>2. PICK q \in Seq(Message), r \in Seq(Message) : q = toWorld[m] /\ r = b.out
    BY <1>2, BookFields DEF Rest
  <2>3. Among(w, q \o r)
    BY <1>5, <2>1, <2>2, AmongFacts
  <2>4. QED BY <1>1, <1>2, <2>1, <2>2, <2>3 DEF Rest
<1>6. ASSUME NEW c \in Chars, Joining(c)', Headed(row[c].party)'
      PROVE  Announced(c)'
  <2>1. PICK p \in Chars : p = row'[c].party
    BY <1>1, <1>2, <1>6 DEF Joining, Row
  <2>2. c \in zoned' /\ Waits(b, c, p)
    BY <1>1, <1>6, <2>1 DEF Joining, Headed, Waits, Fellow
  <2>3. CASE Among(PartyReload(p), b.out)
    BY <1>5, <2>1, <2>3 DEF Announced
  <2>4. CASE Waits(Book, c, p)
    <3>1. row[c] # NoRow /\ row[c].party = p /\ Joining(c) /\ Headed(p)
      BY <1>2, <2>2, <2>4 DEF Waits, Fellow, Joining, Headed
    <3>2. c \in reload \/ (\E x \in Maps : Among(PartyReload(p), toWorld[x])) \/ Among(PartyReload(p), toMap[at[c]])
      BY <3>1 DEF Inv, Told, JoinIsAnnounced, Announced
    <3>3. b.party[c] = NoObj /\ b.row[c] # NoRow /\ at'[c] = at[c]
      BY <2>2 DEF Waits, Fellow
    <3>4. c \in reload' \/ (\E x \in Maps : Among(PartyReload(p), toWorld'[x])) \/ Among(PartyReload(p), toMap'[at[c]])
      BY <1>4, <2>2, <3>2, <3>3
    <3>5. QED BY <2>1, <3>3, <3>4 DEF Announced
  <2>5. QED BY <2>2, <2>3, <2>4
<1>7. JoinIsAnnounced'
  BY <1>6 DEF JoinIsAnnounced
<1>8. QED BY <1>3, <1>7

(* A step of one map after which everybody is where it was.                *)
LEMMA HandlerTold ==
    ASSUME Inv, NEW m \in Maps, NEW b, Sound(b, at, addr), Become(b, m), Fit(Book, b),
           UNCHANGED <<addr, at, zoned>>,
           \A c \in zoned : c \in reload /\ b.party[c] = NoObj /\ b.row[c] # NoRow => c \in reload',
           \A x \in Maps, p \in Chars : Among(PartyReload(p), toMap[x]) => Among(PartyReload(p), toMap'[x])
    PROVE  Told'
<1>1. b \in Books /\ zoned \subseteq Chars /\ \A c \in zoned : at[c] \in Maps
  BY InvFacts DEF Sound, Rest
<1>2. HomeIsHere'
  BY DEF Inv, Told, HomeIsHere
<1>3. \A c \in zoned', p \in Chars : Waits(b, c, p) => Waits(Book, c, p) \/ Among(PartyReload(p), b.out)
  BY <1>1 DEF Fit, Tells
<1>4. Pointed(b)
  BY DEF Fit
<1>5. LeaderIsMember' /\ JoinIsAnnounced'
  BY <1>1, <1>3, <1>4, FitBecome
<1>6. QED BY <1>2, <1>5 DEF Told

(* RemoveMember, or the first part of RemovePartyLeader.                   *)
LEMMA RemoveLeaderFit ==
    ASSUME Inv, NEW b, Sound(b, at, addr), b.party = party, Fit(Book, b), NEW c \in Chars, party[c] # NoObj,
           NEW then, RemovePartyLeader(b, c, then)
    PROVE  \E n : Sound(n, at, addr) /\ Fit(Book, n) /\ Become(n, at[c])
<1>1. CASE Become(DisbandAndTell(b, party[c]), at[c])
  <2>1. party[c] \in Objs /\ b.pid[party[c]] \in Chars
    BY BookFields, Names DEF Sound
  <2>2. Sound(DisbandAndTell(b, party[c]), at, addr) /\ Fit(Book, DisbandAndTell(b, party[c]))
    BY <2>1, DisbandSound, FitDisband
  <2>3. QED BY <1>1, <2>2
<1>2. CASE Become(b, at[c])
  BY <1>2
<1>3. QED BY <1>1, <1>2 DEF RemovePartyLeader

LEMMA RemoveFit ==
    ASSUME Inv, NEW b, Sound(b, at, addr), b.party = party, Fit(Book, b), NEW c \in Chars, NEW then,
           Remove(b, c, then)
    PROVE  \E n : Sound(n, at, addr) /\ Fit(Book, n) /\ Become(n, at[c])
<1>1. CASE Leads(b, c) /\ RemovePartyLeader(b, c, then)
  BY <1>1, RemoveLeaderFit DEF Leads
<1>2. CASE ~Leads(b, c) /\ Become(IF party[c] = NoObj THEN b ELSE RemoveMember(b, c), at[c])
  <2>1. CASE party[c] = NoObj
    BY <1>2, <2>1
  <2>2. CASE party[c] # NoObj
    <3>1. b \in Books /\ b.party[c] \in Objs /\ b.ldr[b.party[c]] # c
      BY <1>2, <2>2, BookFields DEF Sound, Leads
    <3>2. Fit(Book, RemoveMember(b, c))
      BY <3>1, FitRemoved DEF Fit
    <3>3. Sound(RemoveMember(b, c), at, addr)
      BY <2>2, RemoveMemberSound
    <3>4. QED BY <1>2, <2>2, <3>2, <3>3
  <2>3. QED BY <2>1, <2>2
<1>3. QED BY <1>1, <1>2 DEF Remove

-----------------------------------------------------------------------------
(* The players.                                                            *)

(* A message more on one link.                                             *)
LEMMA PostedMail ==
    ASSUME Inv, NEW m \in Maps, NEW p \in Message, toWorld' = [toWorld EXCEPT ![m] = Append(toWorld[m], p)],
           toMap' = toMap, NEW c
    PROVE  KeepsMail(c)
<1>1. toWorld \in [Maps -> Seq(Message)]
  BY InvFacts DEF Rest
<1>2. ASSUME NEW x \in Maps, NEW d \in Chars, Among(PartyReload(d), toWorld[x])
      PROVE  Among(PartyReload(d), toWorld'[x])
  <2>1. PICK w \in Message : w = PartyReload(d)
    BY ReloadFields
  <2>2. PICK q \in Seq(Message) : q = toWorld[x]
    BY <1>1
  <2>3. Among(w, Append(q, p))
    BY <1>2, <2>1, <2>2, AmongFacts
  <2>4. QED BY <1>1, <1>2, <2>1, <2>2, <2>3
<1>3. QED BY <1>2 DEF KeepsMail

(* Nothing that matters changes.                                           *)
LEMMA SameTold ==
    ASSUME Inv, UNCHANGED bookVars, UNCHANGED <<addr, at>>, zoned' \subseteq zoned,
           \A c \in zoned' : c \in reload => c \in reload', \A c \in zoned' : KeepsMail(c)
    PROVE  Told'
<1>1. UNCHANGED <<row, party, pid, ldr>>
  BY DEF bookVars
<1>2. zoned \subseteq Chars /\ row \in [Chars -> Row \cup {NoRow}]
  BY InvFacts, BookFields
<1>3. ASSUME NEW c \in zoned' \ reload', Announced(c), row[c] # NoRow
      PROVE  Announced(c)'
  <2>1. row[c].party \in Chars
    BY <1>2, <1>3 DEF Row
  <2>2. QED BY <1>1, <1>3, <2>1, MailTold
<1>4. LeaderIsMember'
  BY <1>1 DEF Inv, Told, LeaderIsMember, Members, Book
<1>5. ASSUME NEW c \in Chars, Joining(c)', Headed(row[c].party)'
      PROVE  Announced(c)'
  <2>1. /\ c \in zoned /\ c \in zoned' /\ row[c] # NoRow /\ Joining(c)
    BY <1>1, <1>5 DEF Joining
  <2>2. Headed(row[c].party)
    BY <1>1, <1>5 DEF Headed
  <2>3. Announced(c)
    BY <2>1, <2>2 DEF Inv, Told, JoinIsAnnounced
  <2>4. c \in reload' => Announced(c)'
    BY DEF Announced
  <2>5. QED BY <1>3, <2>1, <2>3, <2>4
<1>6. JoinIsAnnounced'
  BY <1>5 DEF JoinIsAnnounced
<1>7. HomeIsHere'
  BY DEF Inv, Told, HomeIsHere
<1>8. QED BY <1>4, <1>6, <1>7 DEF Told

LEMMA SilentMail ==
    ASSUME UNCHANGED <<toWorld, toMap>>, NEW c
    PROVE  KeepsMail(c)
BY DEF KeepsMail

LEMMA InviteTold ==
    ASSUME Inv, NEW a \in Chars, NEW c \in Chars, Invite(a, c)
    PROVE  Told'
<1>1. at[a] \in Maps
  BY PacketFacts DEF Inv, Invite
<1>2. /\ UNCHANGED bookVars /\ UNCHANGED <<addr, at>> /\ zoned' = zoned /\ reload' = reload /\ toMap' = toMap
      /\ toWorld' = toWorld \/ toWorld' = [toWorld EXCEPT ![at[a]] = Append(toWorld[at[a]], PartyInvite(c, a))]
  BY DEF Invite
<1>3. \A d \in zoned' : KeepsMail(d)
  BY <1>1, <1>2, SilentMail, PostedMail, MessageTypes
<1>4. QED BY <1>2, <1>3, SameTold

LEMMA DeclineTold ==
    ASSUME Inv, NEW c \in Chars, DeclineInvite(c)
    PROVE  Told'
<1>1. /\ UNCHANGED bookVars /\ UNCHANGED <<addr, at>> /\ zoned' = zoned /\ reload' = reload
      /\ UNCHANGED <<toWorld, toMap>>
  BY DEF DeclineInvite
<1>2. QED BY <1>1, SilentMail, SameTold

LEMMA AcceptTold ==
    ASSUME Inv, NEW c \in Chars, AcceptInvite(c)
    PROVE  Told'
<1>1. /\ Rest /\ at[c] \in Maps /\ at[c] # NoMap /\ invite[c] \in Chars
  BY InvFacts, PacketFacts DEF Inv, AcceptInvite, Rest
<1>2. UNCHANGED <<addr, at, zoned, reload, task, toMap>>
  BY DEF AcceptInvite
<1> DEFINE a == invite[c]
           f == Founded(Book, a)
           b == IF party[c] # NoObj THEN Book ELSE IF Leads(f, a) THEN AddHere(f, f.party[a], c) ELSE f
<1>3. CASE /\ toWorld' = [toWorld EXCEPT ![at[c]] = Append(toWorld[at[c]], PartyInviteResponse(a, c))]
           /\ UNCHANGED bookVars
  <2>1. PartyInviteResponse(a, c) \in Message
    BY <1>1, MessageTypes
  <2>2. \A d \in zoned' : KeepsMail(d)
    BY <1>1, <1>2, <1>3, <2>1, PostedMail
  <2>3. QED BY <1>2, <1>3, <2>2, SameTold
<1>4. CASE a \in zoned /\ at[a] = at[c] /\ Become(b, at[c])
  <2>1. /\ Sound(Book, at, addr) /\ Book.party = party /\ Fit(Book, Book)
    BY InvFacts
  <2>2. at[a] # NoMap
    BY <1>1, <1>4
  <2>3. /\ Sound(f, at, addr) /\ Fit(Book, f)
    BY <1>1, <2>1, <2>2, FoundedSound, FitFounded
  <2> HIDE DEF f
  <2>4. Sound(b, at, addr) /\ Fit(Book, b)
    <3>1. CASE party[c] # NoObj
      BY <2>1, <3>1
    <3>2. CASE party[c] = NoObj /\ ~Leads(f, a)
      BY <2>3, <3>2
    <3>3. CASE party[c] = NoObj /\ Leads(f, a)
      <4> DEFINE o == f.party[a]
                 h == AddHere(f, o, c)
      <4>1. o \in Objs /\ f.pid[o] \in Chars /\ f.party[f.ldr[o]] = o
        BY <1>1, <2>3, <3>3, BookFields, Names DEF Leads, Sound
      <4>2. \A d \in Chars : f.party[d] = o => at[d] = at[c]
        BY <1>1, <1>4, <2>3, <4>1, Names DEF Sound
      <4>3. Sound(h, at, addr) /\ Fit(Book, h)
        BY <1>1, <2>3, <4>1, <4>2, AddHereParty, FitAddHere
      <4>4. b = h
        BY <3>3
      <4> HIDE DEF b, h, o
      <4>5. QED BY <4>3, <4>4
    <3>4. QED BY <3>1, <3>2, <3>3
  <2> HIDE DEF b
  <2>5. QED BY <1>1, <1>2, <1>4, <2>4, HandlerTold
<1>5. QED BY <1>3, <1>4 DEF AcceptInvite

LEMMA LeaveTold ==
    ASSUME Inv, NEW c \in Chars, Leave(c)
    PROVE  Told'
<1>1. at[c] \in Maps /\ Remove(Book, c, "stay") /\ UNCHANGED <<addr, at, zoned, reload, toMap>>
  BY PacketFacts DEF Inv, Leave
<1>2. Sound(Book, at, addr) /\ Book.party = party /\ Fit(Book, Book)
  BY InvFacts
<1>3. PICK n : Sound(n, at, addr) /\ Fit(Book, n) /\ Become(n, at[c])
  BY <1>1, <1>2, RemoveFit
<1>4. QED BY <1>1, <1>3, HandlerTold

(* The character is out of its zone, or goes.                              *)
LEMMA EndTold ==
    ASSUME Inv, NEW c \in Chars, at[c] \in Maps, NEW b, b = Book \/ RowGone(b, Book, c), Remove(b, c, "off"),
           zoned' = zoned \ {c}, reload' = reload \ {c}, toMap' = toMap,
           \A d \in Chars \ {c} : at'[d] = at[d] /\ addr'[d] = addr[d]
    PROVE  Told'
<1>1. Sound(b, at, addr) /\ b.party = party /\ Fit(Book, b)
  <2>1. /\ Sound(Book, at, addr) /\ Book \in Books /\ Book.party = party /\ Fit(Book, Book)
    BY InvFacts
  <2>2. PICK B : B = Book
    OBVIOUS
  <2>3. Sound(B, at, addr) /\ B \in Books /\ B.party = party /\ Fit(B, B) /\ (b = B \/ RowGone(b, B, c))
    BY <2>1, <2>2
  <2>4. Sound(b, at, addr) /\ b.party = party /\ Fit(B, b)
    BY <2>3, RowGoneSound, FitRowGone
  <2>5. QED BY <2>2, <2>4
<1>2. PICK n : Sound(n, at, addr) /\ Fit(Book, n) /\ Become(n, at[c])
  BY <1>1, RemoveFit
<1>3. n \in Books /\ Pointed(n) /\ zoned \subseteq Chars
  BY <1>2, InvFacts DEF Sound, Fit
<1>4. \A d \in zoned', p \in Chars : Waits(n, d, p) => Waits(Book, d, p) \/ Among(PartyReload(p), n.out)
  BY <1>2, <1>3 DEF Fit, Tells
<1>5. \A d \in zoned' : at'[d] = at[d] /\ (d \in reload => d \in reload')
  BY <1>3
<1>6. LeaderIsMember' /\ JoinIsAnnounced'
  BY <1>2, <1>3, <1>4, <1>5, FitBecome
<1>7. HomeIsHere'
  BY <1>3 DEF Inv, Told, HomeIsHere
<1>8. QED BY <1>6, <1>7 DEF Told

LEMMA LogoffTold ==
    ASSUME Inv, NEW c \in Chars, NEW timed \in BOOLEAN, Logoff(c, timed)
    PROVE  Told'
<1>1. Rest /\ at[c] \in Maps
  BY InvFacts, PacketFacts DEF Inv, Logoff
<1> DEFINE b == IF timed \/ party[c] = NoObj THEN [Book EXCEPT !.row[c] = NoRow] ELSE Book
<1>2. /\ Remove(b, c, "off") /\ zoned' = zoned \ {c} /\ reload' = reload \ {c} /\ toMap' = toMap
      /\ addr' = IF task' = task \/ timed THEN [addr EXCEPT ![c] = NoMap] ELSE addr
      /\ at' = IF task' = task THEN [at EXCEPT ![c] = NoMap] ELSE at
  BY DEF Logoff
<1>3. b = Book \/ RowGone(b, Book, c)
  BY DEF RowGone
<1> HIDE DEF b
<1>4. \A d \in Chars \ {c} : at'[d] = at[d] /\ addr'[d] = addr[d]
  BY <1>1, <1>2 DEF Rest
<1>5. QED BY <1>1, <1>2, <1>3, <1>4, EndTold

LEMMA TimeOutTold ==
    ASSUME Inv, NEW c \in Chars, TimeOut(c)
    PROVE  Told'
<1>1. Rest /\ at[c] \in Maps /\ zoned' = zoned \ {c}
  BY InvFacts DEF TimeOut, Rest
<1> DEFINE b == IF addr[c] = at[c] THEN [Book EXCEPT !.row[c] = NoRow] ELSE Book
<1>2. /\ Remove(b, c, "off") /\ reload' = reload \ {c} /\ toMap' = toMap
      /\ addr' = IF addr[c] = at[c] THEN [addr EXCEPT ![c] = NoMap] ELSE addr
      /\ at' = IF task' = task THEN [at EXCEPT ![c] = NoMap] ELSE at
  BY DEF TimeOut
<1>3. b = Book \/ RowGone(b, Book, c)
  BY DEF RowGone
<1> HIDE DEF b
<1>4. \A d \in Chars \ {c} : at'[d] = at[d] /\ addr'[d] = addr[d]
  BY <1>1, <1>2 DEF Rest
<1>5. QED BY <1>1, <1>2, <1>3, <1>4, EndTold

LEMMA BreakupTold ==
    ASSUME Inv, NEW a \in Chars, Breakup(a)
    PROVE  Told'
<1>1. /\ at[a] \in Maps /\ Become(DisbandAndTell(Book, party[a]), at[a])
      /\ UNCHANGED <<addr, at, zoned, reload, toMap>>
  BY PacketFacts DEF Inv, Breakup
<1>2. Sound(Book, at, addr) /\ Book \in Books /\ Book.party = party /\ Fit(Book, Book) /\ party[a] # NoObj
  BY InvFacts DEF Breakup, Leads
<1>3. party[a] \in Objs /\ Book.pid[party[a]] \in Chars
  BY <1>2, BookFields DEF Sound
<1>4. Sound(DisbandAndTell(Book, party[a]), at, addr) /\ Fit(Book, DisbandAndTell(Book, party[a]))
  BY <1>2, <1>3, DisbandSound, FitDisband
<1>5. QED BY <1>1, <1>4, HandlerTold

LEMMA PassLeadTold ==
    ASSUME Inv, NEW a \in Chars, NEW x \in Chars, PassLead(a, x)
    PROVE  Told'
<1>1. at[a] \in Maps /\ UNCHANGED <<addr, at, zoned, reload, toMap>>
  BY PacketFacts DEF Inv, PassLead
<1>2. Sound(Book, at, addr) /\ Book \in Books /\ Book.party = party /\ Fit(Book, Book) /\ party[a] # NoObj
  BY InvFacts DEF PassLead, Leads
<1>3. PICK o \in Objs : o = party[a] /\ Book.pid[o] \in Chars
  BY <1>2, BookFields DEF Sound
<1>4. PICK s : s = SetLeader(Book, o, x)
  OBVIOUS
<1> DEFINE n == Say(s, PartyReload(s.pid[o]))
<1>5. Become(n, at[a])
  BY <1>3, <1>4 DEF PassLead
<1>6. Fit(Book, n)
  BY <1>2, <1>3, <1>4, FitPassed
<1>7. Sound(n, at, addr)
  <2>1. Sound(s, at, addr) /\ s.pid[o] \in Chars
    BY <1>2, <1>3, <1>4, SetLeaderWaits DEF Fit
  <2>2. QED BY <2>1, SaySound, ReloadFields
<1> HIDE DEF n
<1>8. QED BY <1>1, <1>5, <1>6, <1>7, HandlerTold

LEMMA StrikeTold ==
    ASSUME Inv, NEW a \in Chars, NEW v \in Chars, Strike(a, v)
    PROVE  Told'
<1>1. at[a] \in Maps /\ UNCHANGED <<addr, at, zoned, reload, toMap>>
  BY PacketFacts DEF Inv, Strike
<1>2. /\ Sound(Book, at, addr) /\ Book \in Books /\ Book.party = party /\ Book.pid = pid /\ Book.out = << >>
      /\ Fit(Book, Book) /\ party[a] \in Objs /\ Book.ldr[party[a]] = a /\ a # v
  BY InvFacts, BookFields DEF Strike, Leads
<1>3. CASE party[v] = party[a] /\ Become(RemoveMember(Book, v), at[a])
  <2>1. /\ Book.party[v] \in Objs /\ Book.ldr[Book.party[v]] # v /\ Pointed(Book)
    BY <1>2, <1>3 DEF Fit
  <2>2. Fit(Book, RemoveMember(Book, v))
    BY <1>2, <2>1, FitRemoved
  <2>3. Sound(RemoveMember(Book, v), at, addr)
    BY <1>2, <2>1, RemoveMemberSound, Names
  <2>4. QED BY <1>1, <1>3, <2>2, <2>3, HandlerTold
<1>4. CASE Become([Book EXCEPT !.row[v] = NoRow,
                               !.out = <<PartyReload(pid[party[a]]), PlayerKick(v)>>], at[a])
  <2>1. PICK B : B = Book
    OBVIOUS
  <2> DEFINE j == [B EXCEPT !.row[v] = NoRow]
             w == <<PartyReload(pid[party[a]]), PlayerKick(v)>>
             n == [j EXCEPT !.out = w]
  <2>2. /\ Sound(j, at, addr) /\ j.party = B.party /\ j.ldr = B.ldr /\ j.out = B.out
        /\ \A d \in Chars : j.row[d] = IF d = v THEN NoRow ELSE B.row[d]
    <3>1. RowGone(j, B, v)
      BY DEF RowGone
    <3> HIDE DEF j
    <3>2. QED BY <1>2, <2>1, <3>1, RowGoneSound
  <2>3. pid[party[a]] \in Chars
    BY <1>2, BookFields, Names DEF Sound
  <2>4. w \in Seq(Message)
    BY <2>3, MessageTypes
  <2>5. Become(n, at[a])
    BY <1>4, <2>1
  <2>6. Fit(B, j) /\ j \in Books
    <3>1. B \in Books /\ Fit(B, B)
      BY <1>2, <2>1
    <3> HIDE DEF j
    <3>2. QED BY <2>2, <3>1, FitRowGone DEF Sound
  <2> HIDE DEF j, w
  <2>7. /\ n \in Books /\ n.row = j.row /\ n.party = j.party /\ n.pid = j.pid /\ n.ldr = j.ldr
    BY <2>4, <2>6 DEF Books
  <2> HIDE DEF n
  <2>8. Sound(n, at, addr)
    BY <2>2, <2>7 DEF Sound
  <2>9. Pointed(n)
    BY <2>6, <2>7 DEF Fit, Pointed
  <2>10. Tells(B, n)
    <3> SUFFICES ASSUME NEW c \in Chars, NEW p \in Chars, Waits(n, c, p) PROVE Waits(B, c, p)
      BY DEF Tells
    <3>1. Waits(j, c, p)
      BY <2>7 DEF Waits, Fellow
    <3>2. QED BY <2>2, <3>1 DEF Waits, Fellow
  <2>11. Fit(Book, n)
    BY <2>1, <2>9, <2>10 DEF Fit
  <2>12. QED BY <1>1, <2>5, <2>8, <2>11, HandlerTold
<1>5. QED BY <1>3, <1>4 DEF Strike

-----------------------------------------------------------------------------
(* Zone changes, and what comes in through world.                          *)
LEMMA ZoneOutTold ==
    ASSUME Inv, NEW c \in Chars, NEW m \in Maps, ZoneOut(c, m)
    PROVE  Told'
<1>1. /\ UNCHANGED bookVars /\ UNCHANGED <<at, reload>> /\ UNCHANGED <<toWorld, toMap>> /\ zoned' = zoned \ {c}
      /\ addr' = [addr EXCEPT ![c] = IF addr[c] = NoMap THEN NoMap ELSE m]
  BY DEF ZoneOut
<1>2. Rest /\ zoned \subseteq Chars
  BY InvFacts
<1>3. \A d \in zoned' : addr'[d] = addr[d]
  BY <1>1, <1>2 DEF Rest
<1>4. HomeIsHere'
  BY <1>1, <1>3 DEF Inv, Told, HomeIsHere
<1>5. \A d \in zoned' \ reload' : d \in zoned /\ at'[d] = at[d] /\ (Announced(d) /\ row'[d] = row[d] => Announced(d)')
  BY <1>1 DEF Announced, bookVars
<1>6. UNCHANGED <<party, pid, ldr>> /\ row' = row
  BY <1>1 DEF bookVars
<1>7. LeaderIsMember' /\ JoinIsAnnounced'
  BY <1>1, <1>2, <1>5, <1>6, StaysTold
<1>8. QED BY <1>4, <1>7 DEF Told

LEMMA DepartTold ==
    ASSUME Inv, NEW c \in Chars, NEW mog \in BOOLEAN, Depart(c, mog)
    PROVE  Told'
<1>1. /\ Rest /\ at[c] \in Maps /\ c \notin zoned /\ zoned \subseteq Chars
      /\ Sound(Book, at, addr) /\ Book.party = party /\ Book.pid = pid /\ Pointed(Book) /\ Book.out = << >>
  BY InvFacts DEF Depart, Rest, Fit
<1>2. /\ UNCHANGED <<addr, zoned, toMap>> /\ at' = [at EXCEPT ![c] = NoMap] /\ reload' = reload \ {c}
  BY DEF Depart
<1> DEFINE b == PopMember(Book, c)
           n == IF party[c] = NoObj \/ mog THEN b ELSE Say(b, PartyReload(pid[party[c]]))
<1>3. Become(n, at[c])
  BY DEF Depart
<1>4. /\ Sound(b, at, addr) /\ b.row = Book.row /\ b.out = Book.out
      /\ \A d \in Chars : b.party[d] = IF d = c THEN NoObj ELSE party[d]
      /\ \A o \in Objs : b.ldr[o] = IF o = party[c] /\ Book.ldr[o] = c THEN Gone ELSE Book.ldr[o]
  BY <1>1, PopSound
<1> HIDE DEF b
<1>5. n \in Books /\ n.party = b.party /\ n.row = b.row /\ n.ldr = b.ldr
  <2>1. CASE party[c] = NoObj \/ mog
    BY <1>4, <2>1 DEF Sound
  <2>2. CASE ~(party[c] = NoObj \/ mog)
    <3>1. pid[party[c]] \in Chars
      BY <1>1, <2>2, BookFields DEF Sound
    <3>2. PartyReload(pid[party[c]]) \in Message
      BY <3>1, MessageTypes
    <3>3. QED BY <1>4, <2>2, <3>2, SaySound DEF Sound
  <2>3. QED BY <2>1, <2>2
<1> HIDE DEF n
<1>6. Pointed(n)
  <2> SUFFICES ASSUME NEW o \in Objs, NEW d \in Chars, n.party[d] = o, n.ldr[o] \in Chars
               PROVE  n.party[n.ldr[o]] = o
    BY DEF Pointed
  <2>1. Book.party[d] = o /\ n.ldr[o] = Book.ldr[o]
    BY <1>1, <1>4, <1>5, Names
  <2>2. Book.party[Book.ldr[o]] = o
    BY <1>1, <2>1 DEF Pointed
  <2>3. Book.ldr[o] # c
    BY <1>1, <1>4, <1>5, <2>1, <2>2, Names
  <2>4. QED BY <1>1, <1>4, <1>5, <2>1, <2>2, <2>3
<1>7. ASSUME NEW d \in zoned', NEW p \in Chars, Waits(n, d, p) PROVE Waits(Book, d, p)
  <2>1. d # c /\ d \in Chars
    BY <1>1, <1>2, <1>7
  <2>2. n.party[d] = party[d] /\ n.row = Book.row
    BY <1>4, <1>5, <2>1
  <2>3. QED BY <1>1, <1>7, <2>2 DEF Waits, Fellow
<1>8. \A d \in zoned' : at'[d] = at[d] /\ (d \in reload => d \in reload')
  BY <1>1, <1>2 DEF Rest
<1>9. LeaderIsMember' /\ JoinIsAnnounced'
  BY <1>1, <1>2, <1>3, <1>5, <1>6, <1>7, <1>8, FitBecome
<1>10. HomeIsHere'
  BY <1>2, <1>8 DEF Inv, Told, HomeIsHere
<1>11. QED BY <1>9, <1>10 DEF Told

LEMMA ArriveTold ==
    ASSUME Inv, NEW c \in Chars, Arrive(c)
    PROVE  Told'
<1>1. Rest /\ at[c] = NoMap /\ addr[c] \in Maps /\ zoned \subseteq Chars
  BY InvFacts DEF Arrive, Rest
<1>2. /\ UNCHANGED <<row, party, pid, ldr>> /\ UNCHANGED <<addr, toWorld, toMap>>
      /\ at' = [at EXCEPT ![c] = addr[c]] /\ zoned' = zoned \cup {c} /\ reload' = reload \cup {c}
  BY DEF Arrive, bookVars
<1>3. at'[c] = addr[c] /\ \A d \in Chars \ {c} : at'[d] = at[d]
  BY <1>1, <1>2 DEF Rest
<1>4. HomeIsHere'
  BY <1>1, <1>2, <1>3 DEF Inv, Told, HomeIsHere
<1>5. \A d \in zoned' \ reload' : d \in zoned /\ at'[d] = at[d] /\ (Announced(d) /\ row'[d] = row[d] => Announced(d)')
  BY <1>1, <1>2, <1>3 DEF Announced
<1>6. LeaderIsMember' /\ JoinIsAnnounced'
  BY <1>1, <1>2, <1>5, StaysTold
<1>7. QED BY <1>4, <1>6 DEF Told

LEMMA LoseTold ==
    ASSUME Inv, NEW c \in Chars, Lose(c)
    PROVE  Told'
<1>1. /\ UNCHANGED <<party, pid, ldr, at, zoned, reload, toWorld, toMap>>
      /\ addr' = [addr EXCEPT ![c] = NoMap] /\ row' = [row EXCEPT ![c] = NoRow]
  BY DEF Lose
<1>2. Rest /\ zoned \subseteq Chars /\ row \in [Chars -> Row \cup {NoRow}]
  BY InvFacts, BookFields
<1>3. HomeIsHere'
  BY <1>1, <1>2 DEF Inv, Told, HomeIsHere, Rest
<1>4. \A d \in zoned' \ reload' : d \in zoned /\ at'[d] = at[d] /\ (Announced(d) /\ row'[d] = row[d] => Announced(d)')
  BY <1>1 DEF Announced
<1>5. \A d \in Chars : row'[d] = row[d] \/ row'[d] = NoRow
  BY <1>1, <1>2
<1>6. LeaderIsMember' /\ JoinIsAnnounced'
  BY <1>1, <1>2, <1>4, <1>5, StaysTold
<1>7. QED BY <1>3, <1>6 DEF Told

(* A character's leader view is refreshed.                                 *)
LEMMA RefreshPointed ==
    ASSUME NEW b, Sound(b, at, addr), NEW o \in Objs, NEW l \in LeaderViews(b, o),
           \A x \in Objs \ {o}, d \in Chars : b.party[d] = x /\ b.ldr[x] \in Chars => b.party[b.ldr[x]] = x
    PROVE  LET r == [b EXCEPT !.ldr[o] = l] IN
           /\ Sound(r, at, addr) /\ r.row = b.row /\ r.party = b.party /\ r.out = b.out /\ Pointed(r)
<1> DEFINE r == [b EXCEPT !.ldr[o] = l]
<1>1. /\ Sound(r, at, addr) /\ r.row = b.row /\ r.party = b.party /\ r.out = b.out
      /\ \A x \in Objs : r.ldr[x] = IF x = o THEN l ELSE b.ldr[x]
  BY RefreshSound
<1> HIDE DEF r
<1>2. l \in Members(b, o) \cup {NoOne}
  BY DEF LeaderViews
<1>3. Pointed(r)
  BY <1>1, <1>2, Names DEF Pointed, Members
<1>4. QED BY <1>1, <1>3 DEF r

LEMMA FinishRemovalTold ==
    ASSUME Inv, NEW m \in Maps, FinishRemoval(m)
    PROVE  Told'
<1> DEFINE k == task[m]
<1>1. /\ Rest /\ k \in Task /\ k # NoTask /\ k.char \in Chars /\ k.next \in Chars /\ zoned \subseteq Chars
      /\ party[k.char] # NoObj /\ (k.then = "off" => k.char \notin zoned)
  BY InvFacts DEF Inv, Typed, FinishRemoval, Rest, Task, TaskHere
<1>2. PICK c \in Chars : c = k.char
  BY <1>1
<1>3. PICK next \in Chars : next = k.next
  BY <1>1
<1>4. /\ Sound(Book, at, addr) /\ Book.party = party /\ Fit(Book, Book)
  BY InvFacts
<1> DEFINE o == party[c]
           b == LeaderRemoved(Book, c, next)
<1>5. Sound(b, at, addr) /\ Fit(Book, b) /\ b \in Books
  BY <1>1, <1>2, <1>4, LeaderRemovedSound, FitLeaderRemoved DEF Sound
<1>6. o \in Objs
  BY <1>1, <1>2, <1>4, BookFields DEF Sound
<1>7. /\ \/ Become(b, m) /\ UNCHANGED reload
         \/ /\ \E l \in LeaderViews(b, o) : Become([b EXCEPT !.ldr[o] = l], m)
            /\ reload' = reload \ Members(b, o)
      /\ IF k.then = "off" THEN /\ addr' = [addr EXCEPT ![c] = IF addr[c] = m THEN NoMap ELSE addr[c]]
                                /\ at' = [at EXCEPT ![c] = NoMap]
                           ELSE UNCHANGED <<addr, at>>
      /\ UNCHANGED <<zoned, toMap>>
  BY <1>2, <1>3 DEF FinishRemoval
<1> HIDE DEF b
<1>8. \A d \in zoned' : at'[d] = at[d] /\ addr'[d] = addr[d]
  BY <1>1, <1>2, <1>7 DEF Rest
<1>9. PICK n : /\ n \in Books /\ Pointed(n) /\ n.row = b.row /\ n.party = b.party /\ n.out = b.out /\ Become(n, m)
               /\ \A d \in Chars : d \in reload /\ n.party[d] = NoObj => d \in reload'
  <2>1. CASE Become(b, m) /\ UNCHANGED reload
    BY <1>5, <2>1 DEF Fit
  <2>2. CASE /\ \E l \in LeaderViews(b, o) : Become([b EXCEPT !.ldr[o] = l], m)
             /\ reload' = reload \ Members(b, o)
    <3>1. PICK l \in LeaderViews(b, o) : Become([b EXCEPT !.ldr[o] = l], m)
      BY <2>2
    <3> DEFINE n == [b EXCEPT !.ldr[o] = l]
    <3>2. Sound(n, at, addr) /\ n.row = b.row /\ n.party = b.party /\ n.out = b.out /\ Pointed(n)
      BY <1>5, <1>6, RefreshPointed DEF Fit, Pointed
    <3>3. Become(n, m)
      BY <3>1
    <3> HIDE DEF n
    <3>4. \A d \in Chars : d \in reload /\ n.party[d] = NoObj => d \in reload'
      BY <1>6, <2>2, <3>2, Names DEF Members
    <3>5. QED BY <3>2, <3>3, <3>4 DEF Sound
  <2>3. QED BY <1>7, <2>1, <2>2
<1>10. \A d \in zoned', p \in Chars : Waits(n, d, p) => Waits(Book, d, p) \/ Among(PartyReload(p), n.out)
  <2> SUFFICES ASSUME NEW d \in zoned', NEW p \in Chars, Waits(n, d, p)
               PROVE  Waits(Book, d, p) \/ Among(PartyReload(p), n.out)
    OBVIOUS
  <2>1. Waits(b, d, p) /\ d \in Chars
    BY <1>1, <1>7, <1>9 DEF Waits, Fellow
  <2>2. QED BY <1>5, <1>9, <2>1 DEF Fit, Tells
<1>11. LeaderIsMember' /\ JoinIsAnnounced'
  BY <1>1, <1>7, <1>8, <1>9, <1>10, FitBecome
<1>12. HomeIsHere'
  BY <1>7, <1>8 DEF Inv, Told, HomeIsHere
<1>13. QED BY <1>11, <1>12 DEF Told

(* Taking a message from a link.                                           *)
Taken(n, q, m) == q[m] # << >> /\ n = [q EXCEPT ![m] = Tail(q[m])]

LEMMA MailTaken ==
    ASSUME NEW q \in [Maps -> Seq(Message)], NEW m \in Maps, NEW n, Taken(n, q, m)
    PROVE  /\ n \in [Maps -> Seq(Message)] /\ Head(q[m]) \in Message
           /\ \A p \in Message : \A x \in Maps : Among(p, q[x]) /\ ~(x = m /\ Head(q[m]) = p) => Among(p, n[x])
<1>1. q[m] # << >> /\ n = [q EXCEPT ![m] = Tail(q[m])]
  BY DEF Taken
<1>2. Tail(q[m]) \in Seq(Message) /\ Head(q[m]) \in Message
  BY <1>1, HeadTailProperties
<1>3. n \in [Maps -> Seq(Message)]
  BY <1>1, <1>2
<1>4. ASSUME NEW p \in Message, NEW x \in Maps, Among(p, q[x]), ~(x = m /\ Head(q[m]) = p)
      PROVE  Among(p, n[x])
  <2>1. CASE x = m
    <3>1. PICK s \in Seq(Message) : s = q[m]
      OBVIOUS
    <3>2. Among(p, Tail(s))
      BY <1>1, <1>4, <2>1, <3>1, AmongFacts
    <3>3. QED BY <1>1, <2>1, <3>1, <3>2
  <2>2. CASE x # m
    BY <1>1, <1>4, <2>2
  <2>3. QED BY <2>1, <2>2
<1>5. QED BY <1>2, <1>3, <1>4

(* What world passes on stays announced: the row's session is where the    *)
(* character is.                                                           *)
LEMMA WorldHandleTold ==
    ASSUME Inv, NEW q \in Maps, WorldHandle(q)
    PROVE  Told'
<1>1. Rest /\ Sound(Book, at, addr) /\ Book.row = row /\ zoned \subseteq Chars
  BY InvFacts
<1>2. /\ toWorld[q] # << >> /\ toWorld' = [toWorld EXCEPT ![q] = Tail(toWorld[q])]
      /\ UNCHANGED <<row, party, pid, ldr>> /\ UNCHANGED <<addr, at, zoned, reload>>
  BY DEF WorldHandle, bookVars
<1>3. PICK p \in Message : p = Head(toWorld[q])
  BY <1>1, <1>2, HeadTailProperties DEF Rest
<1>4. PICK to : /\ to = IF p.type \in {"PartyReload", "PartyDisband"}
                        THEN {addr[d] : d \in Rows(Book, p.who)} ELSE {addr[p.who]}
                /\ toMap' = [m \in Maps |-> IF m \in to THEN Append(toMap[m], p) ELSE toMap[m]]
  BY <1>3 DEF WorldHandle
<1>5. \A r \in Message : \A x \in Maps : Among(r, toWorld[x]) /\ ~(x = q /\ p = r) => Among(r, toWorld'[x])
  <2>1. Taken(toWorld', toWorld, q) /\ toWorld \in [Maps -> Seq(Message)]
    BY <1>1, <1>2 DEF Taken, Rest
  <2>2. QED BY <1>3, <2>1, MailTaken
<1>6. ASSUME NEW r \in Message, NEW m \in Maps, Among(r, toMap[m]) \/ (m \in to /\ r = p)
      PROVE  Among(r, toMap'[m])
  <2>1. PICK s \in Seq(Message) : s = toMap[m]
    BY <1>1 DEF Rest
  <2>2. Among(r, s) => Among(r, Append(s, p))
    BY AmongFacts
  <2>3. Among(p, Append(s, p))
    BY <2>1, AmongFacts
  <2>4. toMap'[m] = IF m \in to THEN Append(s, p) ELSE s
    BY <1>4, <2>1
  <2>5. QED BY <1>6, <2>1, <2>2, <2>3, <2>4
<1>7. ASSUME NEW c \in zoned, row[c] # NoRow, Announced(c)
      PROVE  Announced(c)'
  <2>1. c \in Chars /\ at[c] \in Maps /\ addr[c] \in {at[c], NoMap}
    BY <1>1 DEF Rest, HomeIsHere, Inv, Told
  <2>2. addr[c] = at[c]
    BY <1>1, <1>7, <2>1 DEF Sound
  <2>3. PICK y \in Chars : y = row[c].party
    BY <1>1, <1>7, <2>1, BookFields DEF Sound, Row
  <2>4. PICK r \in Message : r = PartyReload(y) /\ r.type = "PartyReload" /\ r.who = y
    BY ReloadFields
  <2>5. r = p => at[c] \in to
    BY <1>1, <1>4, <1>7, <2>1, <2>2, <2>3, <2>4 DEF Rows
  <2>6. c \in reload \/ (\E m \in Maps : Among(r, toWorld[m])) \/ Among(r, toMap[at[c]])
    BY <1>7, <2>3, <2>4 DEF Announced
  <2>7. c \in reload' \/ (\E m \in Maps : Among(r, toWorld'[m])) \/ Among(r, toMap'[at[c]])
    BY <1>2, <1>5, <1>6, <2>1, <2>5, <2>6
  <2>8. QED BY <1>2, <2>3, <2>4, <2>7 DEF Announced
<1>8. ASSUME NEW c \in zoned, row[c] = NoRow, Announced(c)
      PROVE  ~Joining(c)'
  BY <1>2, <1>8 DEF Joining
<1>9. LeaderIsMember' /\ JoinIsAnnounced'
  <2>1. LeaderIsMember'
    BY <1>2 DEF Inv, Told, LeaderIsMember, Members, Book
  <2>2. ASSUME NEW c \in Chars, Joining(c)', Headed(row[c].party)' PROVE Announced(c)'
    <3>1. c \in zoned /\ row[c] # NoRow /\ Joining(c) /\ Headed(row[c].party)
      BY <1>2, <2>2 DEF Joining, Headed
    <3>2. QED BY <1>7, <3>1 DEF Inv, Told, JoinIsAnnounced
  <2>3. QED BY <2>1, <2>2 DEF JoinIsAnnounced
<1>10. HomeIsHere'
  BY <1>2 DEF Inv, Told, HomeIsHere
<1>11. QED BY <1>9, <1>10 DEF Told

(* The messages that leave the book alone: a PartyReload is followed by    *)
(* the reload it asks for.                                                 *)
LEMMA NoticeTold ==
    ASSUME Inv, NEW m \in Maps, MapPartyReload(m) \/ MapPlayerKick(m) \/ MapPartyInvite(m)
    PROVE  Told'
<1>1. Rest /\ Book.row = row /\ zoned \subseteq Chars /\ row \in [Chars -> Row \cup {NoRow}]
  BY InvFacts, BookFields
<1>2. /\ UNCHANGED <<row, party, pid, ldr>> /\ UNCHANGED <<addr, at, zoned, toWorld>> /\ reload \subseteq reload'
  BY DEF MapPartyReload, MapPlayerKick, MapPartyInvite, bookVars
<1>3. PICK ty : Receive(m, ty) /\ (ty = "PartyReload" => MapPartyReload(m))
  BY DEF MapPartyReload, MapPlayerKick, MapPartyInvite
<1>4. \A r \in Message : \A x \in Maps : Among(r, toMap[x]) /\ ~(x = m /\ Head(toMap[m]) = r) => Among(r, toMap'[x])
  <2>1. Taken(toMap', toMap, m) /\ toMap \in [Maps -> Seq(Message)]
    BY <1>1, <1>3 DEF Taken, Receive, Rest
  <2>2. QED BY <2>1, MailTaken
<1>5. ASSUME NEW c \in zoned, row[c] # NoRow, Announced(c)
      PROVE  Announced(c)'
  <2>1. c \in Chars /\ at[c] \in Maps
    BY <1>1 DEF Rest
  <2>2. PICK y \in Chars : y = row[c].party
    BY <1>1, <1>5, <2>1 DEF Row
  <2>3. PICK r \in Message : r = PartyReload(y) /\ r.type = "PartyReload" /\ r.who = y
    BY ReloadFields
  <2>4. at[c] = m /\ Head(toMap[m]) = r => c \in reload'
    <3> SUFFICES ASSUME at[c] = m, Head(toMap[m]) = r PROVE c \in reload'
      OBVIOUS
    <3>1. MapPartyReload(m)
      BY <1>3, <2>3 DEF Receive
    <3>2. c \in Here(m) /\ c \in Rows(Book, r.who)
      BY <1>1, <1>5, <2>1, <2>2, <2>3 DEF Here, Rows
    <3>3. QED BY <3>1, <3>2 DEF MapPartyReload
  <2>5. c \in reload \/ (\E x \in Maps : Among(r, toWorld[x])) \/ Among(r, toMap[at[c]])
    BY <1>5, <2>2, <2>3 DEF Announced
  <2>6. c \in reload' \/ (\E x \in Maps : Among(r, toWorld'[x])) \/ Among(r, toMap'[at[c]])
    BY <1>2, <1>4, <2>1, <2>4, <2>5
  <2>7. QED BY <1>2, <2>2, <2>3, <2>6 DEF Announced
<1>6. LeaderIsMember' /\ JoinIsAnnounced'
  <2>1. LeaderIsMember'
    BY <1>2 DEF Inv, Told, LeaderIsMember, Members, Book
  <2>2. ASSUME NEW c \in Chars, Joining(c)', Headed(row[c].party)' PROVE Announced(c)'
    <3>1. c \in zoned /\ row[c] # NoRow /\ Joining(c) /\ Headed(row[c].party)
      BY <1>2, <2>2 DEF Joining, Headed
    <3>2. QED BY <1>5, <3>1 DEF Inv, Told, JoinIsAnnounced
  <2>3. QED BY <2>1, <2>2 DEF JoinIsAnnounced
<1>7. HomeIsHere'
  BY <1>2 DEF Inv, Told, HomeIsHere
<1>8. QED BY <1>6, <1>7 DEF Told

(* A message that is no PartyReload takes no announcement with it.         *)
LEMMA OtherMail ==
    ASSUME Inv, NEW m \in Maps, NEW ty, ty # "PartyReload", Receive(m, ty)
    PROVE  \A x \in Maps, p \in Chars : Among(PartyReload(p), toMap[x]) => Among(PartyReload(p), toMap'[x])
<1>1. toMap \in [Maps -> Seq(Message)]
  BY InvFacts DEF Rest
<1>2. Taken(toMap', toMap, m)
  BY DEF Taken, Receive
<1>3. ASSUME NEW x \in Maps, NEW p \in Chars, Among(PartyReload(p), toMap[x]) PROVE Among(PartyReload(p), toMap'[x])
  <2>1. PICK r \in Message : r = PartyReload(p) /\ r.type = "PartyReload"
    BY ReloadFields
  <2>2. Head(toMap[m]) # r
    BY <2>1 DEF Receive
  <2>3. QED BY <1>1, <1>2, <1>3, <2>1, <2>2, MailTaken
<1>4. QED BY <1>3

LEMMA MapPartyDisbandTold ==
    ASSUME Inv, NEW m \in Maps, MapPartyDisband(m)
    PROVE  Told'
<1>1. Receive(m, "PartyDisband") /\ UNCHANGED <<addr, at, zoned, reload>>
  BY DEF MapPartyDisband
<1>2. \A x \in Maps, p \in Chars : Among(PartyReload(p), toMap[x]) => Among(PartyReload(p), toMap'[x])
  BY <1>1, OtherMail
<1>3. Rest /\ Sound(Book, at, addr) /\ Fit(Book, Book) /\ zoned \subseteq Chars
  BY InvFacts
<1>4. CASE UNCHANGED <<bookVars, toWorld>>
  <2>1. \A c \in zoned : KeepsMail(c)
    BY <1>2, <1>3, <1>4 DEF KeepsMail, Rest
  <2>2. QED BY <1>1, <1>4, <2>1, SameTold
<1>5. CASE \E o \in Known(m, Head(toMap[m]).who) : Become(DisbandParty(Book, o), m)
  <2>1. Head(toMap[m]).who \in Chars
    BY <1>1, Received DEF Inv
  <2>2. PICK o \in Known(m, Head(toMap[m]).who) : Become(DisbandParty(Book, o), m)
    BY <1>5
  <2>3. o \in Objs
    BY <2>1, KnownHere DEF Inv
  <2>4. Sound(DisbandParty(Book, o), at, addr) /\ Fit(Book, DisbandParty(Book, o))
    BY <1>3, <2>3, DisbandSound, FitDisband
  <2>5. QED BY <1>1, <1>2, <2>2, <2>4, HandlerTold
<1>6. QED BY <1>4, <1>5 DEF MapPartyDisband

LEMMA MapPartyInviteResponseTold ==
    ASSUME Inv, NEW m \in Maps, MapPartyInviteResponse(m)
    PROVE  Told'
<1>1. Receive(m, "PartyInviteResponse") /\ UNCHANGED <<addr, at, zoned, reload>>
  BY DEF MapPartyInviteResponse
<1>2. \A x \in Maps, p \in Chars : Among(PartyReload(p), toMap[x]) => Among(PartyReload(p), toMap'[x])
  BY <1>1, OtherMail
<1>3. Rest /\ Sound(Book, at, addr) /\ Fit(Book, Book)
  BY InvFacts
<1>4. PICK a \in Chars, c \in Chars : a = Head(toMap[m]).who /\ c = Head(toMap[m]).from
  BY <1>1, Received DEF Inv
<1> DEFINE f == Founded(Book, a)
           h == AddThere(f, f.party[a], c)
<1>5. \/ Become(Book, m)
      \/ a \in Here(m) /\ Become(f, m)
      \/ a \in Here(m) /\ Leads(f, a) /\ Become(h, m)
  BY <1>4 DEF MapPartyInviteResponse
<1>6. a \in Here(m) => Sound(f, at, addr) /\ Fit(Book, f)
  <2>1. a \in Here(m) => at[a] # NoMap
    BY Names DEF Here
  <2>2. QED BY <1>3, <2>1, FoundedSound, FitFounded
<1> HIDE DEF f
<1>7. a \in Here(m) /\ Leads(f, a) => Sound(h, at, addr) /\ Fit(Book, h)
  <2> SUFFICES ASSUME a \in Here(m), Leads(f, a) PROVE Sound(h, at, addr) /\ Fit(Book, h)
    OBVIOUS
  <2>1. f.party[a] \in Objs /\ f.pid[f.party[a]] \in Chars
    BY <1>6, BookFields DEF Sound, Leads
  <2>2. QED BY <1>6, <2>1, AddThereSound, FitAddThere
<1> HIDE DEF h
<1>8. \E b : Sound(b, at, addr) /\ Fit(Book, b) /\ Become(b, m)
  BY <1>3, <1>5, <1>6, <1>7
<1>9. QED BY <1>1, <1>2, <1>8, HandlerTold

LEMMA ReloadPartyTold ==
    ASSUME Inv, NEW c \in Chars, ReloadParty(c)
    PROVE  Told'
<1>1. Rest /\ at[c] \in Maps /\ row[c] # NoRow /\ zoned \subseteq Chars
  BY InvFacts DEF ReloadParty, Due, Rest
<1>2. UNCHANGED <<addr, at, zoned, toMap>>
  BY DEF ReloadParty
<1>3. /\ Sound(Book, at, addr) /\ Book.row = row /\ Book.party = party /\ Book.ldr = ldr /\ Pointed(Book)
  BY InvFacts DEF Fit
<1>4. PICK b : b = Linked(c)
  OBVIOUS
<1>5. /\ Sound(b, at, addr) /\ b.party[c] \in Objs /\ b.row = row /\ b.ldr = ldr /\ b.out = << >>
      /\ \A d \in Chars \ {c} : b.party[d] = party[d]
      /\ party[c] = b.party[c] \/ party[c] = NoObj
  BY <1>1, <1>4, LinkedSound DEF Inv
<1>6. PICK o \in Objs : o = b.party[c]
  BY <1>5
<1>7. PICK l \in LeaderViews(b, o) : Become([b EXCEPT !.ldr[o] = l], at[c])
  BY <1>4, <1>6 DEF ReloadParty
<1>8. reload' = reload \ Members(b, o)
  BY <1>4, <1>6 DEF ReloadParty
<1> DEFINE n == [b EXCEPT !.ldr[o] = l]
<1>9. ASSUME NEW x \in Objs \ {o}, NEW d \in Chars, b.party[d] = x, b.ldr[x] \in Chars
      PROVE  b.party[b.ldr[x]] = x
  <2>1. d # c /\ Book.party[d] = x /\ Book.ldr[x] = b.ldr[x]
    BY <1>3, <1>5, <1>6, <1>9
  <2>2. party[b.ldr[x]] = x
    BY <1>3, <1>9, <2>1 DEF Pointed
  <2>3. b.ldr[x] # c
    BY <1>5, <1>6, <2>2, Names
  <2>4. QED BY <1>5, <1>9, <2>2, <2>3
<1>10. Sound(n, at, addr) /\ n.row = row /\ n.party = b.party /\ Pointed(n)
  BY <1>5, <1>9, RefreshPointed
<1>11. Become(n, at[c])
  BY <1>7
<1> HIDE DEF n
<1>12. Tells(Book, n)
  <2> SUFFICES ASSUME NEW d \in Chars, NEW p \in Chars, Waits(n, d, p) PROVE Waits(Book, d, p)
    BY DEF Tells
  <2>1. party[d] = NoObj
    BY <1>5, <1>10, Names DEF Waits
  <2>2. QED BY <1>3, <1>10, <2>1 DEF Waits, Fellow
<1>13. Fit(Book, n)
  BY <1>10, <1>12 DEF Fit
<1>14. \A d \in zoned : d \in reload /\ n.party[d] = NoObj => d \in reload'
  BY <1>1, <1>6, <1>8, <1>10, Names DEF Members
<1>15. QED BY <1>1, <1>2, <1>10, <1>11, <1>13, <1>14, HandlerTold

LEMMA DelMemberTold ==
    ASSUME Inv, NEW c \in Chars, DelMember(c)
    PROVE  Told'
<1>1. /\ Rest /\ at[c] \in Maps /\ row[c] = NoRow /\ zoned \subseteq Chars
      /\ UNCHANGED <<addr, at, zoned, toMap>>
  BY InvFacts DEF DelMember, Due, Rest
<1>2. /\ Sound(Book, at, addr) /\ Book.row = row /\ Book.party = party /\ Fit(Book, Book) /\ Book \in Books
  BY InvFacts
<1>3. PICK B : B = Book
  OBVIOUS
<1>4. CASE reload' = reload \ {c} /\ UNCHANGED <<bookVars, task, toWorld>>
  <2>1. LeaderIsMember' /\ JoinIsAnnounced'
    <3>1. UNCHANGED <<row, party, pid, ldr>>
      BY <1>4 DEF bookVars
    <3>2. LeaderIsMember'
      BY <3>1 DEF Inv, Told, LeaderIsMember, Members, Book
    <3>3. ASSUME NEW d \in Chars, Joining(d)', Headed(row[d].party)' PROVE Announced(d)'
      <4>1. d # c /\ Joining(d) /\ Headed(row[d].party)
        BY <1>1, <3>1, <3>3 DEF Joining, Headed
      <4>2. Announced(d)
        BY <4>1 DEF Inv, Told, JoinIsAnnounced
      <4>3. QED BY <1>1, <1>4, <3>1, <4>1, <4>2 DEF Announced
    <3>4. QED BY <3>2, <3>3 DEF JoinIsAnnounced
  <2>2. HomeIsHere'
    BY <1>1 DEF Inv, Told, HomeIsHere
  <2>3. QED BY <2>1, <2>2 DEF Told
<1>5. CASE /\ party[c] # NoObj /\ RemovePartyLeader(Book, c, "reload") /\ reload' = reload \ {c}
  <2>1. PICK n : Sound(n, at, addr) /\ Fit(Book, n) /\ Become(n, at[c]) /\ n.row[c] = NoRow
    <3>1. CASE Become(Book, at[c])
      BY <1>1, <1>2, <3>1
    <3>2. CASE Become(DisbandAndTell(Book, party[c]), at[c])
      <4>1. party[c] \in Objs /\ Book.pid[party[c]] \in Chars
        BY <1>2, <1>5, BookFields, Names DEF Sound
      <4>2. /\ Sound(DisbandAndTell(Book, party[c]), at, addr) /\ Fit(Book, DisbandAndTell(Book, party[c]))
            /\ DisbandAndTell(Book, party[c]).row[c] = NoRow
        BY <1>2, <4>1, DisbandSound, FitDisband
      <4>3. QED BY <3>2, <4>2
    <3>3. QED BY <1>5, <3>1, <3>2 DEF RemovePartyLeader
  <2>2. \A d \in zoned : d \in reload /\ n.party[d] = NoObj /\ n.row[d] # NoRow => d \in reload'
    BY <1>5, <2>1
  <2>3. QED BY <1>1, <2>1, <2>2, HandlerTold
<1>6. CASE /\ party[c] # NoObj /\ ldr[party[c]] # c
           /\ \E l \in LeaderViews([Book EXCEPT !.party[c] = NoObj], party[c]) :
                 Become([[Book EXCEPT !.party[c] = NoObj] EXCEPT !.ldr[party[c]] = l], at[c])
           /\ reload' = reload \ (Members([Book EXCEPT !.party[c] = NoObj], party[c]) \cup {c})
  <2>1. PICK b : b = [B EXCEPT !.party[c] = NoObj]
    OBVIOUS
  <2>2. /\ Sound(b, at, addr) /\ b.row = B.row /\ b.ldr = B.ldr
        /\ \A d \in Chars : b.party[d] = IF d = c THEN NoObj ELSE B.party[d]
    <3>1. Sound(B, at, addr)
      BY <1>2, <1>3
    <3> DEFINE j == [B EXCEPT !.party[c] = NoObj]
    <3>2. /\ Sound(j, at, addr) /\ j.row = B.row /\ j.pid = B.pid /\ j.ldr = B.ldr /\ j.out = B.out
          /\ \A d \in Chars : j.party[d] = IF d = c THEN NoObj ELSE B.party[d]
      BY <3>1, QuitSound, ZenonT(60)
    <3> HIDE DEF j
    <3>3. b = j
      BY <2>1 DEF j
    <3>4. QED BY <3>2, <3>3
  <2>3. /\ B.party = party /\ B.ldr = ldr /\ B.row = row /\ Pointed(B)
    BY <1>2, <1>3, InvFacts DEF Fit
  <2>4. PICK o \in Objs : o = party[c]
    BY <1>2, <1>6, BookFields DEF Sound
  <2>5. PICK l \in LeaderViews(b, o) : Become([b EXCEPT !.ldr[o] = l], at[c])
    BY <1>3, <1>6, <2>1, <2>4
  <2>6. reload' = reload \ (Members(b, o) \cup {c})
    BY <1>3, <1>6, <2>1, <2>4
  <2> DEFINE n == [b EXCEPT !.ldr[o] = l]
  <2>7. ASSUME NEW x \in Objs \ {o}, NEW d \in Chars, b.party[d] = x, b.ldr[x] \in Chars
        PROVE  b.party[b.ldr[x]] = x
    <3>1. B.party[d] = x
      BY <2>2, <2>7, Names
    <3>2. B.party[b.ldr[x]] = x
      BY <2>2, <2>3, <2>7, <3>1 DEF Pointed
    <3>3. b.ldr[x] # c
      BY <2>3, <2>4, <3>2
    <3>4. QED BY <2>2, <2>7, <3>2, <3>3
  <2>8. Sound(n, at, addr) /\ n.row = row /\ n.party = b.party /\ Pointed(n)
    BY <2>2, <2>3, <2>7, RefreshPointed
  <2>9. Become(n, at[c])
    BY <2>5
  <2> HIDE DEF n
  <2>10. Tells(B, n)
    <3> SUFFICES ASSUME NEW d \in Chars, NEW p \in Chars, Waits(n, d, p) PROVE Waits(B, d, p)
      BY DEF Tells
    <3>1. d # c
      BY <1>1, <2>8 DEF Waits, Fellow
    <3>2. B.party[d] = NoObj
      BY <2>2, <2>8, <3>1 DEF Waits
    <3>3. QED BY <2>3, <2>8, <3>2 DEF Waits, Fellow
  <2>11. Fit(Book, n)
    BY <1>3, <2>8, <2>10 DEF Fit
  <2>12. \A d \in zoned : d \in reload /\ n.party[d] = NoObj /\ n.row[d] # NoRow => d \in reload'
    BY <1>1, <2>4, <2>6, <2>8, Names DEF Members
  <2>13. QED BY <1>1, <2>8, <2>9, <2>11, <2>12, HandlerTold
<1>7. QED BY <1>4, <1>5, <1>6 DEF DelMember

-----------------------------------------------------------------------------
LEMMA ToldInit ==
    ASSUME Init
    PROVE  Told
BY Names DEF Init, Told, LeaderIsMember, JoinIsAnnounced, Joining, HomeIsHere

LEMMA ToldNext ==
    ASSUME Inv, [Next]_vars
    PROVE  Told'
<1>1. ASSUME NEW c \in Chars, PlayerNext(c) PROVE Told'
  <2>1. CASE \E d \in Chars : Invite(c, d) \/ Strike(c, d) \/ PassLead(c, d)
    BY <2>1, InviteTold, StrikeTold, PassLeadTold
  <2>2. CASE \E m \in Maps : ZoneOut(c, m)
    BY <2>2, ZoneOutTold
  <2>3. CASE \E b \in BOOLEAN : Depart(c, b) \/ Logoff(c, b)
    BY <2>3, DepartTold, LogoffTold
  <2>4. QED BY <1>1, <2>1, <2>2, <2>3, AcceptTold, DeclineTold, LeaveTold, BreakupTold, ArriveTold,
               LoseTold, TimeOutTold DEF PlayerNext
<1>2. ASSUME NEW c \in Chars, PostTick(c) PROVE Told'
  BY <1>2, ReloadPartyTold, DelMemberTold DEF PostTick
<1>3. ASSUME NEW m \in Maps, WorldHandle(m) \/ MapHandle(m) PROVE Told'
  BY <1>3, WorldHandleTold, NoticeTold, MapPartyDisbandTold, MapPartyInviteResponseTold,
     FinishRemovalTold DEF MapHandle
<1>4. CASE UNCHANGED vars
  <2>1. UNCHANGED bookVars /\ UNCHANGED <<addr, at>> /\ zoned' = zoned /\ reload' = reload
        /\ UNCHANGED <<toWorld, toMap>>
    BY <1>4 DEF vars
  <2>2. QED BY <2>1, SilentMail, SameTold
<1>5. QED BY <1>1, <1>2, <1>3, <1>4 DEF Next

(* m_PLeader never points to somebody who is not in the CParty, whatever   *)
(* is late, expires or is done by two maps at once: SetLeader,             *)
(* RefreshFlags, RemoveMember, RemovePartyLeader, DisbandParty and         *)
(* PopMember leave it to a member, to nobody, or to a destroyed leader.    *)
THEOREM LeadersAreMembers == Spec => []LeaderIsMember
<1>1. Init => Inv
  BY TypedInit, ToldInit DEF Inv
<1>2. Inv /\ [Next]_vars => Inv'
  BY TypedNext, ToldNext DEF Inv
<1>3. QED BY <1>1, <1>2, PTL DEF Spec, Inv, Told

(* Whoever joins a party that is headed is going to be told, whatever is   *)
(* late: a party that is renamed while messages name the old one sends     *)
(* another that names the new one (AddMember, SetLeader, RemoveMember,     *)
(* RemovePartyLeader, AssignPartyRole, and world's handling of it).        *)
THEOREM JoinsAreAnnounced == Spec => []JoinIsAnnounced
<1>1. Init => Inv
  BY TypedInit, ToldInit DEF Inv
<1>2. Inv /\ [Next]_vars => Inv'
  BY TypedNext, ToldNext DEF Inv
<1>3. QED BY <1>1, <1>2, PTL DEF Spec, Inv, Told
=============================================================================
