------------------------ MODULE SessionHandoffProofs ------------------------
(***************************************************************************)
(* Proofs about SessionHandoff, for any maps, zones, clients and bounds:   *)
(* that a character is present in one zone of one map at most, types, that *)
(* the session row follows the character while nothing is overtaken, and   *)
(* that the model implements CharacterPlace.                               *)
(***************************************************************************)
EXTENDS SessionHandoff, TLAPS

(* The part of the types that the sessions rest on.                        *)
SessType ==
    /\ posZone \in Zones /\ posPrev \in Zones
    /\ sess \in [Maps -> [Clients -> Session \cup {NoSession}]]

(* A character that is in a zone, or was loaded to enter one of this map,  *)
(* is where the database has it.                                           *)
Enters(s, m) == s.status = "waiting" /\ s.char = "loaded" /\ MapOf[s.zone] = m
Located ==
    \A m \in Maps, k \in Clients :
       Has(m, k) => \/ /\ sess[m][k].char # "in"
                       /\ ~Enters(sess[m][k], m)
                    \/ sess[m][k].zone = posZone /\ MapOf[posZone] = m

IInv == SessType /\ OneSession /\ Located

(* Lookups after a session is set.                                         *)
LEMMA SetSessionLookup ==
    ASSUME SessType, NEW m \in Maps, NEW k \in Clients, NEW s \in Session \cup {NoSession},
           SetSession(m, k, s)
    PROVE  /\ sess' \in [Maps -> [Clients -> Session \cup {NoSession}]]
           /\ \A n \in Maps, j \in Clients :
                 sess'[n][j] = IF n = m /\ j = k THEN s ELSE sess[n][j]
BY DEF SetSession, SessType

LEMMA MapOfType == ASSUME NEW z \in Zones PROVE MapOf[z] \in Maps
BY HandoffAssumption

LEMMA LoadedType ==
    ASSUME SessType, NEW st \in {"waiting", "accepted", "pending_zone"}
    PROVE  /\ Loaded(st) \in Session /\ Loaded(st).status = st /\ Loaded(st).char = "loaded"
           /\ Loaded(st).zone = posZone
BY DEF Loaded, Session, SessType

(* Steps that set one session keep the invariant if the new one is placed  *)
(* well.                                                                   *)
LEMMA OneSet ==
    ASSUME IInv, NEW m \in Maps, NEW k \in Clients, NEW s \in Session,
           Has(m, k), SetSession(m, k, s), pend' = pend, UNCHANGED <<posZone, posPrev>>,
           \/ s.char # "in" /\ ~Enters(s, m)
           \/ s.zone = posZone /\ MapOf[posZone] = m
    PROVE  IInv'
<1>1. /\ sess' \in [Maps -> [Clients -> Session \cup {NoSession}]]
      /\ \A n \in Maps, j \in Clients :
            sess'[n][j] = IF n = m /\ j = k THEN s ELSE sess[n][j]
  BY SetSessionLookup DEF IInv
<1>2. SessType'
  BY <1>1 DEF IInv, SessType
<1>3. s # NoSession
  BY SessionAssumption
<1>4. \A n \in Maps, j \in Clients : Has(n, j)' <=> Has(n, j)
  BY <1>1, <1>3 DEF Has
<1>5. OneSession'
  BY <1>4 DEF IInv, OneSession, SessionsOn
<1>6. Located'
  BY <1>1, <1>4 DEF IInv, Located, Enters
<1> QED
  BY <1>2, <1>5, <1>6 DEF IInv

LEMMA OneGone ==
    ASSUME IInv, NEW m \in Maps, NEW k \in Clients,
           SetSession(m, k, NoSession), pend' = pend, UNCHANGED <<posZone, posPrev>>
    PROVE  IInv'
<1>1. /\ sess' \in [Maps -> [Clients -> Session \cup {NoSession}]]
      /\ \A n \in Maps, j \in Clients :
            sess'[n][j] = IF n = m /\ j = k THEN NoSession ELSE sess[n][j]
  BY SetSessionLookup DEF IInv
<1>2. SessType'
  BY <1>1 DEF IInv, SessType
<1>3. \A n \in Maps, j \in Clients : Has(n, j)' => Has(n, j) /\ sess'[n][j] = sess[n][j]
  BY <1>1 DEF Has
<1>4. OneSession'
  BY <1>3 DEF IInv, OneSession, SessionsOn
<1>5. Located'
  BY <1>3 DEF IInv, Located, Enters
<1> QED
  BY <1>2, <1>4, <1>5 DEF IInv

LEMMA Same ==
    ASSUME IInv, UNCHANGED <<sess, posZone, posPrev>>, pend' \subseteq pend
    PROVE  IInv'
<1>1. SessType'
  BY DEF IInv, SessType
<1>2. OneSession'
  BY DEF IInv, OneSession, SessionsOn, Has
<1>3. Located'
  BY DEF IInv, Located, Has, Enters
<1> QED
  BY <1>1, <1>2, <1>3 DEF IInv

LEMMA SessionHas ==
    ASSUME SessType, NEW m \in Maps, NEW k \in Clients, Has(m, k)
    PROVE  sess[m][k] \in Session
BY DEF SessType, Has

LEMMA CharZoneStep ==
    ASSUME IInv, NEW m \in Maps, MapCharZone(m)
    PROVE  IInv'
<1> USE DEF MapCharZone
<1>1. SessType'
  BY DEF IInv, SessType, dbVars
<1>2. OneSession'
  BY DEF IInv, OneSession, SessionsOn, Has, Absent
<1>3. Located'
  BY DEF IInv, Located, Has, Enters, dbVars
<1> QED
  BY <1>1, <1>2, <1>3 DEF IInv

LEMMA FirstLoginStep ==
    ASSUME IInv, NEW m \in Maps, NEW k \in Clients, FirstLogin(m, k)
    PROVE  IInv'
<1>0. m \in pend /\ pend' = pend \ {m} /\ UNCHANGED <<posZone, posPrev>> /\ SessType
  BY DEF FirstLogin, dbVars, IInv
<1>1. CASE UNCHANGED sess
  BY <1>0, <1>1, Same
<1>2. CASE SetSession(m, k, Loaded("waiting"))
  <2> DEFINE s == Loaded("waiting")
  <2>1. s \in Session /\ s.status = "waiting" /\ s.char = "loaded" /\ s.zone = posZone
    BY <1>0, LoadedType
  <2> HIDE DEF s
  <2>2. /\ sess' \in [Maps -> [Clients -> Session \cup {NoSession}]]
        /\ \A n \in Maps, j \in Clients :
              sess'[n][j] = IF n = m /\ j = k THEN s ELSE sess[n][j]
    BY <1>0, <1>2, <2>1, SetSessionLookup DEF s
  <2>3. SessType'
    BY <1>0, <2>2 DEF SessType
  <2>4. SessionsOn(m) = {}
    BY <1>0 DEF IInv, OneSession
  <2>5. \A n \in Maps : SessionsOn(n)' \subseteq IF n = m THEN {k} ELSE SessionsOn(n)
    BY <2>2, <2>4 DEF SessionsOn, Has
  <2>6. OneSession'
    BY <1>0, <2>5 DEF IInv, OneSession
  <2>7. Located'
    BY <1>0, <2>1, <2>2 DEF IInv, Located, Has, Enters
  <2> QED
    BY <2>3, <2>6, <2>7 DEF IInv
<1> QED
  BY <1>1, <1>2 DEF FirstLogin

LEMMA EnterZoneStep ==
    ASSUME IInv, NEW m \in Maps, NEW k \in Clients, EnterZone(m, k)
    PROVE  IInv'
<1> DEFINE s == sess[m][k]
           e == IF s.status = "waiting" /\ s.char = "loaded" THEN s ELSE Loaded(s.status)
<1>1. /\ Has(m, k) /\ pend' = pend /\ UNCHANGED <<posZone, posPrev>>
      /\ SessType /\ Located
  BY DEF EnterZone, IInv
<1>2. s \in Session
  BY <1>1, SessionHas
<1>3. e \in Session /\ e.char = "loaded"
  BY <1>1, <1>2, LoadedType DEF Session
<1>4. MapOf[e.zone] = m => e.zone = posZone
  BY <1>1, <1>2, LoadedType DEF Located, Enters, Session
<1>5. \/ MapOf[e.zone] = m /\ SetSession(m, k, [e EXCEPT !.status = "accepted", !.char = "in"])
      \/ MapOf[e.zone] # m /\ SetSession(m, k, [e EXCEPT !.status = "accepted"])
  BY DEF EnterZone
<1> HIDE DEF e, s
<1>6. CASE MapOf[e.zone] = m /\ SetSession(m, k, [e EXCEPT !.status = "accepted", !.char = "in"])
  <2> DEFINE f == [e EXCEPT !.status = "accepted", !.char = "in"]
  <2>1. f \in Session /\ f.zone = posZone /\ MapOf[posZone] = m
    BY <1>3, <1>4, <1>6 DEF Session
  <2> HIDE DEF f
  <2>2. SetSession(m, k, f)
    BY <1>6 DEF f
  <2> QED
    BY <1>1, <2>1, <2>2, OneSet
<1>7. CASE MapOf[e.zone] # m /\ SetSession(m, k, [e EXCEPT !.status = "accepted"])
  <2> DEFINE f == [e EXCEPT !.status = "accepted"]
  <2>1. f \in Session /\ f.char # "in" /\ ~Enters(f, m)
    BY <1>3 DEF Session, Enters
  <2> HIDE DEF f
  <2>2. SetSession(m, k, f)
    BY <1>7 DEF f
  <2> QED
    BY <1>1, <2>1, <2>2, OneSet
<1> QED
  BY <1>5, <1>6, <1>7

LEMMA SendToZoneStep ==
    ASSUME IInv, NEW m \in Maps, NEW k \in Clients, NEW z \in Zones, SendToZone(m, k, z)
    PROVE  IInv'
<1> DEFINE s == sess[m][k]
           f == [RemoveCharFromZone(s, FALSE) EXCEPT !.zone = z]
<1>1. /\ Has(m, k) /\ s.char = "in" /\ pend' = pend /\ posZone' = z
      /\ posPrev' \in {s.prev, s.zone} /\ SessType /\ Located /\ OneSession
  BY DEF SendToZone, IInv
<1>2. s \in Session
  BY <1>1, SessionHas
<1>3. f \in Session /\ f.char = "left" /\ f.status = "pending_zone"
  BY <1>2 DEF Session, RemoveCharFromZone
<1>4. MapOf[posZone] = m
  BY <1>1 DEF Located
<1> HIDE DEF f
<1>5. /\ sess' \in [Maps -> [Clients -> Session \cup {NoSession}]]
      /\ \A n \in Maps, j \in Clients :
            sess'[n][j] = IF n = m /\ j = k THEN f ELSE sess[n][j]
  <2>1. SetSession(m, k, f)
    BY DEF SendToZone, f
  <2> QED
    BY <1>1, <1>3, <2>1, SetSessionLookup
<1>6. SessType'
  BY <1>1, <1>2, <1>5 DEF SessType, Session
<1>7. f # NoSession
  BY <1>3, SessionAssumption
<1>8. \A n \in Maps, j \in Clients : Has(n, j)' <=> Has(n, j)
  BY <1>1, <1>5, <1>7 DEF Has
<1>9. OneSession'
  BY <1>1, <1>8 DEF OneSession, SessionsOn
<1>10. ASSUME NEW n \in Maps, NEW j \in Clients, Has(n, j)'
       PROVE  sess'[n][j].char # "in" /\ ~Enters(sess'[n][j], n)
  <2>1. CASE n = m /\ j = k
    BY <1>3, <1>5, <2>1 DEF Enters
  <2>2. CASE n = m /\ j # k
    BY <1>1, <1>8, <1>10, <2>2 DEF OneSession, SessionsOn
  <2>3. CASE n # m
    BY <1>1, <1>4, <1>5, <1>8, <1>10, <2>3 DEF Located
  <2> QED
    BY <2>1, <2>2, <2>3
<1>11. Located'
  BY <1>10 DEF Located, Enters
<1> QED
  BY <1>6, <1>9, <1>11 DEF IInv

LEMMA CrashStep ==
    ASSUME IInv, NEW m \in Maps, CrashMap(m)
    PROVE  IInv'
<1>1. /\ UNCHANGED <<posZone, posPrev>> /\ pend' \subseteq pend
      /\ sess' = [sess EXCEPT ![m] = [k \in Clients |-> NoSession]]
  BY DEF CrashMap, dbVars
<1>2. SessType'
  BY <1>1 DEF IInv, SessType
<1>3. \A n \in Maps, j \in Clients : Has(n, j)' => Has(n, j) /\ sess'[n][j] = sess[n][j]
  BY <1>1 DEF Has, IInv, SessType
<1>4. OneSession'
  BY <1>1, <1>3 DEF IInv, OneSession, SessionsOn
<1>5. Located'
  BY <1>1, <1>3 DEF IInv, Located, Enters
<1> QED
  BY <1>2, <1>4, <1>5 DEF IInv

LEMMA SessionEndStep ==
    ASSUME IInv, NEW m \in Maps, NEW k \in Clients,
           CloseSession(m, k) \/ CleanupSession(m, k)
    PROVE  IInv'
<1>1. SetSession(m, k, NoSession) /\ pend' = pend /\ UNCHANGED <<posZone, posPrev>>
  BY DEF CloseSession, CleanupSession, Destroy
<1> QED
  BY <1>1, OneGone

LEMMA KillStep ==
    ASSUME IInv, NEW m \in Maps, MapKillSession(m)
    PROVE  IInv'
<1>1. pend' = pend /\ UNCHANGED <<posZone, posPrev>>
  BY DEF MapKillSession
<1>2. CASE UNCHANGED sess
  BY <1>1, <1>2, Same
<1>3. CASE \E k \in SessionsOn(m) : Destroy(m, k)
  <2>1. PICK k \in SessionsOn(m) : SetSession(m, k, NoSession)
    BY <1>3 DEF Destroy
  <2>2. k \in Clients
    BY DEF SessionsOn
  <2> QED
    BY <1>1, <2>1, <2>2, OneGone
<1> QED
  BY <1>2, <1>3 DEF MapKillSession

LEMMA TakenOutStep ==
    ASSUME IInv, NEW m \in Maps, NEW k \in Clients,
           SendDisconnect(m, k) \/ SendZonePacket(m, k)
    PROVE  IInv'
<1>0. Has(m, k) /\ pend' = pend /\ UNCHANGED <<posZone, posPrev>> /\ SessType
  BY DEF SendDisconnect, SendZonePacket, Talks, dbVars, IInv
<1>1. sess[m][k] \in Session
  BY <1>0, SessionHas
<1>2. CASE SendDisconnect(m, k)
  <2> DEFINE f == RemoveCharFromZone(sess[m][k], TRUE)
  <2>1. f \in Session /\ f.char # "in" /\ ~Enters(f, m)
    BY <1>1 DEF Session, Enters, RemoveCharFromZone
  <2> HIDE DEF f
  <2>2. SetSession(m, k, f)
    BY <1>2 DEF SendDisconnect, f
  <2> QED
    BY <1>0, <2>1, <2>2, OneSet
<1>3. CASE SendZonePacket(m, k)
  <2> DEFINE f == [sess[m][k] EXCEPT !.char = "none"]
  <2>1. f \in Session /\ f.char # "in" /\ ~Enters(f, m)
    BY <1>1 DEF Session, Enters
  <2> HIDE DEF f
  <2>2. SetSession(m, k, f)
    BY <1>3 DEF SendZonePacket, f
  <2> QED
    BY <1>0, <2>1, <2>2, OneSet
<1> QED
  BY <1>2, <1>3

(* One case per action.                                                    *)
LEMMA Inductive == IInv /\ [Next]_vars => IInv'
<1> SUFFICES ASSUME IInv, [Next]_vars PROVE IInv'
  OBVIOUS
<1>1. CASE UNCHANGED vars
  BY <1>1, Same DEF vars, dbVars
<1>2. CASE \/ \E k \in Clients : LoginBegin(k) \/ LoseClient(k)
           \/ LoginCheck \/ LoginDelete \/ LoginInsert \/ LoginAnnounce \/ AgeRow
           \/ \E q \in Peers : WorldHandle(q)
  <2>1. UNCHANGED <<sess, posZone, posPrev, pend>>
    BY <1>2 DEF LoginBegin, LoginCheck, LoginDelete, LoseClient, LoginInsert, LoginAnnounce,
                AgeRow, WorldHandle, dbVars
  <2> QED
    BY <2>1, Same
<1>3. CASE \E m \in Maps : MapNext(m)
  <2>1. PICK m \in Maps : MapNext(m)
    BY <1>3
  <2>2. CASE MapCharZone(m)
    BY <2>2, CharZoneStep
  <2>3. CASE MapKillSession(m)
    BY <2>3, KillStep
  <2>4. CASE CleanupPending(m) \/ StartMap(m)
    <3>1. UNCHANGED <<sess, posZone, posPrev>> /\ pend' \subseteq pend
      BY <2>4 DEF CleanupPending, StartMap
    <3> QED
      BY <3>1, Same
  <2>5. CASE CrashMap(m)
    BY <2>5, CrashStep
  <2>6. ASSUME NEW k \in Clients,
               \/ FirstLogin(m, k) \/ EnterZone(m, k)
               \/ SendZonePacket(m, k) \/ ResendZonePacket(m, k) \/ CloseSession(m, k)
               \/ SendDisconnect(m, k) \/ CleanupSession(m, k)
               \/ \E z \in Zones : SendToZone(m, k, z)
        PROVE  IInv'
    <3>1. CASE FirstLogin(m, k)
      BY <3>1, FirstLoginStep
    <3>2. CASE EnterZone(m, k)
      BY <3>2, EnterZoneStep
    <3>3. CASE SendZonePacket(m, k) \/ SendDisconnect(m, k)
      BY <3>3, TakenOutStep
    <3>4. CASE ResendZonePacket(m, k)
      <4>1. UNCHANGED <<sess, posZone, posPrev, pend>>
        BY <3>4 DEF ResendZonePacket, dbVars
      <4> QED
        BY <4>1, Same
    <3>5. CASE CloseSession(m, k) \/ CleanupSession(m, k)
      BY <3>5, SessionEndStep
    <3>6. CASE \E z \in Zones : SendToZone(m, k, z)
      BY <3>6, SendToZoneStep
    <3> QED
      BY <2>6, <3>1, <3>2, <3>3, <3>4, <3>5, <3>6
  <2> QED
    BY <2>1, <2>2, <2>3, <2>4, <2>5, <2>6 DEF MapNext
<1> QED
  BY <1>1, <1>2, <1>3 DEF Next

LEMMA Start == Init => IInv
BY HandoffAssumption DEF Init, IInv, SessType, OneSession, SessionsOn, Has, Located

LEMMA Enough == IInv => OneEntity
BY DEF IInv, OneSession, SessionsOn, Located, OneEntity, Present

(* A map process never holds two sessions of one character, nor a pending  *)
(* session beside one (createPendingSession is reached only when           *)
(* getSessionByCharId finds nothing).                                      *)
THEOREM SingleSession == Spec => []OneSession
<1>1. IInv => OneSession
  BY DEF IInv
<1> QED
  BY <1>1, Start, Inductive, PTL DEF Spec

(* A character is never in two zones at once, for any number of maps,      *)
(* zones, addresses, logins, zone changes and crashes, and whatever        *)
(* messages and timeouts overtake each other.                              *)
THEOREM NeverInTwoZones == Spec => []OneEntity
BY Start, Inductive, Enough, PTL DEF Spec

-----------------------------------------------------------------------------
(* Types.                                                                  *)

(* The row: without one its other columns are empty.                       *)
RowType ==
    /\ row = NoMap => port = NoClient /\ ~stale
    /\ row \in Maps \cup {NoMap} /\ port \in Clients \cup {NoClient} /\ stale \in BOOLEAN
ProcType ==
    /\ up \subseteq Maps /\ pend \subseteq Maps
    /\ login \in {"idle", "begun", "stale", "checked", "inserted"} /\ loginZone \in Zones
    /\ loginAddr \in Clients \cup {NoClient}
    /\ login # "idle" => loginAddr \in Clients
    /\ phase \in [Clients -> {"off", "joining", "playing"}] /\ goal \in [Clients -> Maps]
LinkType ==
    toWorld \in [Peers -> Seq(Message)] /\ toMap \in [Maps -> Seq(Message)]
CountType ==
    /\ moves \in Nat /\ logins \in Nat /\ crashes \in Nat
    /\ cut \in BOOLEAN /\ late \in BOOLEAN

Types == SessType /\ RowType /\ ProcType /\ LinkType /\ CountType

LEMMA MessageType ==
    /\ KillSession \in Message
    /\ \A z \in Zones : CharZone(z) \in Message
BY HandoffAssumption DEF KillSession, CharZone, Message

(* A message added to a link or taken from one leaves links of messages.   *)
LEMMA SendType ==
    ASSUME LinkType, NEW q \in Peers, NEW p \in Message, Send(q, p)
    PROVE  toWorld' \in [Peers -> Seq(Message)]
BY DEF LinkType, Send

LEMMA WorldLinks ==
    ASSUME LinkType, NEW q \in Peers, WorldHandle(q), posPrev \in Zones
    PROVE  LinkType'
<1> DEFINE p == Head(toWorld[q])
<1>1. toWorld[q] \in Seq(Message) /\ toWorld[q] # << >>
  BY DEF LinkType, WorldHandle
<1>2. p \in Message /\ Tail(toWorld[q]) \in Seq(Message)
  BY <1>1
<1>3. p.zone \in Zones
  BY <1>2 DEF Message
<1> HIDE DEF p
<1>4. ASSUME NEW m \in Maps, Forward(q, m, p) PROVE LinkType'
  <2>1. toWorld' \in [Peers -> Seq(Message)]
    BY <1>2, <1>4 DEF Forward, LinkType
  <2>2. toMap' \in [Maps -> Seq(Message)]
    BY <1>2, <1>4 DEF Forward, LinkType
  <2>3. QED BY <2>1, <2>2 DEF LinkType
<1>5. CASE toWorld' = [toWorld EXCEPT ![q] = Tail(@)] /\ UNCHANGED toMap
  BY <1>2, <1>5 DEF LinkType
<1>6. MapOf[p.zone] \in Maps /\ MapOf[posPrev] \in Maps
  BY <1>3, MapOfType
<1>7. QED BY <1>4, <1>5, <1>6 DEF WorldHandle, p

(* The row keeps its type.                                                 *)
LEMMA RowSteps ==
    ASSUME Types, [Next]_vars
    PROVE  RowType'
<1> USE DEF RowType
<1>1. RowType
  BY DEF Types
<1>2. KeepRow \/ DeleteRow => RowType'
  <2>1. CASE KeepRow
    BY <1>1, <2>1 DEF KeepRow
  <2>2. CASE DeleteRow
    BY <2>2, HandoffAssumption DEF DeleteRow
  <2>3. QED BY <2>1, <2>2
<1>3. UNCHANGED vars \/ UNCHANGED dbVars => RowType'
  BY <1>1 DEF vars, dbVars
<1>4. LoginInsert => RowType'
  <2>1. MapOf[loginZone] \in Maps /\ NoMap \notin Maps
    BY MapOfType, HandoffAssumption DEF Types, ProcType
  <2>2. QED BY <1>2, <2>1 DEF LoginInsert
<1>5. ASSUME NEW k \in Clients, UpdateSession(k) PROVE RowType'
  BY <1>1, <1>2, <1>5 DEF UpdateSession
<1>6. ASSUME NEW m \in Maps, NEW k \in Clients, NEW z \in Zones, SendToZone(m, k, z)
      PROVE  RowType'
  <2>1. MapOf[z] \in Maps /\ NoMap \notin Maps
    BY MapOfType, HandoffAssumption
  <2>2. QED BY <1>1, <1>6, <2>1 DEF SendToZone
<1>7. ASSUME NEW m \in Maps, NEW k \in Clients, SendZonePacket(m, k) PROVE RowType'
  BY <1>1, <1>2, <1>7 DEF SendZonePacket
<1>8. AgeRow => RowType'
  BY <1>1 DEF AgeRow
<1>9. ASSUME NEW k \in Clients, LoginBegin(k) \/ LoseClient(k) PROVE RowType'
  BY <1>3, <1>9 DEF LoginBegin, LoseClient
<1>10. LoginCheck \/ LoginDelete \/ LoginAnnounce \/ (\E q \in Peers : WorldHandle(q)) => RowType'
  BY <1>2, <1>3 DEF LoginCheck, LoginDelete, LoginAnnounce, WorldHandle
<1>11. ASSUME NEW m \in Maps,
              \/ MapCharZone(m) \/ MapKillSession(m)
              \/ CleanupPending(m) \/ CrashMap(m) \/ StartMap(m)
       PROVE  RowType'
  <2>1. UNCHANGED dbVars \/ KeepRow \/ DeleteRow
    BY <1>11 DEF MapCharZone, MapKillSession, Destroy, CleanupPending, CrashMap, StartMap
  <2>2. QED BY <1>2, <1>3, <2>1
<1>12. ASSUME NEW m \in Maps, NEW k \in Clients,
              \/ FirstLogin(m, k) \/ EnterZone(m, k) \/ ResendZonePacket(m, k)
              \/ CloseSession(m, k) \/ SendDisconnect(m, k) \/ CleanupSession(m, k)
       PROVE  RowType'
  <2>1. UNCHANGED dbVars \/ KeepRow \/ DeleteRow \/ UpdateSession(k)
    BY <1>12 DEF FirstLogin, EnterZone, ResendZonePacket, CloseSession, Destroy,
                 SendDisconnect, CleanupSession, SessionExpiry
  <2>2. QED BY <1>2, <1>3, <1>5, <2>1
<1>13. QED
  BY <1>3, <1>4, <1>6, <1>7, <1>8, <1>9, <1>10, <1>11, <1>12 DEF Next, MapNext

(* So do the processes, the clients, the links and the counters.           *)
LEMMA ProcSteps ==
    ASSUME Types, [Next]_vars
    PROVE  ProcType'
<1>0. ProcType /\ SessType
  BY DEF Types
<1>1. /\ \A z \in Zones : MapOf[z] \in Maps
      /\ \A m \in Maps, k \in Clients : Has(m, k) => sess[m][k].zone \in Zones
  BY <1>0, MapOfType, SessionHas DEF Session
<1> USE DEF ProcType
<1>2. ASSUME NEW k \in Clients, NEW m \in Maps, Steer(k, m)
      PROVE  /\ phase' \in [Clients -> {"off", "joining", "playing"}]
             /\ goal' \in [Clients -> Maps]
  BY <1>0, <1>2 DEF Steer
<1>3. UNCHANGED vars => ProcType'
  BY <1>0 DEF vars, loginVars, clientVars
<1>4. ASSUME NEW k \in Clients, LoginBegin(k) \/ LoseClient(k) PROVE ProcType'
  BY <1>0, <1>4 DEF LoginBegin, LoseClient, loginVars, clientVars, SessType
<1>5. LoginCheck \/ LoginDelete \/ LoginInsert => ProcType'
  BY <1>0 DEF LoginCheck, LoginDelete, LoginInsert, clientVars
<1>6. LoginAnnounce => ProcType'
  BY <1>0, <1>1, <1>2 DEF LoginAnnounce, clientVars
<1>7. AgeRow \/ (\E q \in Peers : WorldHandle(q)) => ProcType'
  BY <1>0 DEF AgeRow, WorldHandle, loginVars, clientVars
<1>8. ASSUME NEW m \in Maps,
             \/ MapCharZone(m) \/ MapKillSession(m)
             \/ CleanupPending(m) \/ CrashMap(m) \/ StartMap(m)
      PROVE  ProcType'
  BY <1>0, <1>8 DEF MapCharZone, MapKillSession, CleanupPending, CrashMap, StartMap,
                    loginVars, clientVars
<1>9. ASSUME NEW m \in Maps, NEW k \in Clients,
             \/ FirstLogin(m, k) \/ EnterZone(m, k)
             \/ CloseSession(m, k) \/ SendDisconnect(m, k) \/ CleanupSession(m, k)
             \/ \E z \in Zones : SendToZone(m, k, z)
      PROVE  ProcType'
  BY <1>0, <1>9 DEF FirstLogin, EnterZone, CloseSession, SendDisconnect, CleanupSession,
                    SendToZone, loginVars, clientVars
<1>10. ASSUME NEW m \in Maps, NEW k \in Clients, SendZonePacket(m, k) \/ ResendZonePacket(m, k)
       PROVE  ProcType'
  <2>1. MapOf[sess[m][k].zone] \in Maps
    BY <1>1, <1>10 DEF SendZonePacket, ResendZonePacket, Talks
  <2>2. /\ UNCHANGED <<up, pend, loginVars>>
        /\ Steer(k, MapOf[sess[m][k].zone]) \/ UNCHANGED <<phase, goal>>
    BY <1>10 DEF SendZonePacket, ResendZonePacket
  <2>3. QED BY <1>0, <1>2, <2>1, <2>2 DEF loginVars
<1>11. QED
  BY <1>3, <1>4, <1>5, <1>6, <1>7, <1>8, <1>9, <1>10 DEF Next, MapNext

LEMMA LinkSteps ==
    ASSUME Types, [Next]_vars
    PROVE  LinkType'
<1>0. LinkType /\ SessType
  BY DEF Types
<1>1. UNCHANGED links => LinkType'
  BY <1>0 DEF links, LinkType
<1>2. LoginAnnounce => LinkType'
  <2> SUFFICES ASSUME LoginAnnounce PROVE LinkType'
    OBVIOUS
  <2>1. CharZone(loginZone) \in Message /\ Login \in Peers
    BY MessageType DEF Types, ProcType, Peers
  <2>2. (Send(Login, CharZone(loginZone)) \/ UNCHANGED toWorld) /\ UNCHANGED toMap
    BY DEF LoginAnnounce
  <2>3. QED BY <1>0, <2>1, <2>2, SendType DEF LinkType
<1>3. ASSUME NEW q \in Peers, WorldHandle(q) PROVE LinkType'
  BY <1>0, <1>3, WorldLinks DEF SessType
<1>4. ASSUME NEW m \in Maps, MapCharZone(m) \/ MapKillSession(m) PROVE LinkType'
  <2>1. /\ toMap[m] # << >> /\ toMap' = [toMap EXCEPT ![m] = Tail(@)] /\ UNCHANGED toWorld
    BY <1>4 DEF MapCharZone, MapKillSession, Receive
  <2>2. toMap[m] \in Seq(Message)
    BY <1>0 DEF LinkType
  <2>3. Tail(toMap[m]) \in Seq(Message)
    BY <2>1, <2>2
  <2>4. QED BY <1>0, <2>1, <2>3 DEF LinkType
<1>5. ASSUME NEW m \in Maps, NEW k \in Clients, FirstLogin(m, k) PROVE LinkType'
  <2>1. Send(m, KillSession) \/ UNCHANGED toWorld
    BY <1>5 DEF FirstLogin
  <2>2. UNCHANGED toMap /\ m \in Peers
    BY <1>5 DEF FirstLogin, Peers
  <2>3. QED BY <1>0, <2>1, <2>2, SendType, MessageType DEF LinkType
<1>6. ASSUME NEW m \in Maps, NEW k \in Clients, SendZonePacket(m, k) PROVE LinkType'
  <2>1. sess[m][k].zone \in Zones /\ m \in Peers
    BY <1>0, <1>6, SessionHas DEF SendZonePacket, Talks, Session, Peers
  <2>2. Send(m, CharZone(sess[m][k].zone)) /\ UNCHANGED toMap
    BY <1>6 DEF SendZonePacket
  <2>3. QED BY <1>0, <2>1, <2>2, SendType, MessageType DEF LinkType
<1>7. ASSUME NEW m \in Maps, CrashMap(m) PROVE LinkType'
  BY <1>0, <1>7 DEF CrashMap, LinkType
<1>8. ASSUME NEW k \in Clients, LoginBegin(k) \/ LoseClient(k) PROVE LinkType'
  BY <1>1, <1>8 DEF LoginBegin, LoseClient
<1>9. UNCHANGED vars \/ LoginCheck \/ LoginDelete \/ LoginInsert \/ AgeRow => LinkType'
  BY <1>1 DEF vars, LoginCheck, LoginDelete, LoginInsert, AgeRow
<1>10. ASSUME NEW m \in Maps, CleanupPending(m) \/ StartMap(m) PROVE LinkType'
  BY <1>1, <1>10 DEF CleanupPending, StartMap
<1>11. ASSUME NEW m \in Maps, NEW k \in Clients,
              \/ EnterZone(m, k) \/ ResendZonePacket(m, k)
              \/ CloseSession(m, k) \/ SendDisconnect(m, k) \/ CleanupSession(m, k)
              \/ \E z \in Zones : SendToZone(m, k, z)
       PROVE  LinkType'
  BY <1>1, <1>11 DEF EnterZone, ResendZonePacket, CloseSession, SendDisconnect,
                     CleanupSession, SendToZone
<1>12. QED
  BY <1>2, <1>3, <1>4, <1>5, <1>6, <1>7, <1>8, <1>9, <1>10, <1>11 DEF Next, MapNext

LEMMA CountSteps ==
    ASSUME Types, [Next]_vars
    PROVE  CountType'
<1>0. CountType
  BY DEF Types
<1> USE <1>0 DEF CountType, budgets, history
<1>1. Overtake => late' \in BOOLEAN
  BY DEF Overtake
<1>2. UNCHANGED vars => CountType'
  BY DEF vars
<1>3. \/ LoginCheck \/ LoginDelete \/ LoginInsert \/ LoginAnnounce \/ AgeRow
      \/ \E q \in Peers : WorldHandle(q)
      => CountType'
  BY <1>1 DEF LoginCheck, LoginDelete, LoginInsert, LoginAnnounce, AgeRow, WorldHandle
<1>4. ASSUME NEW k \in Clients, LoginBegin(k) \/ LoseClient(k) PROVE CountType'
  BY <1>1, <1>4 DEF LoginBegin, LoseClient
<1>5. ASSUME NEW m \in Maps,
             \/ MapCharZone(m) \/ MapKillSession(m)
             \/ CleanupPending(m) \/ CrashMap(m) \/ StartMap(m)
      PROVE  CountType'
  <2>1. moves' \in Nat /\ logins' \in Nat /\ crashes' \in Nat
    BY <1>5 DEF MapCharZone, MapKillSession, CleanupPending, CrashMap, StartMap
  <2>2. cut' \in BOOLEAN
    BY <1>5, Zenon DEF MapCharZone, MapKillSession, CleanupPending, CrashMap, StartMap
  <2>3. late' \in BOOLEAN
    BY <1>1, <1>5, Zenon DEF MapCharZone, MapKillSession, CleanupPending, CrashMap, StartMap
  <2>4. QED BY <2>1, <2>2, <2>3
<1>6. ASSUME NEW m \in Maps, NEW k \in Clients,
             \/ FirstLogin(m, k) \/ EnterZone(m, k)
             \/ SendZonePacket(m, k) \/ ResendZonePacket(m, k) \/ CloseSession(m, k)
             \/ SendDisconnect(m, k) \/ CleanupSession(m, k)
             \/ \E z \in Zones : SendToZone(m, k, z)
      PROVE  CountType'
  <2> USE DEF FirstLogin, EnterZone, SendZonePacket, ResendZonePacket, CloseSession,
              SendDisconnect, CleanupSession, SendToZone
  <2>1. moves' \in Nat /\ logins' \in Nat /\ crashes' \in Nat
    <3>1. moves' \in {moves, moves + 1} /\ logins' = logins /\ crashes' = crashes
      BY <1>6, Zenon
    <3>2. QED BY <3>1
  <2>2. cut' \in BOOLEAN
    BY <1>6, Zenon
  <2>3. late' \in BOOLEAN
    BY <1>1, <1>6, Zenon
  <2>4. QED BY <2>1, <2>2, <2>3
<1>7. QED BY <1>2, <1>3, <1>4, <1>5, <1>6 DEF Next, MapNext

LEMMA TypesAlways == Spec => []Types
<1>1. Init => Types
  <2> SUFFICES ASSUME Init PROVE Types
    OBVIOUS
  <2>1. SessType /\ RowType /\ CountType
    BY HandoffAssumption DEF Init, SessType, RowType, CountType
  <2>2. ProcType
    BY HandoffAssumption, MapOfType DEF Init, ProcType
  <2>3. LinkType
    BY DEF Init, LinkType
  <2>4. QED BY <2>1, <2>2, <2>3 DEF Types
<1>2. Types /\ IInv' /\ [Next]_vars => Types'
  <2> SUFFICES ASSUME Types, IInv', [Next]_vars PROVE Types'
    OBVIOUS
  <2>1. SessType'
    BY DEF IInv
  <2>2. QED BY <2>1, RowSteps, ProcSteps, LinkSteps, CountSteps DEF Types
<1>3. Spec => []IInv
  BY Start, Inductive, PTL DEF Spec
<1>4. QED BY <1>1, <1>2, <1>3, PTL DEF Spec

(* TypeOK: no step of a map, of the login process or of the database       *)
(* leaves a client port or a zone-out time behind in a row that is gone.   *)
THEOREM HandoffTypeCorrect == Spec => []TypeOK
<1>1. Types => TypeOK
  BY DEF Types, SessType, RowType, ProcType, LinkType, CountType, TypeOK
<1>2. QED BY <1>1, TypesAlways, PTL

-----------------------------------------------------------------------------
(* The row follows the character. While nothing has been overtaken, the    *)
(* row, the pending sessions, the login process and the CharZone messages  *)
(* on their way all agree with chars.pos_zone, and at most one session     *)
(* holds the character.                                                    *)

OneClient == \A j, k \in Clients : j = k

At == MapOf[posZone]
Holds(m, k) == Has(m, k) /\ (sess[m][k].char = "in" \/ sess[m][k].logout)

(* True whatever is late.                                                  *)
Sound ==
    /\ \A m \in Maps, k \in Clients :
          Has(m, k) => m \in up /\ (sess[m][k].logout => sess[m][k].char = "left")
    /\ login # "idle" => \A k \in Clients : phase[k] = "off"

RowAt == row \in {NoMap, At} /\ pend \subseteq {At}
LoginAt ==
    /\ login # "idle" => loginZone = posZone
    /\ login \in {"stale", "inserted"} => port = NoClient
WorldAt ==
    \A q \in Peers : \A i \in 1..Len(toWorld[q]) :
       toWorld[q][i].type = "CharZone" => MapOf[toWorld[q][i].zone] = At
MapsAt ==
    \A m \in Maps : \A i \in 1..Len(toMap[m]) :
       toMap[m][i].type = "CharZone" => m = At

(* A client that may come to the map of pos_zone finds a row there.        *)
RowKept ==
    \A k \in Clients :
       (phase[k] # "off" \/ login = "inserted") /\ Has(At, k) => row # NoMap

(* The session that holds the character is the one the row names.          *)
HolderAt ==
    \A m \in Maps, k \in Clients :
       Holds(m, k) => row = m /\ port = k /\ goal[k] = m /\ phase[k] # "joining"

(* A client still to be sent on is sent where the database has it.         *)
LeaverAt ==
    \A m \in Maps, k \in Clients :
       /\ Has(m, k) /\ sess[m][k].char = "left" /\ ~sess[m][k].logout
       /\ phase[k] = "playing" /\ goal[k] = m
       => sess[m][k].zone = posZone

OnTime == RowAt /\ LoginAt /\ WorldAt /\ MapsAt /\ RowKept /\ HolderAt /\ LeaverAt

(* What the steps below start from.                                        *)
Ready == Types /\ IInv /\ Sound /\ OnTime

(* A step that overtook nothing found the links empty and no login at work.*)
LEMMA NotLate ==
    ASSUME Overtake, ~late'
    PROVE  /\ login = "idle" /\ \A q \in Peers : toWorld[q] = << >>
           /\ \A m \in Maps : toMap[m] = << >>
BY DEF Overtake

LEMMA AtType == ASSUME SessType PROVE At \in Maps
BY MapOfType DEF SessType, At

(* Sound is inductive.                                                     *)
LEMMA SoundSet ==
    ASSUME Types, Sound, NEW m \in Maps, NEW k \in Clients, NEW s \in Session \cup {NoSession},
           SetSession(m, k, s), m \in up, UNCHANGED <<up, login>>,
           s # NoSession => (s.logout => s.char = "left"),
           UNCHANGED phase \/ login = "idle" \/ phase' = [phase EXCEPT ![k] = "off"]
    PROVE  Sound'
<1>1. /\ sess' \in [Maps -> [Clients -> Session \cup {NoSession}]]
      /\ \A n \in Maps, j \in Clients :
            sess'[n][j] = IF n = m /\ j = k THEN s ELSE sess[n][j]
  BY SetSessionLookup DEF Types
<1>2. ASSUME NEW n \in Maps, NEW j \in Clients, Has(n, j)'
      PROVE  n \in up' /\ (sess'[n][j].logout => sess'[n][j].char = "left")
  BY <1>1, <1>2 DEF Sound, Has
<1>3. login' # "idle" => \A j \in Clients : phase'[j] = "off"
  BY DEF Sound, Types, ProcType
<1>4. QED BY <1>2, <1>3 DEF Sound

LEMMA SoundSame ==
    ASSUME Types, Sound, UNCHANGED sess, up \subseteq up',
           login' # "idle" => \A k \in Clients : phase'[k] = "off"
    PROVE  Sound'
BY DEF Sound, Has

LEMMA SoundStep ==
    ASSUME OneClient, Types, IInv, Sound, [Next]_vars
    PROVE  Sound'
<1>0. SessType /\ ProcType
  BY DEF Types
<1>1. CASE UNCHANGED vars
  BY <1>1, SoundSame DEF vars, loginVars, clientVars, Sound
<1>2. ASSUME NEW k \in Clients, LoginBegin(k) \/ LoseClient(k) PROVE Sound'
  <2>1. UNCHANGED <<sess, up>>
    BY <1>2 DEF LoginBegin, LoseClient
  <2>2. login' # "idle" => \A j \in Clients : phase'[j] = "off"
    BY <1>0, <1>2 DEF LoginBegin, LoseClient, loginVars, clientVars, OneClient, Sound, ProcType
  <2>3. QED BY <2>1, <2>2, SoundSame
<1>3. CASE LoginCheck \/ LoginDelete \/ LoginInsert \/ AgeRow \/ \E q \in Peers : WorldHandle(q)
  <2>1. UNCHANGED <<sess, up, phase>> /\ (login' # "idle" => login # "idle")
    BY <1>3 DEF LoginCheck, LoginDelete, LoginInsert, AgeRow, WorldHandle, clientVars, loginVars
  <2>2. QED BY <2>1, SoundSame DEF Sound
<1>4. CASE LoginAnnounce
  BY <1>4, SoundSame DEF LoginAnnounce
<1>5. ASSUME NEW m \in Maps, MapCharZone(m) \/ CleanupPending(m) \/ StartMap(m) PROVE Sound'
  <2>1. UNCHANGED <<sess, phase, login>> /\ up \subseteq up'
    BY <1>5 DEF MapCharZone, CleanupPending, StartMap, clientVars, loginVars
  <2>2. QED BY <2>1, SoundSame DEF Sound
<1>6. ASSUME NEW m \in Maps, MapKillSession(m) PROVE Sound'
  <2>1. UNCHANGED <<up, phase, login>> /\ m \in up
    BY <1>6 DEF MapKillSession, Receive, clientVars, loginVars
  <2>2. CASE UNCHANGED sess
    BY <2>1, <2>2, SoundSame DEF Sound
  <2>3. CASE \E k \in SessionsOn(m) : Destroy(m, k)
    <3>1. PICK k \in Clients : SetSession(m, k, NoSession)
      BY <2>3 DEF Destroy, SessionsOn
    <3>2. QED BY <2>1, <3>1, SoundSet
  <2>4. QED BY <1>6, <2>2, <2>3 DEF MapKillSession
<1>7. ASSUME NEW m \in Maps, CrashMap(m) PROVE Sound'
  <2>1. /\ up' = up \ {m} /\ sess' = [sess EXCEPT ![m] = [k \in Clients |-> NoSession]]
        /\ UNCHANGED <<phase, login>>
    BY <1>7 DEF CrashMap, clientVars, loginVars
  <2>2. \A n \in Maps, j \in Clients : Has(n, j)' => n # m /\ Has(n, j) /\ sess'[n][j] = sess[n][j]
    BY <1>0, <2>1 DEF Has, SessType
  <2>3. QED BY <2>1, <2>2 DEF Sound
<1>8. ASSUME NEW m \in Maps, NEW k \in Clients, FirstLogin(m, k) PROVE Sound'
  <2>1. UNCHANGED <<up, login, phase>> /\ m \in up
    BY <1>8 DEF FirstLogin, Joining, loginVars, clientVars
  <2>2. CASE UNCHANGED sess
    BY <2>1, <2>2, SoundSame DEF Sound
  <2>3. CASE SetSession(m, k, Loaded("waiting"))
    <3>1. Loaded("waiting") \in Session /\ ~Loaded("waiting").logout
      BY <1>0, LoadedType DEF Loaded
    <3>2. QED BY <2>1, <2>3, <3>1, SoundSet
  <2>4. QED BY <1>8, <2>2, <2>3 DEF FirstLogin
<1>9. ASSUME NEW m \in Maps, NEW k \in Clients, EnterZone(m, k) PROVE Sound'
  <2> DEFINE s == sess[m][k]
             e == IF s.status = "waiting" /\ s.char = "loaded" THEN s ELSE Loaded(s.status)
             f == [e EXCEPT !.status = "accepted", !.char = "in"]
             g == [e EXCEPT !.status = "accepted"]
  <2>1. UNCHANGED <<up, login>> /\ m \in up /\ phase[k] = "joining" /\ Has(m, k)
    BY <1>9 DEF EnterZone, Joining, loginVars
  <2>2. login = "idle"
    BY <2>1 DEF Sound
  <2>3. s \in Session /\ (s.logout => s.char = "left")
    BY <1>0, <2>1, SessionHas DEF Sound
  <2>4. e \in Session /\ ~e.logout
    BY <1>0, <2>3, LoadedType DEF Session, Loaded
  <2>5. SetSession(m, k, f) \/ SetSession(m, k, g)
    BY <1>9 DEF EnterZone
  <2> HIDE DEF s, e
  <2>6. f \in Session /\ ~f.logout /\ g \in Session /\ ~g.logout
    BY <2>4 DEF Session
  <2> HIDE DEF f, g
  <2>7. QED BY <2>1, <2>2, <2>5, <2>6, SoundSet
<1>10. ASSUME NEW m \in Maps, NEW k \in Clients,
              SendDisconnect(m, k) \/ SendZonePacket(m, k) \/ \E z \in Zones : SendToZone(m, k, z)
       PROVE  Sound'
  <2>1. UNCHANGED <<up, login>> /\ m \in up /\ Has(m, k)
    BY <1>10 DEF SendDisconnect, SendZonePacket, SendToZone, Talks, loginVars
  <2>2. sess[m][k] \in Session
    BY <1>0, <2>1, SessionHas
  <2>3. UNCHANGED phase \/ login = "idle"
    BY <1>10 DEF SendDisconnect, SendZonePacket, SendToZone, clientVars, Talks, Sound
  <2>4. PICK f \in Session : SetSession(m, k, f) /\ (f.logout => f.char = "left")
    <3>1. CASE SendDisconnect(m, k)
      <4> DEFINE f == RemoveCharFromZone(sess[m][k], TRUE)
      <4>1. f \in Session /\ f.char = "left" /\ SetSession(m, k, f)
        BY <2>2, <3>1 DEF SendDisconnect, RemoveCharFromZone, Session
      <4> HIDE DEF f
      <4>2. QED BY <4>1
    <3>2. CASE SendZonePacket(m, k)
      <4> DEFINE f == [sess[m][k] EXCEPT !.char = "none"]
      <4>1. f \in Session /\ ~f.logout /\ SetSession(m, k, f)
        BY <2>2, <3>2 DEF SendZonePacket, Session
      <4> HIDE DEF f
      <4>2. QED BY <4>1
    <3>3. CASE \E z \in Zones : SendToZone(m, k, z)
      <4>1. PICK z \in Zones : SendToZone(m, k, z)
        BY <3>3
      <4> DEFINE f == [RemoveCharFromZone(sess[m][k], FALSE) EXCEPT !.zone = z]
      <4>2. f \in Session /\ ~f.logout /\ SetSession(m, k, f)
        BY <2>2, <4>1 DEF SendToZone, RemoveCharFromZone, Session
      <4> HIDE DEF f
      <4>3. QED BY <4>2
    <3>4. QED BY <1>10, <3>1, <3>2, <3>3
  <2>5. QED BY <2>1, <2>3, <2>4, SoundSet
<1>11. ASSUME NEW m \in Maps, NEW k \in Clients, ResendZonePacket(m, k) PROVE Sound'
  <2>1. UNCHANGED <<sess, up, login>> /\ login = "idle"
    BY <1>11 DEF ResendZonePacket, Talks, loginVars, Sound
  <2>2. QED BY <2>1, SoundSame
<1>12. ASSUME NEW m \in Maps, NEW k \in Clients, CloseSession(m, k) \/ CleanupSession(m, k)
       PROVE  Sound'
  <2>1. /\ UNCHANGED <<up, login>> /\ m \in up /\ SetSession(m, k, NoSession)
        /\ UNCHANGED phase \/ phase' = [phase EXCEPT ![k] = "off"]
    BY <1>12 DEF CloseSession, CleanupSession, Destroy, Talks, clientVars, loginVars
  <2>2. QED BY <2>1, SoundSet
<1>13. QED
  BY <1>1, <1>2, <1>3, <1>4, <1>5, <1>6, <1>7, <1>8, <1>9, <1>10, <1>11, <1>12 DEF Next, MapNext

(* Messages: what is added to a link or taken from it.                     *)
LEMMA SendAt ==
    ASSUME LinkType, WorldAt, NEW q \in Peers, NEW p \in Message, Send(q, p),
           posZone' = posZone, p.type = "CharZone" => MapOf[p.zone] = At
    PROVE  WorldAt'
<1>1. At' = At
  BY DEF At
<1>2. /\ \A r \in Peers : r # q => toWorld'[r] = toWorld[r]
      /\ toWorld'[q] = Append(toWorld[q], p) /\ toWorld[q] \in Seq(Message)
  BY DEF LinkType, Send
<1>3. \A i \in 1..Len(toWorld'[q]) :
        \/ i \in 1..Len(toWorld[q]) /\ toWorld'[q][i] = toWorld[q][i]
        \/ toWorld'[q][i] = p
  BY <1>2
<1>4. SUFFICES ASSUME NEW r \in Peers, NEW i \in 1..Len(toWorld'[r]),
                      toWorld'[r][i].type = "CharZone"
               PROVE  MapOf[toWorld'[r][i].zone] = At
  BY <1>1 DEF WorldAt
<1>5. CASE r # q
  BY <1>2, <1>4, <1>5 DEF WorldAt
<1>6. CASE r = q
  BY <1>3, <1>4, <1>6 DEF WorldAt
<1>7. QED BY <1>5, <1>6

LEMMA WorldHandleAt ==
    ASSUME Types, WorldAt, MapsAt, NEW q \in Peers, WorldHandle(q)
    PROVE  WorldAt' /\ MapsAt'
<1> DEFINE p == Head(toWorld[q])
<1>1. toWorld[q] \in Seq(Message) /\ toWorld[q] # << >> /\ posPrev \in Zones
  BY DEF Types, SessType, LinkType, WorldHandle
<1>2. p.type = "CharZone" => MapOf[p.zone] = At
  BY <1>1 DEF WorldAt
<1>3. p \in Message /\ p.zone \in Zones
  <2>1. p \in Message
    BY <1>1
  <2>2. QED BY <2>1 DEF Message
<1>4. At' = At
  BY DEF WorldHandle, dbVars, At
<1>5. \A i \in 1..Len(Tail(toWorld[q])) :
         i + 1 \in 1..Len(toWorld[q]) /\ Tail(toWorld[q])[i] = toWorld[q][i + 1]
  BY <1>1
<1>6. toWorld' = [toWorld EXCEPT ![q] = Tail(@)]
  BY DEF WorldHandle, Forward
<1>7. WorldAt'
  BY <1>4, <1>5, <1>6 DEF WorldAt, Types, LinkType
<1>8. MapsAt'
  <2>1. CASE UNCHANGED toMap
    BY <1>4, <2>1 DEF MapsAt
  <2>2. ASSUME NEW m \in Maps, Forward(q, m, p), p.type = "CharZone" => m = At PROVE MapsAt'
    <3> HIDE DEF p
    <3>1. /\ \A n \in Maps : n # m => toMap'[n] = toMap[n]
          /\ toMap'[m] \in {toMap[m], Append(toMap[m], p)} /\ toMap[m] \in Seq(Message)
      BY <2>2 DEF Forward, Types, LinkType
    <3>2. \A i \in 1..Len(toMap'[m]) :
            \/ i \in 1..Len(toMap[m]) /\ toMap'[m][i] = toMap[m][i]
            \/ toMap'[m][i] = p
      BY <1>3, <3>1
    <3>3. SUFFICES ASSUME NEW n \in Maps, NEW i \in 1..Len(toMap'[n]),
                          toMap'[n][i].type = "CharZone"
                   PROVE  n = At
      BY <1>4 DEF MapsAt
    <3>4. CASE n # m
      BY <3>1, <3>3, <3>4 DEF MapsAt
    <3>5. CASE n = m
      BY <2>2, <3>2, <3>3, <3>5 DEF MapsAt
    <3>6. QED BY <3>4, <3>5
  <2>3. MapOf[p.zone] \in Maps /\ MapOf[posPrev] \in Maps
    BY <1>1, <1>3, MapOfType
  <2>4. QED BY <1>2, <2>1, <2>2, <2>3 DEF WorldHandle
<1>9. QED BY <1>7, <1>8

LEMMA ReceiveAt ==
    ASSUME LinkType, MapsAt, NEW m \in Maps, NEW ty, Receive(m, ty), posZone' = posZone
    PROVE  MapsAt' /\ (ty = "CharZone" => m = At)
<1>1. toMap[m] \in Seq(Message) /\ toMap[m] # << >> /\ At' = At
  BY DEF LinkType, Receive, At
<1>2. \A i \in 1..Len(Tail(toMap[m])) :
         i + 1 \in 1..Len(toMap[m]) /\ Tail(toMap[m])[i] = toMap[m][i + 1]
  BY <1>1
<1>3. toMap' = [toMap EXCEPT ![m] = Tail(@)] /\ Head(toMap[m]).type = ty
  BY DEF Receive
<1>4. MapsAt'
  BY <1>1, <1>2, <1>3 DEF MapsAt, LinkType
<1>5. ty = "CharZone" => m = At
  BY <1>1, <1>3 DEF MapsAt
<1>6. QED BY <1>4, <1>5

LEMMA LinksSame ==
    ASSUME WorldAt, MapsAt, UNCHANGED <<toWorld, toMap, posZone>>
    PROVE  WorldAt' /\ MapsAt'
BY DEF WorldAt, MapsAt, At

(* At most one session holds the character.                                *)
LEMMA OneHolder ==
    ASSUME OneClient, Ready, NEW m \in Maps, NEW k \in Clients, Holds(m, k),
           NEW n \in Maps, NEW j \in Clients, Holds(n, j)
    PROVE  n = m /\ j = k
BY DEF Ready, OnTime, HolderAt, OneClient

(* The login process.                                                      *)
LEMMA LoginOnTime ==
    ASSUME OneClient, Ready, ~late',
           \/ \E k \in Clients : LoginBegin(k)
           \/ LoginCheck \/ LoginDelete \/ LoginInsert \/ LoginAnnounce
    PROVE  OnTime'
<1> USE DEF Ready, OnTime
<1>0. SessType /\ RowType /\ ProcType /\ LinkType /\ At \in Maps
  BY AtType DEF Types
<1>1. UNCHANGED <<sess, pend, posZone, up>> /\ At' = At
  BY DEF LoginBegin, LoginCheck, LoginDelete, LoginInsert, LoginAnnounce, dbVars, At
<1>2. \A m \in Maps, k \in Clients : (Has(m, k)' <=> Has(m, k)) /\ (Holds(m, k)' <=> Holds(m, k))
  BY <1>1 DEF Has, Holds
<1>3. ASSUME NEW k \in Clients, LoginBegin(k) PROVE OnTime'
  <2>1. /\ login' = "begun" /\ loginZone' = posZone
        /\ UNCHANGED <<row, port, phase, goal, toWorld, toMap>>
    BY <1>3 DEF LoginBegin, dbVars, clientVars, links
  <2>2. RowAt' /\ LoginAt' /\ RowKept'
    BY <1>0, <1>1, <1>2, <2>1 DEF RowAt, LoginAt, RowKept
  <2>3. LeaverAt' /\ HolderAt'
    BY <1>1, <1>2, <2>1 DEF LeaverAt, HolderAt
  <2>4. QED BY <1>1, <2>1, <2>2, <2>3, LinksSame
<1>7. CASE LoginCheck
  <2>1. /\ login # "idle" /\ login' \in {"stale", "checked"} /\ (login' = "stale" => port = NoClient)
        /\ UNCHANGED <<row, port, loginZone, phase, goal, toWorld, toMap>>
    BY <1>7 DEF LoginCheck, dbVars, clientVars, links
  <2>2. RowAt' /\ LoginAt' /\ RowKept'
    BY <1>0, <1>1, <1>2, <2>1 DEF RowAt, LoginAt, RowKept
  <2>3. LeaverAt' /\ HolderAt'
    BY <1>1, <1>2, <2>1 DEF LeaverAt, HolderAt
  <2>4. QED BY <1>1, <2>1, <2>2, <2>3, LinksSame
<1>8. CASE LoginDelete
  <2>1. /\ login = "stale" /\ login' = "checked" /\ DeleteRow /\ port = NoClient
        /\ UNCHANGED <<loginZone, phase, goal, toWorld, toMap>>
    BY <1>8 DEF LoginDelete, LoginAt, clientVars, links
  <2>2. \A j \in Clients : phase[j] = "off"
    BY <2>1 DEF Sound
  <2>3. \A m \in Maps, k \in Clients : ~Holds(m, k)
    BY <2>1, HandoffAssumption DEF HolderAt
  <2>4. RowAt' /\ LoginAt' /\ RowKept'
    BY <1>1, <1>2, <2>1, <2>2 DEF RowAt, LoginAt, RowKept, DeleteRow
  <2>5. LeaverAt' /\ HolderAt'
    BY <1>1, <1>2, <2>1, <2>2, <2>3 DEF LeaverAt, HolderAt
  <2>6. QED BY <1>1, <2>1, <2>4, <2>5, LinksSame
<1>4. CASE LoginInsert
  <2>1. \A j \in Clients : phase[j] = "off" /\ phase' = phase /\ goal' = goal
    BY <1>4 DEF LoginInsert, Sound, clientVars
  <2>2. UNCHANGED <<toWorld, toMap, loginZone>> /\ loginZone = posZone
    BY <1>4 DEF LoginInsert, links, LoginAt
  <2>3. CASE login' = "idle" /\ KeepRow
    BY <1>1, <1>2, <2>1, <2>2, <2>3, LinksSame
       DEF RowAt, LoginAt, RowKept, LeaverAt, HolderAt, KeepRow
  <2>4. CASE MayInsert /\ row' = MapOf[loginZone] /\ port' = NoClient /\ login' = "inserted"
    <3>1. row' = At /\ row' # NoMap
      BY <1>0, <2>2, <2>4, HandoffAssumption DEF At
    <3>2. \A m \in Maps, k \in Clients : ~Holds(m, k)
      BY <2>4, HandoffAssumption DEF MayInsert, HolderAt
    <3>3. QED BY <1>1, <1>2, <2>1, <2>2, <2>4, <3>1, <3>2, LinksSame
           DEF RowAt, LoginAt, RowKept, LeaverAt, HolderAt
  <2>5. QED BY <1>4, <2>3, <2>4 DEF LoginInsert
<1>5. CASE LoginAnnounce
  <2>1. /\ login = "inserted" /\ loginZone = posZone /\ port = NoClient /\ loginAddr \in Clients
        /\ \A j \in Clients : phase[j] = "off"
    BY <1>0, <1>5 DEF LoginAnnounce, LoginAt, Sound, ProcType
  <2>2. /\ UNCHANGED <<row, port, toMap, loginZone>> /\ login' = "idle"
        /\ \/ Steer(loginAddr, At) /\ Send(Login, CharZone(posZone))
           \/ UNCHANGED <<phase, goal, toWorld>>
    BY <1>5, <2>1 DEF LoginAnnounce, dbVars, clientVars, At
  <2>3. \A j \in Clients : phase'[j] # "playing"
    BY <1>0, <2>1, <2>2 DEF Steer, ProcType
  <2>4. \A m \in Maps, k \in Clients : ~Holds(m, k)
    BY <2>1, HandoffAssumption DEF HolderAt
  <2>5. RowAt' /\ LoginAt' /\ LeaverAt' /\ HolderAt'
    BY <1>1, <1>2, <2>1, <2>2, <2>3, <2>4 DEF RowAt, LoginAt, LeaverAt, HolderAt
  <2>6. RowKept'
    BY <1>0, <1>1, <1>2, <2>1, <2>2 DEF RowKept
  <2>7. MapsAt'
    BY <1>1, <2>2 DEF MapsAt
  <2>8. CASE Send(Login, CharZone(posZone))
    <3>1. CharZone(posZone) \in Message /\ CharZone(posZone).zone = posZone /\ Login \in Peers
      BY <1>0, MessageType DEF CharZone, SessType, Peers
    <3>2. WorldAt'
      BY <1>0, <1>1, <2>8, <3>1, SendAt DEF At
    <3>3. QED BY <2>5, <2>6, <2>7, <3>2
  <2>9. CASE UNCHANGED toWorld
    BY <1>1, <2>2, <2>5, <2>6, <2>9, LinksSame
  <2>10. QED BY <2>2, <2>8, <2>9
<1>6. QED BY <1>3, <1>4, <1>5, <1>7, <1>8

(* Steps that touch neither sessions nor the row.                          *)
LEMMA QuietOnTime ==
    ASSUME OneClient, Ready, ~late',
           \/ \E k \in Clients : LoseClient(k)
           \/ AgeRow
           \/ \E q \in Peers : WorldHandle(q)
           \/ \E m \in Maps : MapCharZone(m)
    PROVE  OnTime'
<1> USE DEF Ready, OnTime
<1>0. ProcType /\ LinkType
  BY DEF Types
<1>1. UNCHANGED <<sess, row, port, posZone, login, loginZone, goal>> /\ At' = At
  BY DEF LoseClient, AgeRow, WorldHandle, MapCharZone, dbVars, loginVars, clientVars, At
<1>2. \A m \in Maps, k \in Clients : (Has(m, k)' <=> Has(m, k)) /\ (Holds(m, k)' <=> Holds(m, k))
  BY <1>1 DEF Has, Holds
<1>3. \A k \in Clients : phase'[k] \in {phase[k], "off"}
  BY <1>0 DEF LoseClient, AgeRow, WorldHandle, MapCharZone, clientVars, ProcType
<1>4. LoginAt' /\ HolderAt' /\ LeaverAt'
  BY <1>1, <1>2, <1>3 DEF LoginAt, HolderAt, LeaverAt
<1>5. RowKept'
  <2>1. At \in Maps
    BY AtType DEF Types
  <2>2. QED BY <1>1, <1>2, <1>3, <2>1 DEF RowKept
<1>6. CASE (\E k \in Clients : LoseClient(k)) \/ AgeRow
  <2>1. UNCHANGED <<toWorld, toMap, pend>>
    BY <1>6 DEF LoseClient, AgeRow, links
  <2>2. QED BY <1>1, <1>4, <1>5, <2>1, LinksSame DEF RowAt
<1>7. CASE \E q \in Peers : WorldHandle(q)
  <2>1. UNCHANGED pend
    BY <1>7 DEF WorldHandle
  <2>2. QED BY <1>1, <1>4, <1>5, <1>7, <2>1, WorldHandleAt DEF RowAt
<1>8. CASE \E m \in Maps : MapCharZone(m)
  <2>1. PICK m \in Maps : MapCharZone(m)
    BY <1>8
  <2>2. Receive(m, "CharZone") /\ UNCHANGED toWorld /\ pend' \subseteq pend \cup {m}
    BY <2>1 DEF MapCharZone
  <2>3. MapsAt' /\ m = At
    BY <1>0, <1>1, <2>2, ReceiveAt
  <2>4. WorldAt'
    BY <1>1, <2>2 DEF WorldAt
  <2>5. QED BY <1>1, <1>4, <1>5, <2>2, <2>3, <2>4 DEF RowAt
<1>9. QED BY <1>6, <1>7, <1>8

(* Sessions that end: the row goes only with the session it names.         *)
LEMMA SessionGoneOnTime ==
    ASSUME OneClient, Ready, NEW m \in Maps, NEW k \in Clients,
           SetSession(m, k, NoSession), KeepRow \/ (DeleteRow /\ row = m),
           UNCHANGED <<posZone, pend, login, loginZone, goal, toWorld>>, MapsAt',
           phase' \in {phase, [phase EXCEPT ![k] = "off"]}
    PROVE  OnTime'
<1> USE DEF Ready, OnTime
<1>0. ProcType /\ SessType /\ At' = At /\ At \in Maps
  BY AtType DEF Types, At
<1>1. /\ \A n \in Maps, j \in Clients :
            sess'[n][j] = IF n = m /\ j = k THEN NoSession ELSE sess[n][j]
  BY <1>0, SetSessionLookup
<1>2. \A n \in Maps, j \in Clients : Has(n, j)' =>
         n # m /\ Has(n, j) /\ sess'[n][j] = sess[n][j]
  BY <1>1 DEF Has, OneClient
<1>3. \A n \in Maps, j \in Clients : Holds(n, j)' => n # m /\ Holds(n, j)
  BY <1>2 DEF Holds
<1>4. \A j \in Clients : phase'[j] \in {phase[j], "off"}
  BY <1>0 DEF ProcType
<1>5. RowAt' /\ LoginAt'
  BY <1>0 DEF RowAt, LoginAt, KeepRow, DeleteRow
<1>6. HolderAt'
  BY <1>3, <1>4 DEF HolderAt, KeepRow
<1>7. LeaverAt'
  BY <1>2, <1>4 DEF LeaverAt
<1>8. RowKept'
  <2>1. CASE KeepRow
    BY <1>0, <1>2, <1>4, <2>1 DEF RowKept, KeepRow
  <2>2. CASE DeleteRow /\ row = m
    <3>1. m = At
      BY <2>2, HandoffAssumption DEF RowAt
    <3>2. QED BY <1>0, <1>2, <3>1 DEF RowKept
  <2>3. QED BY <2>1, <2>2
<1>9. WorldAt'
  BY <1>0 DEF WorldAt
<1>10. QED BY <1>5, <1>6, <1>7, <1>8, <1>9

LEMMA EndOnTime ==
    ASSUME OneClient, Ready, ~late', NEW m \in Maps,
           \/ MapKillSession(m)
           \/ \E k \in Clients : CloseSession(m, k) \/ CleanupSession(m, k)
    PROVE  OnTime'
<1> USE DEF Ready
<1>0. LinkType /\ OnTime
  BY DEF Types
<1>1. UNCHANGED <<posZone, pend, login, loginZone, goal, toWorld>>
  BY DEF MapKillSession, CloseSession, CleanupSession, loginVars, clientVars, links
<1>2. ASSUME NEW k \in Clients, Has(m, k), Destroy(m, k)
      PROVE  SetSession(m, k, NoSession) /\ (KeepRow \/ (DeleteRow /\ row = m))
  BY <1>0, <1>2 DEF Destroy, OnTime, HolderAt, Holds
<1>3. CASE MapKillSession(m)
  <2>1. MapsAt'
    BY <1>0, <1>1, <1>3, ReceiveAt DEF MapKillSession, OnTime
  <2>2. phase' = phase
    BY <1>3 DEF MapKillSession, clientVars
  <2>3. CASE KeepRow /\ UNCHANGED sess
    <3>1. At' = At
      BY <1>1 DEF At
    <3>2. QED BY <1>0, <1>1, <2>1, <2>2, <2>3, <3>1
           DEF OnTime, RowAt, LoginAt, WorldAt, RowKept, HolderAt, LeaverAt, KeepRow, Has, Holds
  <2>4. ASSUME NEW k \in SessionsOn(m), Destroy(m, k) PROVE OnTime'
    <3>1. k \in Clients /\ Has(m, k)
      BY DEF SessionsOn
    <3>2. QED BY <1>1, <1>2, <2>1, <2>2, <2>4, <3>1, SessionGoneOnTime
  <2>5. QED BY <1>3, <2>3, <2>4 DEF MapKillSession
<1>4. ASSUME NEW k \in Clients, CloseSession(m, k) PROVE OnTime'
  <2>1. /\ Has(m, k) /\ Destroy(m, k) /\ UNCHANGED toMap
        /\ phase' = [phase EXCEPT ![k] = "off"]
    BY <1>4 DEF CloseSession, Talks, links
  <2>2. MapsAt'
    BY <1>0, <1>1, <2>1, LinksSame DEF OnTime
  <2>3. QED BY <1>1, <1>2, <2>1, <2>2, SessionGoneOnTime
<1>5. ASSUME NEW k \in Clients, CleanupSession(m, k) PROVE OnTime'
  <2>1. /\ SetSession(m, k, NoSession) /\ UNCHANGED <<toMap, phase>>
        /\ KeepRow \/ (DeleteRow /\ row = m)
    BY <1>5 DEF CleanupSession, SessionExpiry, links, clientVars
  <2>2. MapsAt'
    BY <1>0, <1>1, <2>1, LinksSame DEF OnTime
  <2>3. QED BY <1>1, <2>1, <2>2, SessionGoneOnTime
<1>6. QED BY <1>3, <1>4, <1>5

(* Faults of the maps, and the pending session that is never used.         *)
LEMMA FaultOnTime ==
    ASSUME OneClient, Ready, ~late', NEW m \in Maps,
           CleanupPending(m) \/ CrashMap(m) \/ StartMap(m)
    PROVE  OnTime'
<1> USE DEF Ready, OnTime
<1>0. SessType /\ ProcType /\ At \in Maps /\ NoMap \notin Maps
  BY AtType, HandoffAssumption DEF Types
<1>1. /\ UNCHANGED <<posZone, login, loginZone, phase, goal, toWorld>> /\ At' = At
      /\ pend' \subseteq pend
  BY DEF CleanupPending, CrashMap, StartMap, dbVars, loginVars, clientVars, links, At
<1>2. \A n \in Maps, j \in Clients : Has(n, j)' => Has(n, j) /\ sess'[n][j] = sess[n][j]
  BY <1>0 DEF CleanupPending, CrashMap, StartMap, Has, SessType
<1>3. \A n \in Maps, j \in Clients : Holds(n, j)' => Holds(n, j)
  BY <1>2 DEF Holds
<1>4. \/ KeepRow
      \/ DeleteRow /\ m = At /\ \A k \in Clients : ~Has(m, k)
  <2>1. CASE CleanupPending(m)
    <3>1. m \in pend /\ m = At /\ DeleteRow
      BY <2>1 DEF CleanupPending, RowAt
    <3>2. QED BY <3>1 DEF IInv, OneSession, SessionsOn
  <2>2. CASE CrashMap(m)
    BY <2>2 DEF CrashMap, dbVars, KeepRow
  <2>3. CASE StartMap(m)
    <3>1. m \notin up /\ (KeepRow \/ (DeleteRow /\ row = m))
      BY <2>3 DEF StartMap
    <3>2. row = m => m = At
      BY <1>0 DEF RowAt
    <3>3. QED BY <3>1, <3>2 DEF Sound
  <2>4. QED BY <2>1, <2>2, <2>3
<1>5. RowAt' /\ LoginAt' /\ LeaverAt'
  BY <1>1, <1>2, <1>4 DEF RowAt, LoginAt, LeaverAt, KeepRow, DeleteRow
<1>6. RowKept'
  BY <1>0, <1>1, <1>2, <1>4 DEF RowKept, KeepRow
<1>7. HolderAt'
  <2>1. CASE KeepRow
    BY <1>1, <1>3, <2>1 DEF HolderAt, KeepRow
  <2>2. CASE m = At /\ \A k \in Clients : ~Has(m, k)
    BY <1>0, <1>3, <2>2 DEF HolderAt, RowAt, Holds
  <2>3. QED BY <1>4, <2>1, <2>2
<1>8. WorldAt'
  BY <1>1 DEF WorldAt
<1>9. MapsAt'
  <2>1. CASE CleanupPending(m) \/ StartMap(m)
    <3>1. UNCHANGED toMap
      BY <2>1 DEF CleanupPending, StartMap, links
    <3>2. QED BY <1>1, <3>1 DEF MapsAt
  <2>2. CASE CrashMap(m)
    <3>1. toMap' = [toMap EXCEPT ![m] = << >>] /\ toMap \in [Maps -> Seq(Message)]
      BY <2>2 DEF CrashMap, Types, LinkType
    <3>2. toMap'[m] = << >> /\ \A n \in Maps : n # m => toMap'[n] = toMap[n]
      BY <3>1
    <3>3. \A i \in 1..Len(toMap'[m]) : FALSE
      BY <3>2
    <3>4. QED BY <1>1, <3>2, <3>3 DEF MapsAt
  <2>3. QED BY <2>1, <2>2
<1>10. QED BY <1>5, <1>6, <1>7, <1>8, <1>9

(* The client arrives: a session is made only while there is a row, and    *)
(* the character enters its zone only on the map the row names.            *)
LEMMA FirstLoginOnTime ==
    ASSUME OneClient, ~Neighbour, Ready, NEW m \in Maps, NEW k \in Clients, FirstLogin(m, k)
    PROVE  OnTime'
<1> USE DEF Ready, OnTime
<1>0. SessType /\ LinkType /\ At \in Maps
  BY AtType DEF Types
<1>1. /\ UNCHANGED <<row, port, posZone, login, loginZone, phase, goal, toMap>> /\ At' = At
      /\ pend' \subseteq pend
  BY DEF FirstLogin, dbVars, loginVars, clientVars, At
<1>2. RowAt' /\ LoginAt' /\ MapsAt'
  BY <1>1 DEF RowAt, LoginAt, MapsAt
<1>3. WorldAt'
  <2>1. CASE UNCHANGED toWorld
    BY <1>1, <2>1 DEF WorldAt
  <2>2. CASE Send(m, KillSession)
    BY <1>0, <1>1, <2>2, SendAt, MessageType DEF KillSession, Peers
  <2>3. QED BY <2>1, <2>2 DEF FirstLogin
<1>4. CASE UNCHANGED sess
  BY <1>1, <1>2, <1>3, <1>4 DEF RowKept, HolderAt, LeaverAt, Has, Holds
<1>5. CASE row # NoMap /\ SetSession(m, k, Loaded("waiting"))
  <2>1. Loaded("waiting") \in Session /\ Loaded("waiting").char = "loaded"
           /\ ~Loaded("waiting").logout
    BY <1>0, LoadedType DEF Loaded
  <2>2. \A n \in Maps, j \in Clients :
           sess'[n][j] = IF n = m /\ j = k THEN Loaded("waiting") ELSE sess[n][j]
    BY <1>0, <1>5, <2>1, SetSessionLookup
  <2>3. \A n \in Maps, j \in Clients : Holds(n, j)' => Holds(n, j)
    BY <2>1, <2>2 DEF Holds, Has
  <2>4. RowKept' /\ HolderAt'
    BY <1>1, <1>5, <2>3 DEF RowKept, HolderAt
  <2>5. LeaverAt'
    BY <1>1, <2>1, <2>2 DEF LeaverAt, Has
  <2>6. QED BY <1>2, <1>3, <2>4, <2>5
<1>6. QED BY <1>4, <1>5 DEF FirstLogin

LEMMA EnterOnTime ==
    ASSUME OneClient, Ready, NEW m \in Maps, NEW k \in Clients, EnterZone(m, k)
    PROVE  OnTime'
<1> USE DEF Ready, OnTime
<1> DEFINE s == sess[m][k]
           e == IF s.status = "waiting" /\ s.char = "loaded" THEN s ELSE Loaded(s.status)
           f == [e EXCEPT !.status = "accepted", !.char = "in"]
           g == [e EXCEPT !.status = "accepted"]
<1>0. SessType /\ ProcType /\ At \in Maps /\ NoMap \notin Maps
  BY AtType, HandoffAssumption DEF Types
<1>1. /\ Has(m, k) /\ phase[k] = "joining" /\ goal[k] = m
      /\ UNCHANGED <<posZone, login, loginZone, goal, pend, toWorld, toMap>> /\ At' = At
  BY DEF EnterZone, Joining, loginVars, links, At
<1>2. s \in Session /\ (s.logout => s.char = "left") /\ login = "idle"
  BY <1>0, <1>1, SessionHas DEF Sound
<1>3. e \in Session /\ e.char = "loaded" /\ ~e.logout
  BY <1>0, <1>2, LoadedType DEF Session, Loaded
<1>4. MapOf[e.zone] = m => m = At
  BY <1>0, <1>1, <1>2, LoadedType DEF IInv, Located, Enters, Session, At
<1>5. \/ /\ MapOf[e.zone] = m /\ SetSession(m, k, f)
         /\ phase' = [phase EXCEPT ![k] = "playing"] /\ UpdateSession(k)
      \/ SetSession(m, k, g) /\ KeepRow /\ UNCHANGED phase
  BY DEF EnterZone
<1> HIDE DEF s, e
<1>6. /\ f \in Session /\ f.char = "in" /\ g \in Session /\ g.char = "loaded" /\ ~g.logout
  BY <1>3 DEF Session
<1> HIDE DEF f, g
<1>7. \A n \in Maps, j \in Clients : ~Holds(n, j)
  BY <1>1 DEF HolderAt, OneClient
<1>8. WorldAt' /\ MapsAt' /\ LoginAt'
  BY <1>1, <1>2, LinksSame DEF LoginAt
<1>9. CASE /\ MapOf[e.zone] = m /\ SetSession(m, k, f)
           /\ phase' = [phase EXCEPT ![k] = "playing"] /\ UpdateSession(k)
  <2>1. row = m /\ row # NoMap /\ m = At
    BY <1>0, <1>1, <1>4, <1>9 DEF RowKept, RowAt
  <2>2. row' = m /\ port' = k /\ phase'[k] = "playing"
    BY <1>0, <1>9, <2>1 DEF UpdateSession, ProcType
  <2>3. \A n \in Maps, j \in Clients : sess'[n][j] = IF n = m /\ j = k THEN f ELSE sess[n][j]
    BY <1>0, <1>6, <1>9, SetSessionLookup
  <2>4. \A n \in Maps, j \in Clients : Holds(n, j)' => n = m /\ j = k
    BY <1>7, <2>3 DEF Holds, Has
  <2>5. HolderAt'
    BY <1>1, <2>2, <2>4 DEF HolderAt
  <2>6. RowAt' /\ RowKept'
    BY <1>0, <1>1, <2>1, <2>2 DEF RowAt, RowKept
  <2>7. LeaverAt'
    BY <1>1, <1>6, <2>3 DEF LeaverAt, OneClient
  <2>8. QED BY <1>8, <2>5, <2>6, <2>7
<1>10. CASE SetSession(m, k, g) /\ KeepRow /\ UNCHANGED phase
  <2>1. \A n \in Maps, j \in Clients : sess'[n][j] = IF n = m /\ j = k THEN g ELSE sess[n][j]
    BY <1>0, <1>6, <1>10, SetSessionLookup
  <2>2. \A n \in Maps, j \in Clients : ~Holds(n, j)' /\ (Has(n, j)' => Has(n, j))
    BY <1>1, <1>6, <1>7, <2>1 DEF Holds, Has
  <2>3. RowAt' /\ RowKept' /\ HolderAt'
    BY <1>0, <1>1, <1>10, <2>2 DEF RowAt, RowKept, HolderAt, KeepRow
  <2>4. LeaverAt'
    BY <1>1, <1>10, <2>1 DEF LeaverAt, OneClient
  <2>5. QED BY <1>8, <2>3, <2>4
<1>11. QED BY <1>5, <1>9, <1>10

(* The character leaves its zone.                                          *)
LEMMA SendToZoneOnTime ==
    ASSUME OneClient, Ready, ~late', NEW m \in Maps, NEW k \in Clients, NEW z \in Zones,
           SendToZone(m, k, z)
    PROVE  OnTime'
<1> USE DEF Ready, OnTime
<1> DEFINE s == sess[m][k]
           f == [RemoveCharFromZone(s, FALSE) EXCEPT !.zone = z]
<1>0. SessType /\ At \in Maps /\ NoMap \notin Maps
  BY AtType, HandoffAssumption DEF Types
<1>1. /\ Has(m, k) /\ s.char = "in" /\ SetSession(m, k, f) /\ posZone' = z
      /\ row' = (IF row = NoMap THEN NoMap ELSE MapOf[z])
      /\ UNCHANGED <<port, pend, login, loginZone, phase, goal, toWorld, toMap>>
  BY DEF SendToZone, loginVars, clientVars, links
<1>2. /\ login = "idle" /\ (\A q \in Peers : toWorld[q] = << >>)
      /\ \A n \in Maps : toMap[n] = << >>
  BY NotLate DEF SendToZone
<1>3. At' = MapOf[z] /\ MapOf[z] \in Maps
  BY <1>1, MapOfType DEF At
<1>4. Holds(m, k) /\ row = m
  BY <1>1 DEF Holds, HolderAt
<1>5. f \in Session /\ f.char = "left" /\ ~f.logout /\ f.zone = z
  BY <1>0, <1>1, SessionHas DEF Session, RemoveCharFromZone
<1> HIDE DEF f
<1>6. \A n \in Maps, j \in Clients : sess'[n][j] = IF n = m /\ j = k THEN f ELSE sess[n][j]
  BY <1>0, <1>1, <1>5, SetSessionLookup
<1>7. \A n \in Maps, j \in Clients : ~Holds(n, j)'
  BY <1>4, <1>5, <1>6, OneHolder DEF Holds, Has
<1>8. pend = {}
  <2>1. m \notin pend
    BY <1>1 DEF IInv, OneSession, SessionsOn
  <2>2. m = At
    BY <1>0, <1>4 DEF RowAt
  <2>3. QED BY <2>1, <2>2 DEF RowAt
<1>9. row' = MapOf[z] /\ row' # NoMap
  BY <1>0, <1>1, <1>3, <1>4
<1>10. RowAt' /\ LoginAt' /\ RowKept' /\ HolderAt'
  BY <1>1, <1>2, <1>3, <1>7, <1>8, <1>9 DEF RowAt, LoginAt, RowKept, HolderAt
<1>11. LeaverAt'
  <2>1. goal[k] = m
    BY <1>4 DEF HolderAt
  <2>2. QED BY <1>1, <1>5, <1>6, <2>1 DEF LeaverAt, OneClient
<1>12. WorldAt' /\ MapsAt'
  <2>1. /\ \A q \in Peers : \A i \in 1..Len(toWorld'[q]) : FALSE
        /\ \A n \in Maps : \A i \in 1..Len(toMap'[n]) : FALSE
    BY <1>1, <1>2
  <2>2. QED BY <2>1 DEF WorldAt, MapsAt
<1>13. QED BY <1>10, <1>11, <1>12

LEMMA DisconnectOnTime ==
    ASSUME OneClient, Ready, NEW m \in Maps, NEW k \in Clients, SendDisconnect(m, k)
    PROVE  OnTime'
<1> USE DEF Ready, OnTime
<1> DEFINE f == RemoveCharFromZone(sess[m][k], TRUE)
<1>0. SessType /\ At \in Maps
  BY AtType DEF Types
<1>1. /\ Has(m, k) /\ sess[m][k].char = "in" /\ SetSession(m, k, f) /\ At' = At
      /\ UNCHANGED <<row, port, posZone, pend, login, loginZone, phase, goal, toWorld, toMap>>
  BY DEF SendDisconnect, dbVars, loginVars, clientVars, links, At
<1>2. f \in Session /\ f.logout
  BY <1>0, <1>1, SessionHas DEF Session, RemoveCharFromZone
<1> HIDE DEF f
<1>3. \A n \in Maps, j \in Clients : sess'[n][j] = IF n = m /\ j = k THEN f ELSE sess[n][j]
  BY <1>0, <1>1, <1>2, SetSessionLookup
<1>4. \A n \in Maps, j \in Clients : (Holds(n, j)' => Holds(n, j)) /\ (Has(n, j)' => Has(n, j))
  BY <1>1, <1>2, <1>3 DEF Holds, Has
<1>5. RowAt' /\ LoginAt' /\ RowKept' /\ HolderAt'
  BY <1>0, <1>1, <1>4 DEF RowAt, LoginAt, RowKept, HolderAt
<1>6. LeaverAt'
  BY <1>1, <1>2, <1>3 DEF LeaverAt, Has
<1>7. QED BY <1>1, <1>5, <1>6, LinksSame

(* The client is sent to where the database has its character.             *)
LEMMA ZonePacketOnTime ==
    ASSUME OneClient, Ready, NEW m \in Maps, NEW k \in Clients,
           SendZonePacket(m, k) \/ ResendZonePacket(m, k)
    PROVE  OnTime'
<1> USE DEF Ready, OnTime
<1>0. SessType /\ ProcType /\ LinkType /\ At \in Maps
  BY AtType DEF Types
<1>1. /\ Has(m, k) /\ phase[k] = "playing" /\ goal[k] = m /\ row' = row /\ At' = At
      /\ UNCHANGED <<posZone, pend, login, loginZone, toMap>>
      /\ Steer(k, MapOf[sess[m][k].zone]) \/ UNCHANGED <<phase, goal>>
      /\ port' = NoClient \/ UNCHANGED port
  BY DEF SendZonePacket, ResendZonePacket, Talks, dbVars, loginVars, links, At, KeepRow
<1>2. \/ /\ sess[m][k].char = "left" /\ ~sess[m][k].logout
         /\ SetSession(m, k, [sess[m][k] EXCEPT !.char = "none"])
         /\ Send(m, CharZone(sess[m][k].zone))
      \/ sess[m][k].char = "none" /\ UNCHANGED <<sess, toWorld>> /\ Steer(k, MapOf[sess[m][k].zone])
  BY DEF SendZonePacket, ResendZonePacket, links
<1>3. sess[m][k] \in Session
  BY <1>0, <1>1, SessionHas
<1>4. \A n \in Maps, j \in Clients :
         (Has(n, j)' => Has(n, j)) /\ (sess'[n][j] # sess[n][j] =>
                /\ n = m /\ j = k /\ sess'[n][j].char = "none" /\ ~sess'[n][j].logout
                /\ ~sess[n][j].logout)
  <2>1. CASE UNCHANGED sess
    BY <2>1 DEF Has
  <2>2. CASE ~sess[m][k].logout /\ SetSession(m, k, [sess[m][k] EXCEPT !.char = "none"])
    <3> DEFINE f == [sess[m][k] EXCEPT !.char = "none"]
    <3>1. f \in Session /\ f.char = "none" /\ ~f.logout /\ SetSession(m, k, f)
      BY <1>3, <2>2 DEF Session
    <3> HIDE DEF f
    <3>2. \A n \in Maps, j \in Clients : sess'[n][j] = IF n = m /\ j = k THEN f ELSE sess[n][j]
      BY <1>0, <3>1, SetSessionLookup
    <3>3. QED BY <1>1, <2>2, <3>1, <3>2 DEF Has
  <2>3. QED BY <1>2, <2>1, <2>2
<1>5. \A n \in Maps, j \in Clients : ~Holds(n, j)
  <2>1. ~Holds(m, k)
    BY <1>1, <1>2 DEF Holds, Sound
  <2>2. QED BY <1>1, <2>1 DEF HolderAt, OneClient
<1>6. \A n \in Maps, j \in Clients : ~Holds(n, j)'
  BY <1>4, <1>5 DEF Holds
<1>7. RowAt' /\ LoginAt' /\ HolderAt'
  BY <1>1, <1>6 DEF RowAt, LoginAt, HolderAt
<1>8. RowKept'
  BY <1>0, <1>1, <1>4 DEF RowKept, OneClient
<1>9. LeaverAt'
  <2>1. CASE phase'[k] = "joining"
    BY <2>1 DEF LeaverAt, OneClient
  <2>2. CASE UNCHANGED <<phase, goal>>
    BY <1>1, <1>4, <2>2 DEF LeaverAt, OneClient
  <2>3. Steer(k, MapOf[sess[m][k].zone]) => phase'[k] = "joining"
    BY <1>0 DEF Steer, ProcType
  <2>4. QED BY <1>1, <2>1, <2>2, <2>3
<1>10. WorldAt'
  <2>1. CASE UNCHANGED toWorld
    BY <1>1, <2>1 DEF WorldAt
  <2>2. CASE /\ sess[m][k].char = "left" /\ ~sess[m][k].logout
             /\ Send(m, CharZone(sess[m][k].zone))
    <3>1. sess[m][k].zone = posZone
      BY <1>1, <2>2 DEF LeaverAt
    <3>2. CharZone(posZone) \in Message /\ CharZone(posZone).zone = posZone /\ m \in Peers
      BY <1>0, MessageType DEF CharZone, SessType, Peers
    <3>3. QED BY <1>0, <1>1, <2>2, <3>1, <3>2, SendAt DEF At
  <2>3. QED BY <1>2, <2>1, <2>2
<1>11. MapsAt'
  BY <1>1 DEF MapsAt
<1>12. QED BY <1>7, <1>8, <1>9, <1>10, <1>11

(* Once something was overtaken, late stays set.                           *)
LEMMA LateStays ==
    ASSUME [Next]_vars, late
    PROVE  late'
<1>1. Overtake => late'
  BY DEF Overtake
<1>2. UNCHANGED vars \/ UNCHANGED history => late'
  BY DEF vars, history
<1>3. ASSUME NEW m \in Maps, MapNext(m) PROVE late'
  <2>1. Overtake \/ UNCHANGED history \/ UNCHANGED late
    BY <1>3 DEF MapNext, MapCharZone, MapKillSession, CleanupPending, CrashMap, StartMap,
                FirstLogin, EnterZone, SendZonePacket, ResendZonePacket, CloseSession,
                SendDisconnect, CleanupSession, SendToZone
  <2>2. QED BY <1>1, <1>2, <2>1
<1>4. QED
  BY <1>1, <1>2, <1>3 DEF Next, LoginBegin, LoginCheck, LoginDelete, LoginInsert,
                          LoginAnnounce, LoseClient, AgeRow, WorldHandle

LEMMA OnTimeStep ==
    ASSUME OneClient, ~Neighbour, Ready, [Next]_vars, ~late'
    PROVE  OnTime'
<1>1. CASE UNCHANGED vars
  <2>1. UNCHANGED <<row, port, posZone, pend, login, loginZone, phase, goal, sess>> /\ At' = At
    BY <1>1 DEF vars, dbVars, loginVars, clientVars, At
  <2>2. UNCHANGED <<toWorld, toMap>>
    BY <1>1 DEF vars, links
  <2>3. QED BY <2>1, <2>2, LinksSame
         DEF Ready, OnTime, RowAt, LoginAt, RowKept, HolderAt, LeaverAt, Has, Holds
<1>2. CASE \E m \in Maps : MapNext(m)
  <2>1. PICK m \in Maps : MapNext(m)
    BY <1>2
  <2>2. CASE MapCharZone(m)
    BY <2>2, QuietOnTime
  <2>3. CASE MapKillSession(m) \/ \E k \in Clients : CloseSession(m, k) \/ CleanupSession(m, k)
    BY <2>3, EndOnTime
  <2>4. CASE CleanupPending(m) \/ CrashMap(m) \/ StartMap(m)
    BY <2>4, FaultOnTime
  <2>5. ASSUME NEW k \in Clients,
               FirstLogin(m, k) \/ EnterZone(m, k) \/ SendDisconnect(m, k)
        PROVE  OnTime'
    BY <2>5, FirstLoginOnTime, EnterOnTime, DisconnectOnTime
  <2>6. ASSUME NEW k \in Clients,
               SendZonePacket(m, k) \/ ResendZonePacket(m, k) \/ \E z \in Zones : SendToZone(m, k, z)
        PROVE  OnTime'
    BY <2>6, ZonePacketOnTime, SendToZoneOnTime
  <2>7. QED BY <2>1, <2>2, <2>3, <2>4, <2>5, <2>6 DEF MapNext
<1>3. QED BY <1>1, <1>2, LoginOnTime, QuietOnTime DEF Next

(* RowFollows, for a player with one client address of its own: unless a   *)
(* timeout, a fault or the player overtakes a message or a login, the      *)
(* accounts_sessions row of a character in a zone names the map it is on   *)
(* and its client, so that world routes to it and no second login passes.  *)
THEOREM RowNamesTheHolder ==
    ASSUME OneClient, ~Neighbour
    PROVE  Spec => []RowFollows
<1> DEFINE J == Sound /\ (late \/ OnTime)
<1>1. Init => J
  <2> SUFFICES ASSUME Init PROVE J
    OBVIOUS
  <2>1. \A m \in Maps, k \in Clients : ~Has(m, k)
    BY DEF Init, Has
  <2>2. Sound /\ RowAt /\ LoginAt /\ HolderAt /\ LeaverAt
    BY <2>1 DEF Init, Sound, RowAt, LoginAt, HolderAt, LeaverAt, Holds
  <2>3. At \in Maps
    BY HandoffAssumption DEF Init, At
  <2>4. RowKept
    BY <2>1, <2>3 DEF RowKept
  <2>5. WorldAt /\ MapsAt
    <3>1. /\ \A q \in Peers : \A i \in 1..Len(toWorld[q]) : FALSE
          /\ \A n \in Maps : \A i \in 1..Len(toMap[n]) : FALSE
      BY DEF Init
    <3>2. QED BY <3>1 DEF WorldAt, MapsAt
  <2>6. QED BY <2>2, <2>4, <2>5 DEF OnTime
<1>2. Types /\ IInv /\ J /\ [Next]_vars => J'
  BY SoundStep, OnTimeStep, LateStays DEF Ready
<1>3. J => RowFollows
  BY DEF OnTime, HolderAt, Holds, RowFollows, Present
<1>4. Spec => []IInv
  BY Start, Inductive, PTL DEF Spec
<1>5. QED BY <1>1, <1>2, <1>3, <1>4, TypesAlways, PTL DEF Spec

-----------------------------------------------------------------------------
(* SessionHandoff implements CharacterPlace. A step either leaves the      *)
(* entities as they are, takes some out (there is one at most, so the      *)
(* character vanishes), or is EnterZone or SendToZone.                     *)

PlaceVars == <<Entities, posZone>>

LEMMA IsEntity ==
    ASSUME NEW m \in Maps, NEW k \in Clients, NEW z \in Zones
    PROVE  <<m, k, z>> \in Entities <=> Present(m, k) /\ sess[m][k].zone = z
BY DEF Entities

LEMMA EntityAt ==
    ASSUME SessType, NEW m \in Maps, NEW k \in Clients, Present(m, k)
    PROVE  <<m, k, sess[m][k].zone>> \in Entities
<1>1. sess[m][k].zone \in Zones
  BY SessionHas DEF Present, Session
<1> QED BY <1>1, IsEntity

LEMMA AnEntity ==
    ASSUME IInv, NEW e \in Entities
    PROVE  /\ e[1] \in Maps /\ e[2] \in Clients /\ Present(e[1], e[2])
           /\ MapOf[posZone] = e[1] /\ e = <<e[1], e[2], posZone>>
BY DEF Entities, IInv, Located, Present

LEMMA OneAtMost ==
    ASSUME IInv, NEW e \in Entities, NEW f \in Entities
    PROVE  e = f
BY AnEntity, Enough DEF OneEntity

(* No session gets a character into a zone: some may lose theirs.          *)
LEMMA FewerPlace ==
    ASSUME IInv, posZone' = posZone,
           \A m \in Maps, k \in Clients :
              Present(m, k)' => Present(m, k) /\ sess'[m][k].zone = sess[m][k].zone
    PROVE  Place!Vanish \/ UNCHANGED PlaceVars
<1>1. Entities' \subseteq Entities
  BY DEF Entities
<1>2. Entities' = Entities \/ (Entities # {} /\ Entities' = {})
  BY <1>1, OneAtMost
<1> QED BY <1>2 DEF Place!Vanish, PlaceVars

LEMMA SetPlace ==
    ASSUME IInv, NEW m \in Maps, NEW k \in Clients, NEW s \in Session \cup {NoSession},
           SetSession(m, k, s), posZone' = posZone, s = NoSession \/ s.char # "in"
    PROVE  Place!Vanish \/ UNCHANGED PlaceVars
<1>1. \A n \in Maps, j \in Clients :
         sess'[n][j] = IF n = m /\ j = k THEN s ELSE sess[n][j]
  BY SetSessionLookup DEF IInv
<1> QED BY <1>1, FewerPlace DEF Present, Has

LEMMA SamePlace ==
    ASSUME UNCHANGED <<sess, posZone>>
    PROVE  UNCHANGED PlaceVars
BY DEF PlaceVars, Entities, Present, Has

(* No map has the character when one of the zone's map enters it anew.     *)
LEMMA EnterPlace ==
    ASSUME IInv, NEW m \in Maps, NEW k \in Clients, EnterZone(m, k)
    PROVE  Place!Enter(m, k) \/ Place!Vanish \/ UNCHANGED PlaceVars
<1> DEFINE s == sess[m][k]
           e == IF s.status = "waiting" /\ s.char = "loaded" THEN s ELSE Loaded(s.status)
<1>1. Has(m, k) /\ posZone' = posZone /\ SessType /\ Located /\ OneSession
  BY DEF EnterZone, IInv
<1>2. s \in Session
  BY <1>1, SessionHas
<1>3. e \in Session /\ e.char = "loaded"
  BY <1>1, <1>2, LoadedType DEF Session
<1>4. MapOf[e.zone] = m => e.zone = posZone
  BY <1>1, <1>2, LoadedType DEF Located, Enters, Session
<1>5. \/ MapOf[e.zone] = m /\ SetSession(m, k, [e EXCEPT !.status = "accepted", !.char = "in"])
      \/ MapOf[e.zone] # m /\ SetSession(m, k, [e EXCEPT !.status = "accepted"])
  BY DEF EnterZone
<1> HIDE DEF e, s
<1>6. CASE MapOf[e.zone] # m /\ SetSession(m, k, [e EXCEPT !.status = "accepted"])
  <2>1. [e EXCEPT !.status = "accepted"] \in Session
        /\ [e EXCEPT !.status = "accepted"].char # "in"
    BY <1>3 DEF Session
  <2> QED BY <1>1, <1>6, <2>1, SetPlace
<1>7. CASE MapOf[e.zone] = m /\ SetSession(m, k, [e EXCEPT !.status = "accepted", !.char = "in"])
  <2> DEFINE f == [e EXCEPT !.status = "accepted", !.char = "in"]
  <2>1. f \in Session /\ f.zone = posZone /\ f.char = "in" /\ MapOf[posZone] = m
    BY <1>3, <1>4, <1>7 DEF Session
  <2>2. SetSession(m, k, f)
    BY <1>7
  <2> HIDE DEF f
  <2>3. \A n \in Maps, j \in Clients :
           sess'[n][j] = IF n = m /\ j = k THEN f ELSE sess[n][j]
    BY <1>1, <2>1, <2>2, SetSessionLookup
  <2>4. \A n \in Maps, j \in Clients : Present(n, j) => n = m /\ j = k
    BY <1>1, <2>1 DEF Present, Located, OneSession, SessionsOn
  <2>5. posZone \in Zones
    BY <1>1 DEF SessType
  <2>6. f # NoSession
    BY <2>1, SessionAssumption
  <2>7. Entities' = {<<m, k, posZone>>}
    <3>1. Present(m, k)' /\ sess'[m][k].zone = posZone
      BY <2>1, <2>3, <2>6 DEF Present, Has
    <3>2. \A n \in Maps, j \in Clients : Present(n, j)' => n = m /\ j = k
      BY <2>3, <2>4 DEF Present, Has
    <3> QED BY <1>1, <2>5, <3>1, <3>2 DEF Entities
  <2>8. CASE Entities = {}
    BY <1>1, <2>1, <2>7, <2>8 DEF Place!Enter
  <2>9. CASE Entities # {}
    <3>1. PICK p \in Entities : TRUE
      BY <2>9
    <3>2. p = <<m, k, posZone>>
      BY <2>4, <3>1, AnEntity
    <3>3. Entities = {<<m, k, posZone>>}
      BY <3>1, <3>2, OneAtMost
    <3> QED BY <1>1, <2>7, <3>3 DEF PlaceVars
  <2> QED BY <2>8, <2>9
<1> QED BY <1>5, <1>6, <1>7

LEMMA SendToZonePlace ==
    ASSUME IInv, NEW m \in Maps, NEW k \in Clients, NEW z \in Zones, SendToZone(m, k, z)
    PROVE  Place!LeaveFor(z)
<1> DEFINE f == [RemoveCharFromZone(sess[m][k], FALSE) EXCEPT !.zone = z]
<1>1. Present(m, k) /\ posZone' = z /\ SessType /\ SetSession(m, k, f)
  BY DEF SendToZone, IInv, Present
<1>2. f \in Session /\ f.char = "left"
  BY <1>1, SessionHas DEF Present, Session, RemoveCharFromZone
<1> HIDE DEF f
<1>3. \A n \in Maps, j \in Clients :
         sess'[n][j] = IF n = m /\ j = k THEN f ELSE sess[n][j]
  BY <1>1, <1>2, SetSessionLookup
<1>4. \A n \in Maps, j \in Clients : ~Present(n, j)'
  BY <1>1, <1>2, <1>3, Enough DEF OneEntity, Present, Has
<1>5. Entities' = {}
  BY <1>4 DEF Entities
<1>6. Entities # {}
  BY <1>1, EntityAt
<1> QED BY <1>1, <1>5, <1>6 DEF Place!LeaveFor

(* One case per action.                                                    *)
LEMMA MapPlace ==
    ASSUME IInv, NEW m \in Maps, NEW k \in Clients,
           \/ FirstLogin(m, k) \/ SendZonePacket(m, k) \/ ResendZonePacket(m, k)
           \/ CloseSession(m, k) \/ SendDisconnect(m, k) \/ CleanupSession(m, k)
    PROVE  Place!Vanish \/ UNCHANGED PlaceVars
<1>0. SessType /\ posZone' = posZone
  BY DEF IInv, FirstLogin, SendZonePacket, ResendZonePacket, CloseSession,
         SendDisconnect, CleanupSession, dbVars
<1>1. CASE UNCHANGED sess
  BY <1>0, <1>1, SamePlace
<1>2. CASE SetSession(m, k, NoSession)
  BY <1>0, <1>2, SetPlace
<1>3. CASE SetSession(m, k, Loaded("waiting"))
  <2>1. Loaded("waiting") \in Session /\ Loaded("waiting").char # "in"
    BY <1>0, LoadedType
  <2> QED BY <1>0, <1>3, <2>1, SetPlace
<1>4. CASE SendZonePacket(m, k)
  <2> DEFINE f == [sess[m][k] EXCEPT !.char = "none"]
  <2>1. Has(m, k) /\ SetSession(m, k, f)
    BY <1>4 DEF SendZonePacket, Talks
  <2>2. f \in Session /\ f.char # "in"
    BY <1>0, <2>1, SessionHas DEF Session
  <2> HIDE DEF f
  <2> QED BY <1>0, <2>1, <2>2, SetPlace
<1>5. CASE SendDisconnect(m, k)
  <2> DEFINE f == RemoveCharFromZone(sess[m][k], TRUE)
  <2>1. Has(m, k) /\ SetSession(m, k, f)
    BY <1>5 DEF SendDisconnect
  <2>2. f \in Session /\ f.char # "in"
    BY <1>0, <2>1, SessionHas DEF Session, RemoveCharFromZone
  <2> HIDE DEF f
  <2> QED BY <1>0, <2>1, <2>2, SetPlace
<1> QED
  BY <1>1, <1>2, <1>3, <1>4, <1>5
     DEF FirstLogin, ResendZonePacket, CloseSession, CleanupSession, Destroy

LEMMA StepPlace ==
    ASSUME IInv, [Next]_vars
    PROVE  Place!Next \/ UNCHANGED PlaceVars
<1> USE DEF Place!Next
<1>1. CASE \/ UNCHANGED vars
           \/ \E k \in Clients : LoginBegin(k) \/ LoseClient(k)
           \/ LoginCheck \/ LoginDelete \/ LoginInsert \/ LoginAnnounce \/ AgeRow
           \/ \E q \in Peers : WorldHandle(q)
  <2>1. UNCHANGED <<sess, posZone>>
    BY <1>1 DEF vars, dbVars, LoginBegin, LoginCheck, LoginDelete, LoginInsert, LoginAnnounce,
                LoseClient, AgeRow, WorldHandle
  <2> QED BY <2>1, SamePlace
<1>2. CASE \E m \in Maps : MapNext(m)
  <2>1. PICK m \in Maps : MapNext(m)
    BY <1>2
  <2>2. CASE MapCharZone(m) \/ CleanupPending(m) \/ StartMap(m)
    <3>1. UNCHANGED <<sess, posZone>>
      BY <2>2 DEF MapCharZone, CleanupPending, StartMap, dbVars
    <3> QED BY <3>1, SamePlace
  <2>3. CASE MapKillSession(m)
    <3>1. posZone' = posZone
      BY <2>3 DEF MapKillSession
    <3>2. CASE UNCHANGED sess
      BY <3>1, <3>2, SamePlace
    <3>3. CASE \E k \in SessionsOn(m) : Destroy(m, k)
      BY <3>1, <3>3, SetPlace DEF Destroy, SessionsOn
    <3> QED BY <2>3, <3>2, <3>3 DEF MapKillSession
  <2>4. CASE CrashMap(m)
    <3>1. posZone' = posZone /\ sess' = [sess EXCEPT ![m] = [k \in Clients |-> NoSession]]
      BY <2>4 DEF CrashMap, dbVars
    <3>2. \A n \in Maps, j \in Clients : sess'[n][j] = IF n = m THEN NoSession ELSE sess[n][j]
      BY <3>1 DEF IInv, SessType
    <3> QED BY <3>1, <3>2, FewerPlace DEF Present, Has
  <2>5. ASSUME NEW k \in Clients,
               \/ FirstLogin(m, k) \/ EnterZone(m, k)
               \/ SendZonePacket(m, k) \/ ResendZonePacket(m, k) \/ CloseSession(m, k)
               \/ SendDisconnect(m, k) \/ CleanupSession(m, k)
               \/ \E z \in Zones : SendToZone(m, k, z)
        PROVE  Place!Next \/ UNCHANGED PlaceVars
    <3>1. CASE EnterZone(m, k)
      BY <3>1, EnterPlace
    <3>2. CASE \E z \in Zones : SendToZone(m, k, z)
      BY <3>2, SendToZonePlace
    <3> QED BY <2>5, <3>1, <3>2, MapPlace
  <2> QED BY <2>1, <2>2, <2>3, <2>4, <2>5 DEF MapNext
<1> QED BY <1>1, <1>2 DEF Next

(* CharacterPlace: a character enters a zone only while it is in none, the *)
(* zone is the one the database has at that moment, whenever it was        *)
(* loaded, and the map runs that zone; and the database gets another zone  *)
(* only in the step that takes the character out of its old one. For any   *)
(* number of maps, zones, addresses, logins, zone changes and crashes.     *)
THEOREM ImplementsCharacterPlace == Spec => OnePlaceAtATime
<1>1. Init => Place!Init
  <2> SUFFICES ASSUME Init PROVE Entities = {} /\ posZone = Home
    BY DEF Place!Init
  <2>1. \A m \in Maps, k \in Clients : ~Present(m, k)
    BY DEF Init, Present, Has
  <2> QED BY <2>1 DEF Init, Entities
<1>2. IInv /\ [Next]_vars => [Place!Next]_(Place!vars)
  BY StepPlace DEF Place!vars, PlaceVars
<1>3. Spec => []IInv
  BY Start, Inductive, PTL DEF Spec
<1> QED BY <1>1, <1>2, <1>3, PTL DEF Spec, OnePlaceAtATime, Place!Spec
=============================================================================
