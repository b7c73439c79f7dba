--------------------------- MODULE SessionHandoff ---------------------------
(***************************************************************************)
(* Who holds a character: the sessions of one character on the map         *)
(* processes, its row in accounts_sessions, and the client that moves      *)
(* between them.                                                           *)
(*                                                                         *)
(* Login inserts the row and announces the character; a map creates a      *)
(* pending session, turns it into a session at the client's first 0x00A,   *)
(* loads the character and puts it in its zone at the next one. At a zone  *)
(* change the old map keeps its session, without a character, to repeat    *)
(* the zone-out packet; the new map has it killed (KillSession) or it      *)
(* times out. Clients vanish, map processes crash and restart, and any     *)
(* timeout may overtake any message.                                       *)
(***************************************************************************)
EXTENDS Naturals, Sequences, FiniteSets

CONSTANTS
    Maps,         \* map processes
    Zones,
    MapOf,        \* [Zones -> Maps]: zone_settings
    Home,         \* the zone the character is in when it is first selected
    Clients,      \* client addresses (IPP) the player uses
    Login,        \* the login process
    NoMap, NoClient, NoSession,
    Neighbour,    \* another character plays from the same client_addr
    MaxMoves,     \* bound: zone changes
    MaxLogins,    \* bound: times the player starts a client
    MaxCrashes    \* bound: crashes of map processes

ASSUME HandoffAssumption ==
    /\ MapOf \in [Zones -> Maps] /\ Home \in Zones
    /\ NoMap \notin Maps /\ Login \notin Maps /\ NoClient \notin Clients
    /\ Neighbour \in BOOLEAN
    /\ MaxMoves \in Nat /\ MaxLogins \in Nat /\ MaxCrashes \in Nat

VARIABLES
    \* the database
    row,        \* accounts_sessions.server_addr/port; NoMap: no row
    port,       \* accounts_sessions.client_port; NoClient: 0
    stale,      \* last_zoneout_time is two minutes ago or more
    posZone, posPrev,   \* chars.pos_zone, chars.pos_prevzone
    \* the map processes
    up,         \* the map processes that run
    sess,       \* MapSessionContainer::sessions_, per map and address
    pend,       \* maps with a pending session
    \* the login process: the request it is working on
    login, loginZone, loginAddr,
    \* the clients
    phase,      \* "off", "joining": sends 0x00A to goal, "playing" on goal
    goal,
    \* the IPC links
    toWorld, toMap,
    \* history and budgets
    moves, logins, crashes,
    cut,        \* a session went with 0x00B for another map still queued
    late        \* a player, a fault or a timeout overtook a message or a login

dbVars     == <<row, port, stale, posZone, posPrev>>
loginVars  == <<login, loginZone, loginAddr>>
clientVars == <<phase, goal>>
links      == <<toWorld, toMap>>
budgets    == <<moves, logins, crashes>>
history    == <<cut, late>>
vars == <<dbVars, up, sess, pend, loginVars, clientVars, links, budgets, history>>

Peers == Maps \cup {Login}

(* status is blowfish.status; char is the CCharEntity: none, loaded, in a  *)
(* zone, or taken out of it with 0x00B queued; logout is shuttingDown = 1. *)
Session == [status : {"waiting", "accepted", "pending_zone"},
            char : {"none", "loaded", "in", "left"},
            zone : Zones, prev : Zones, logout : BOOLEAN]

ASSUME SessionAssumption == NoSession \notin Session

CharZone(z) == [type |-> "CharZone", zone |-> z]
KillSession == [type |-> "KillSession", zone |-> Home]
Message == [type : {"CharZone", "KillSession"}, zone : Zones]

Init ==
    /\ row = NoMap /\ port = NoClient /\ stale = FALSE
    /\ posZone = Home /\ posPrev = Home
    /\ up = Maps /\ sess = [m \in Maps |-> [k \in Clients |-> NoSession]] /\ pend = {}
    /\ login = "idle" /\ loginZone = Home /\ loginAddr = NoClient
    /\ phase = [k \in Clients |-> "off"] /\ goal = [k \in Clients |-> MapOf[Home]]
    /\ toWorld = [q \in Peers |-> << >>] /\ toMap = [m \in Maps |-> << >>]
    /\ moves = 0 /\ logins = 0 /\ crashes = 0 /\ cut = FALSE /\ late = FALSE

-----------------------------------------------------------------------------
(* Helpers.                                                                *)

Has(m, k) == sess[m][k] # NoSession
SessionsOn(m) == {k \in Clients : Has(m, k)}
SetSession(m, k, s) == sess' = [sess EXCEPT ![m][k] = s]

DeleteRow == row' = NoMap /\ port' = NoClient /\ stale' = FALSE
KeepRow   == UNCHANGED <<row, port, stale>>

(* The client of address k starts to send 0x00A to map m.                  *)
Steer(k, m) ==
    /\ phase' = [phase EXCEPT ![k] = "joining"]
    /\ goal' = [goal EXCEPT ![k] = m]

(* The CCharEntity was taken out of its zone for one of another map, and   *)
(* its client has not been sent there yet.                                 *)
Leaving(m, k) ==
    /\ Has(m, k) /\ sess[m][k].char = "left" /\ ~sess[m][k].logout
    /\ MapOf[sess[m][k].zone] # m

Send(q, p) == toWorld' = [toWorld EXCEPT ![q] = Append(@, p)]

(* A step that need not wait for messages, or for the login process to get *)
(* to its next query, notes whether it overtakes any.                      *)
Overtake ==
    late' = (late \/ login # "idle"
                  \/ (\E q \in Peers : toWorld[q] # << >>)
                  \/ (\E m \in Maps : toMap[m] # << >>))

-----------------------------------------------------------------------------
(* The login process (data_session.cpp, 0xA2). Each query is its own       *)
(* statement; maps act between them.                                       *)

(* The character's zone is read.                                           *)
LoginBegin(k) ==
    /\ Overtake /\ login = "idle" /\ phase[k] = "off" /\ logins < MaxLogins
    /\ login' = "begun" /\ loginZone' = posZone /\ loginAddr' = k
    /\ logins' = logins + 1
    /\ UNCHANGED <<dbVars, up, sess, pend, clientVars, links, moves, crashes, cut>>

(* Is there a row whose client was never seen at its destination for two   *)
(* minutes?                                                                *)
LoginCheck ==
    /\ login = "begun"
    /\ login' = IF row # NoMap /\ port = NoClient /\ stale THEN "stale" ELSE "checked"
    /\ UNCHANGED <<dbVars, up, sess, pend, loginZone, loginAddr,
                   clientVars, links, budgets, history>>

(* The row of the character goes, whatever it has become since.            *)
LoginDelete ==
    /\ login = "stale"
    /\ login' = "checked"
    /\ DeleteRow
    /\ UNCHANGED <<posZone, posPrev, up, sess, pend, loginZone, loginAddr,
                   clientVars, links, budgets, history>>

(* "Character already logged in", or the new row. The SELECT and the       *)
(* INSERT are one step: nobody else inserts a row, and one that is there   *)
(* has the INSERT refused as well (the primary key).                       *)
MayInsert == row = NoMap

LoginInsert ==
    /\ login = "checked"
    /\ \/ /\ ~MayInsert
          /\ login' = "idle"
          /\ KeepRow
       \/ /\ MayInsert
          /\ login' = "inserted"
          /\ row' = MapOf[loginZone] /\ port' = NoClient /\ stale' = FALSE
    /\ UNCHANGED <<posZone, posPrev, up, sess, pend, loginZone, loginAddr,
                   clientVars, links, budgets, history>>

(* The client learns the map's address, world learns of the character;     *)
(* neither does if the lobby's view session has gone.                      *)
LoginAnnounce ==
    /\ login = "inserted"
    /\ login' = "idle"
    /\ \/ Steer(loginAddr, MapOf[loginZone]) /\ Send(Login, CharZone(loginZone))
       \/ UNCHANGED <<clientVars, toWorld>>
    /\ UNCHANGED <<dbVars, up, sess, pend, loginZone, loginAddr, toMap, budgets, history>>

-----------------------------------------------------------------------------
(* World (ipc_server.cpp).                                                 *)

Forward(q, m, p) ==
    /\ toWorld' = [toWorld EXCEPT ![q] = Tail(@)]
    /\ toMap' = [toMap EXCEPT ![m] = IF m \in up THEN Append(@, p) ELSE @]

(* CharZone goes to the map of the zone it names; KillSession to the map   *)
(* of pos_prevzone, as the database has it by now.                         *)
WorldHandle(q) ==
    /\ toWorld[q] # << >>
    /\ LET p == Head(toWorld[q])
       IN \/ /\ p.type = "CharZone"
             /\ Forward(q, MapOf[p.zone], p)
          \/ /\ p.type = "KillSession" /\ posPrev # posZone
             /\ Forward(q, MapOf[posPrev], p)
          \/ /\ p.type = "KillSession" /\ posPrev = posZone
             /\ toWorld' = [toWorld EXCEPT ![q] = Tail(@)]
             /\ UNCHANGED toMap
    /\ UNCHANGED <<dbVars, up, sess, pend, loginVars, clientVars, budgets, history>>

-----------------------------------------------------------------------------
(* Messages at a map (ipc_client.cpp).                                     *)

Receive(m, ty) ==
    /\ m \in up /\ toMap[m] # << >> /\ Head(toMap[m]).type = ty
    /\ toMap' = [toMap EXCEPT ![m] = Tail(@)]

(* getSessionByCharId found nothing.                                       *)
AbsentAlways(m) == TRUE
Absent(m) == SessionsOn(m) = {}

(* A session is kept alive, otherwise a pending session is made.           *)
MapCharZone(m) ==
    /\ Receive(m, "CharZone")
    /\ pend' = IF Absent(m) THEN pend \cup {m} ELSE pend
    /\ UNCHANGED <<dbVars, up, sess, loginVars, clientVars, toWorld, budgets, history>>

Killable(s) == s.status = "pending_zone"

(* destroySession takes the row only if the character was logging out.     *)
Destroy(m, k) ==
    /\ SetSession(m, k, NoSession)
    /\ IF sess[m][k].logout THEN DeleteRow ELSE KeepRow

MapKillSession(m) ==
    /\ Receive(m, "KillSession")
    /\ \/ \E k \in SessionsOn(m) :
             Killable(sess[m][k]) /\ Destroy(m, k) /\ cut' = (cut \/ Leaving(m, k))
       \/ /\ SessionsOn(m) = {} \/ \E k \in SessionsOn(m) : ~Killable(sess[m][k])
          /\ KeepRow /\ UNCHANGED <<sess, cut>>
    /\ UNCHANGED <<posZone, posPrev, up, pend, loginVars, clientVars, toWorld, budgets, late>>

-----------------------------------------------------------------------------
(* The client's packets (map_networking.cpp, 0x00a_login.cpp).             *)

Joining(m, k) == phase[k] = "joining" /\ goal[k] = m /\ m \in up

(* recv_parse: the character is loaded from where the database has it.     *)
Loaded(status) ==
    [status |-> status, char |-> "loaded", zone |-> posZone, prev |-> posPrev,
     logout |-> FALSE]

(* The first 0x00A at a map without a session for the address uses up the  *)
(* pending session. createSession wants a row of the client's address, be  *)
(* it another character's; LoadChar does not ask for the row again.        *)
FirstLogin(m, k) ==
    /\ Joining(m, k) /\ ~Has(m, k) /\ m \in pend
    /\ pend' = pend \ {m}
    /\ \/ /\ row # NoMap \/ Neighbour
          /\ SetSession(m, k, Loaded("waiting"))
          /\ IF posZone # posPrev THEN Send(m, KillSession) ELSE UNCHANGED toWorld
       \/ /\ row = NoMap /\ ~Neighbour
          /\ UNCHANGED <<sess, toWorld>>
    /\ UNCHANGED <<dbVars, up, loginVars, clientVars, toMap, budgets, history>>

(* updateSession notes the client's port; last_zoneout_time = 0 is long    *)
(* ago.                                                                    *)
UpsertSession(k) == port' = k /\ stale' = TRUE /\ UNCHANGED row
UpdateSession(k) ==
    IF row = NoMap THEN KeepRow ELSE port' = k /\ stale' = TRUE /\ UNCHANGED row

(* A 0x00A at a session that is waiting or changing zone: the character is *)
(* loaded unless it is there already (an old one is dropped first), and    *)
(* enters its zone if this map runs it.                                    *)
EnterZone(m, k) ==
    /\ Joining(m, k) /\ Has(m, k)
    /\ LET s == sess[m][k]
           e == IF s.status = "waiting" /\ s.char = "loaded" THEN s ELSE Loaded(s.status)
       IN /\ s.status \in {"waiting", "pending_zone"}
          /\ \/ /\ MapOf[e.zone] = m
                /\ SetSession(m, k, [e EXCEPT !.status = "accepted", !.char = "in"])
                /\ phase' = [phase EXCEPT ![k] = "playing"]
                /\ UpdateSession(k)
             \/ /\ MapOf[e.zone] # m
                /\ SetSession(m, k, [e EXCEPT !.status = "accepted"])
                /\ KeepRow /\ UNCHANGED phase
    /\ UNCHANGED <<posZone, posPrev, up, pend, loginVars, goal, links, budgets, history>>

(* removeCharFromZone; off: the character logs out (shuttingDown = 1).     *)
RemoveCharLater(s, off) == [s EXCEPT !.status = "pending_zone", !.logout = off]
RemoveCharFromZone(s, off) ==
    [s EXCEPT !.status = "pending_zone", !.char = "left", !.logout = off]

(* The zone tick calls SendToZone and removeCharFromZone in one go. A      *)
(* character in its mog house keeps its previous zone.                     *)
SendToZone(m, k, z) ==
    /\ Overtake /\ m \in up /\ Has(m, k) /\ moves < MaxMoves
    /\ LET s == sess[m][k]
       IN /\ s.char = "in" /\ s.status = "accepted"
          /\ row' = IF row = NoMap THEN NoMap ELSE MapOf[z]
          /\ posZone' = z
          /\ posPrev' \in IF z = s.zone THEN {s.prev} ELSE {s.prev, s.zone}
          /\ SetSession(m, k, [RemoveCharFromZone(s, FALSE) EXCEPT !.zone = z])
    /\ moves' = moves + 1
    /\ UNCHANGED <<port, stale, up, pend, loginVars, clientVars, links, logins, crashes, cut>>

(* SendDisconnect and removeCharFromZone.                                  *)
SendDisconnect(m, k) ==
    /\ m \in up /\ Has(m, k)
    /\ sess[m][k].char = "in" /\ sess[m][k].status = "accepted"
    /\ SetSession(m, k, RemoveCharFromZone(sess[m][k], TRUE))
    /\ UNCHANGED <<dbVars, up, pend, loginVars, clientVars, links, budgets, history>>

Talks(m, k) == phase[k] = "playing" /\ goal[k] = m /\ m \in up /\ Has(m, k)

(* send_parse sends 0x00B in answer to a packet: client_port = 0, CharZone *)
(* for world, the CCharEntity is gone. The client may miss the packet.     *)
SendZonePacket(m, k) ==
    /\ Talks(m, k)
    /\ LET s == sess[m][k]
       IN /\ s.char = "left" /\ ~s.logout
          /\ IF row = NoMap THEN KeepRow
             ELSE port' = NoClient /\ stale' = FALSE /\ UNCHANGED row
          /\ Send(m, CharZone(s.zone))
          /\ SetSession(m, k, [s EXCEPT !.char = "none"])
          /\ \/ Steer(k, MapOf[s.zone])
             \/ UNCHANGED <<phase, goal>>
    /\ UNCHANGED <<posZone, posPrev, up, pend, loginVars, toMap, budgets, history>>

(* The client did not get 0x00B and still uses the old key: sent again.    *)
ResendZonePacket(m, k) ==
    /\ Talks(m, k) /\ sess[m][k].char = "none" /\ sess[m][k].status = "pending_zone"
    /\ Steer(k, MapOf[sess[m][k].zone])
    /\ UNCHANGED <<dbVars, up, sess, pend, loginVars, links, budgets, history>>

(* A packet of a session that logs out closes it.                          *)
CloseSession(m, k) ==
    /\ Talks(m, k) /\ sess[m][k].logout
    /\ Destroy(m, k)
    /\ phase' = [phase EXCEPT ![k] = "off"]
    /\ UNCHANGED <<posZone, posPrev, up, pend, loginVars, goal, links, budgets, history>>

-----------------------------------------------------------------------------
(* Timeouts (cleanupSessions).                                             *)

(* The row goes with a silent session unless it names another map.         *)
SessionExpiryKeeps(m) == KeepRow
SessionExpiryAny(m) == DeleteRow
SessionExpiry(m) == IF row = m THEN DeleteRow ELSE KeepRow

CleanupSession(m, k) ==
    /\ Overtake /\ m \in up /\ Has(m, k)
    /\ SetSession(m, k, NoSession)
    /\ SessionExpiry(m)
    /\ cut' = (cut \/ Leaving(m, k))
    /\ UNCHANGED <<posZone, posPrev, up, pend, loginVars, clientVars, links, budgets>>

(* The pending session was not used. The row goes, whatever it names.      *)
CleanupPending(m) ==
    /\ Overtake /\ m \in up /\ m \in pend
    /\ pend' = pend \ {m}
    /\ DeleteRow
    /\ UNCHANGED <<posZone, posPrev, up, sess, loginVars, clientVars, links, budgets, cut>>

(* Two minutes pass since the zone-out or the login.                       *)
AgeRow ==
    /\ Overtake /\ row # NoMap /\ ~stale
    /\ stale' = TRUE
    /\ UNCHANGED <<row, port, posZone, posPrev, up, sess, pend, loginVars, clientVars,
                   links, budgets, cut>>

-----------------------------------------------------------------------------
(* Faults.                                                                 *)

(* The client is gone: the player lost power or the network.               *)
LoseClient(k) ==
    /\ phase[k] # "off"
    /\ phase' = [phase EXCEPT ![k] = "off"]
    /\ UNCHANGED <<dbVars, up, sess, pend, loginVars, goal, links, budgets, history>>

CrashMap(m) ==
    /\ Overtake /\ m \in up /\ crashes < MaxCrashes
    /\ crashes' = crashes + 1
    /\ up' = up \ {m}
    /\ cut' = (cut \/ \E k \in Clients : Leaving(m, k))
    /\ sess' = [sess EXCEPT ![m] = [k \in Clients |-> NoSession]]
    /\ pend' = pend \ {m}
    /\ toMap' = [toMap EXCEPT ![m] = << >>]
    /\ UNCHANGED <<dbVars, loginVars, clientVars, toWorld, moves, logins>>

(* do_init deletes the rows that name this map.                            *)
StartMap(m) ==
    /\ m \notin up
    /\ up' = up \cup {m}
    /\ IF row = m THEN DeleteRow ELSE KeepRow
    /\ UNCHANGED <<posZone, posPrev, sess, pend, loginVars, clientVars, links, budgets, history>>

-----------------------------------------------------------------------------

MapNext(m) ==
    \/ MapCharZone(m) \/ MapKillSession(m)
    \/ CleanupPending(m) \/ CrashMap(m) \/ StartMap(m)
    \/ \E k \in Clients :
          \/ FirstLogin(m, k) \/ EnterZone(m, k)
          \/ SendZonePacket(m, k) \/ ResendZonePacket(m, k) \/ CloseSession(m, k)
          \/ SendDisconnect(m, k) \/ CleanupSession(m, k)
          \/ \E z \in Zones : SendToZone(m, k, z)

Next ==
    \/ \E k \in Clients : LoginBegin(k) \/ LoseClient(k)
    \/ LoginCheck \/ LoginDelete \/ LoginInsert \/ LoginAnnounce
    \/ \E q \in Peers : WorldHandle(q)
    \/ \E m \in Maps : MapNext(m)
    \/ AgeRow

Spec == Init /\ [][Next]_vars

(* Every link is read; the sessions and pending sessions that their client *)
(* does not use time out; a map that crashed is started again. Nothing is  *)
(* assumed of clients and logins.                                          *)
Quiet(m, k) == phase[k] = "off" \/ goal[k] # m

Fairness ==
    /\ \A q \in Peers : WF_vars(WorldHandle(q))
    /\ \A m \in Maps :
          /\ WF_vars(MapCharZone(m) \/ MapKillSession(m))
          /\ WF_vars(CleanupPending(m)) /\ WF_vars(StartMap(m))
          /\ \A k \in Clients : WF_vars(Quiet(m, k) /\ CleanupSession(m, k))

FairSpec == Spec /\ Fairness

-----------------------------------------------------------------------------
(* Properties.                                                             *)

(* Every variable keeps its type, and the columns of a session row have    *)
(* values only while there is a row.                                       *)
TypeOK ==
    /\ row = NoMap => port = NoClient /\ ~stale
    /\ row \in Maps \cup {NoMap} /\ port \in Clients \cup {NoClient} /\ stale \in BOOLEAN
    /\ posZone \in Zones /\ posPrev \in Zones
    /\ up \subseteq Maps /\ pend \subseteq Maps
    /\ sess \in [Maps -> [Clients -> Session \cup {NoSession}]]
    /\ login \in {"idle", "begun", "stale", "checked", "inserted"} /\ loginZone \in Zones
    /\ loginAddr \in Clients \cup {NoClient}
    /\ phase \in [Clients -> {"off", "joining", "playing"}] /\ goal \in [Clients -> Maps]
    /\ toWorld \in [Peers -> Seq(Message)] /\ toMap \in [Maps -> Seq(Message)]
    /\ moves \in Nat /\ logins \in Nat /\ crashes \in Nat
    /\ cut \in BOOLEAN /\ late \in BOOLEAN

(* The CCharEntity of the session takes part in a zone.                    *)
Present(m, k) == Has(m, k) /\ sess[m][k].char = "in"

(* A character is in at most one zone of one map process at any time,      *)
(* whatever is lost, late, restarted or logged in twice: two entities of   *)
(* one character would each save their own inventory.                      *)
OneEntity ==
    \A m, n \in Maps, j, k \in Clients :
       Present(m, k) /\ Present(n, j) => m = n /\ k = j

(* CharacterPlace: the entities of the character, each with its zone.      *)
Entities ==
    {e \in Maps \X Clients \X Zones :
       Present(e[1], e[2]) /\ sess[e[1]][e[2]].zone = e[3]}

Place == INSTANCE CharacterPlace WITH entities <- Entities, record <- posZone

(* The sessions implement CharacterPlace: a character enters only when no  *)
(* map has it in a zone, and the zone it was loaded for, which may be long *)
(* ago (FirstLogin), is still the one the database has, on the map that    *)
(* runs it; and the database gets another zone only as the map takes the   *)
(* character out of its old one.                                           *)
OnePlaceAtATime == Place!Spec

(* getSessionByCharId returns the first match: a map has one session of a  *)
(* character at most, and no pending session beside it.                    *)
OneSession ==
    \A m \in Maps : \A j, k \in SessionsOn(m) : j = k /\ m \notin pend

(* The row of a character that is in a zone names its map and its client,  *)
(* so that world routes messages to it and no second login is accepted     *)
(* (one client), as long as nothing overtook a message or a login that was *)
(* between two of its queries.                                             *)
RowFollows ==
    late \/ \A m \in Maps, k \in Clients : Present(m, k) => row = m /\ port = k

(* No client is connected and none is logging in.                          *)
Gone == login = "idle" /\ \A k \in Clients : phase[k] = "off"

(* The next login finds no row, or one it may delete after two minutes.    *)
Selectable == row = NoMap \/ port = NoClient

(* A character whose client is gone can be selected again in the end       *)
(* ("If client was zoning out but was never seen at the destination past 2 *)
(* minutes, remove old session"), unless a session ended while its 0x00B   *)
(* was still queued: then the row names a map that never heard of the      *)
(* character, with the old client's port.                                  *)
AccountFreedUnlessCut == Gone ~> Selectable \/ ~Gone \/ cut
=============================================================================
