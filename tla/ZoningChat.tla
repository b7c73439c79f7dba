----------------------------- MODULE ZoningChat -----------------------------
(***************************************************************************)
(* Chat between characters that move from one map process to another.      *)
(*                                                                         *)
(* Every chat line goes from the sender's map process to the world process *)
(* (world/ipc_server.cpp), which looks up the recipients' map processes in *)
(* the database, and from there to those map processes (map/ipc_client.cpp)*)
(* While a character changes zone no map process can deliver to it; world  *)
(* then holds its lines in a ZoningChatBuffer and replays them when the    *)
(* destination map reports the character ready.                            *)
(*                                                                         *)
(* Three kinds of process run concurrently - map, world and login - and    *)
(* share only the database and the IPC links, which are FIFO per link and  *)
(* unordered between links.                                                *)
(***************************************************************************)
EXTENDS Naturals, Sequences, FiniteSets

CONSTANTS
    Chars,          \* characters
    Maps,           \* map processes
    Login,          \* the login process, a sender of CharZone only
    NoMap,          \* "no row in accounts_sessions" / "no map"
    Tells, Groups,  \* chat lines: tells, and lines to the one party
    Sender,         \* [Tells \cup Groups -> Chars]
    Recipient,      \* [Tells -> Chars]
    Home,           \* [Chars -> Maps]: where a character starts
    Jailed,         \* characters in prison without GM rights
    TellBuffering,  \* main.ENABLE_TELL_ZONING_BUFFER
    MaxMessagesPerChar,     \* ZoningChatBuffer::kMaxMessagesPerChar
    MaxTargetedChatRetries, \* kMaxTargetedChatRetries
    HandoffBudget   \* [Chars -> Nat]: bound on logins and zone changes

Lines == Tells \cup Groups
Peers == Maps \cup {Login}

ASSUME LinesAssumption == Tells \cap Groups = {}
ASSUME PeersAssumption == Login \notin Maps /\ NoMap \notin Maps
ASSUME ChatAssumption ==
    /\ Sender \in [Lines -> Chars]
    /\ Recipient \in [Tells -> Chars]
    /\ Home \in [Chars -> Maps]
    /\ Jailed \subseteq Chars
    /\ TellBuffering \in BOOLEAN
ASSUME BoundsAssumption ==
    /\ MaxMessagesPerChar \in Nat \ {0}
    /\ MaxTargetedChatRetries \in Nat
    /\ HandoffBudget \in [Chars -> Nat]

VARIABLES
    \* the database, shared by all processes
    row,       \* accounts_sessions.server_addr/port, NoMap when there is no row
    zoning,    \* char_stats.zoning # 0
    member,    \* accounts_parties: the characters in the party
    \* the map processes
    stage,     \* where a character is between two zones
    at,        \* the map that holds (or last held) its CCharEntity
    dest,      \* the map it is heading for
    known,     \* per map: characters with a session (sessions_)
    pending,   \* per map: characters with a pending session (pending_sessions_)
    party,     \* characters whose PChar->PParty is set
    struck,    \* characters whose membership row went without their own map noticing
    reload,    \* characters whose PChar->ReloadParty() holds
    ready,     \* m_chatZoneClientReady / m_chatZoneReadySent
    \* the world process: ZoningChatBuffer::transitions_
    trans,     \* keys of transitions_
    snap,      \* keys whose membership snapshot names the party
    buf,       \* Transition::messages
    \* the IPC links
    toWorld, toMap,
    \* history
    sent,      \* lines sent so far
    answers,   \* how often a copy was delivered, refused or reported undelivered
    bounced,   \* tells world reported as "not received, offline"
    leaked,    \* party lines delivered to a character its own map took out of the party
    disturbed, \* characters that went offline, or whose buffer filled or expired
    moves      \* logins and zone changes so far

dbVars    == <<row, zoning, member>>
mapVars   == <<stage, at, dest, known, pending, party, struck, reload, ready>>
worldVars == <<trans, snap, buf>>
history   == <<sent, answers, bounced, leaked, disturbed, moves>>
vars      == <<dbVars, mapVars, worldVars, toWorld, toMap, history>>

-----------------------------------------------------------------------------
(* IPC messages (common/ipc_structs.h).                                    *)

Retries == 0..MaxTargetedChatRetries

TellMsg     == [type : {"Tell", "TellRetry"}, line : Tells]
PartyMsg    == [type : {"Party"}, line : Groups]
TargetedMsg == [type : {"Targeted", "TargetedRetry"}, line : Groups,
                to : SUBSET Chars, retry : Retries]
CharZoneMsg == [type : {"CharZone"}, char : Chars, dest : Maps, inParty : BOOLEAN]
ReadyMsg    == [type : {"ChatZoneReady"}, char : Chars]
Message     == TellMsg \cup PartyMsg \cup TargetedMsg \cup CharZoneMsg \cup ReadyMsg

Tell(t)      == [type |-> "Tell", line |-> t]
TellRetry(t) == [type |-> "TellRetry", line |-> t]
Party(g)     == [type |-> "Party", line |-> g]
Targeted(g, cs, n) == [type |-> "Targeted", line |-> g, to |-> cs, retry |-> n]
TargetedRetry(g, cs, n) ==
    [type |-> "TargetedRetry", line |-> g, to |-> cs, retry |-> n]
CharZone(c, m, inParty) ==
    [type |-> "CharZone", char |-> c, dest |-> m, inParty |-> inParty]
ChatZoneReady(c) == [type |-> "ChatZoneReady", char |-> c]

Stages == {"offline", "selected", "moving", "loaded", "in", "publishing",
           "left", "closing", "ghost"}

(* offline    no session row                                               *)
(* selected   login has inserted the row, CharZone not announced yet       *)
(* moving     told to go to dest; the client has not reached it            *)
(* loaded     first 0x00A at dest: LoadChar done, not inserted in a zone   *)
(* in         in a zone of map "at"                                        *)
(* publishing inside SendToZone: zoning = 1 written, route not yet         *)
(* left       removed from its zone, 0x00B still queued                    *)
(* closing    logged out of its zone, session not closed yet               *)
(* ghost      client lost in "left": the row names a map that never hears  *)
(*            of the character                                             *)

Init ==
    /\ row = Home /\ zoning = [c \in Chars |-> FALSE] /\ member = Chars
    /\ stage = [c \in Chars |-> "in"] /\ at = Home /\ dest = Home
    /\ known = [m \in Maps |-> {c \in Chars : Home[c] = m}]
    /\ pending = [m \in Maps |-> {}]
    /\ party = Chars /\ struck = {} /\ reload = {} /\ ready = [c \in Chars |-> "sent"]
    /\ trans = {} /\ snap = {} /\ buf = [c \in Chars |-> << >>]
    /\ toWorld = [q \in Peers |-> << >>] /\ toMap = [m \in Maps |-> << >>]
    /\ sent = {} /\ answers = [l \in Lines |-> [c \in Chars |-> 0]]
    /\ bounced = {} /\ leaked = {} /\ disturbed = {}
    /\ moves = [c \in Chars |-> 0]

-----------------------------------------------------------------------------
(* Helpers.                                                                *)

Send(q, p) == toWorld' = [toWorld EXCEPT ![q] = Append(@, p)]

(* A map process is single threaded: while it is between two statements of *)
(* SendToZone it runs nothing else.                                        *)
Free(m) == \A c \in Chars : ~(stage[c] = "publishing" /\ at[c] = m)

(* zoneutils::GetChar finds c on m and its status is not DISAPPEAR.        *)
Present(m, c) == stage[c] = "in" /\ at[c] = m

Answer(l, cs) ==
    answers' = [answers EXCEPT ![l] = [c \in Chars |-> IF c \in cs THEN @[c] + 1 ELSE @[c]]]

(* World tells the sender of t "TellNotReceivedOffline".                   *)
Bounce(t) ==
    /\ Answer(t, {Recipient[t]})
    /\ bounced' = bounced \cup {t}

-----------------------------------------------------------------------------
(* Sending (map/packets/c2s/0x0b5_chat_std.cpp, 0x0b6_chat_name.cpp).      *)

SendTell(t) ==
    /\ t \notin sent /\ stage[Sender[t]] = "in" /\ Sender[t] \notin Jailed
    /\ Free(at[Sender[t]])
    /\ sent' = sent \cup {t}
    /\ Send(at[Sender[t]], Tell(t))
    /\ UNCHANGED <<dbVars, mapVars, worldVars, toMap, answers, bounced, leaked, disturbed, moves>>

SendParty(g) ==
    /\ g \notin sent /\ stage[Sender[g]] = "in" /\ Sender[g] \in party
    /\ Sender[g] \notin Jailed
    /\ Free(at[Sender[g]])
    /\ sent' = sent \cup {g}
    /\ Send(at[Sender[g]], Party(g))
    /\ UNCHANGED <<dbVars, mapVars, worldVars, toMap, answers, bounced, leaked, disturbed, moves>>

-----------------------------------------------------------------------------
(* The world process (world/ipc_server.cpp, world/zoning_chat_buffer.cpp). *)

IsZoning(c) == zoning[c] \/ c \in trans

RoomOffByOne(c) == Len(buf[c]) <= MaxMessagesPerChar
Room(c) == Len(buf[c]) < MaxMessagesPerChar

(* Peer q's oldest message to world is of type ty; it is consumed.         *)
Receive(q, ty) ==
    /\ toWorld[q] # << >> /\ Head(toWorld[q]).type = ty
    /\ toWorld' = [toWorld EXCEPT ![q] = Tail(@)]

(* ZoningChatBuffer::enqueue: begins the transition when there is none.    *)
Enqueue(c, p) ==
    /\ Room(c)
    /\ trans' = trans \cup {c}
    /\ buf' = [buf EXCEPT ![c] = Append(@, p)]
    /\ UNCHANGED snap

(* ZoningChatBuffer::completeTransition and the erase of expireTransitions.*)
EraseTransition(c) ==
    /\ trans' = trans \ {c}
    /\ snap' = snap \ {c}
    /\ buf' = [buf EXCEPT ![c] = << >>]

WorldTell(q) ==
    /\ Receive(q, "Tell")
    /\ LET t    == Head(toWorld[q]).line
           c    == Recipient[t]
           held == row[c] # NoMap /\ TellBuffering /\ IsZoning(c)
       IN \/ /\ row[c] = NoMap
             /\ Bounce(t)
             /\ UNCHANGED <<worldVars, toMap, disturbed>>
          \/ /\ held
             /\ Enqueue(c, Tell(t))
             /\ UNCHANGED <<toMap, answers, bounced, disturbed>>
          \/ /\ held /\ ~Room(c)
             /\ Bounce(t)
             /\ disturbed' = disturbed \cup {c}
             /\ UNCHANGED <<worldVars, toMap>>
          \/ /\ row[c] # NoMap /\ ~held
             /\ toMap' = [toMap EXCEPT ![row[c]] = Append(@, Tell(t))]
             /\ UNCHANGED <<worldVars, answers, bounced, disturbed>>
    /\ UNCHANGED <<dbVars, mapVars, sent, leaked, moves>>

(* A tell that a map could not deliver: buffered if the recipient is       *)
(* zoning, otherwise reported undelivered - even when the recipient is     *)
(* online again on another map.                                            *)
WorldTellRetry(q) ==
    /\ Receive(q, "TellRetry")
    /\ LET t    == Head(toWorld[q]).line
           c    == Recipient[t]
           held == row[c] # NoMap /\ TellBuffering /\ IsZoning(c)
       IN \/ /\ held
             /\ Enqueue(c, Tell(t))
             /\ UNCHANGED <<answers, bounced, disturbed>>
          \/ /\ ~held \/ ~Room(c)
             /\ Bounce(t)
             /\ disturbed' = IF held THEN disturbed \cup {c} ELSE disturbed
             /\ UNCHANGED worldVars
    /\ UNCHANGED <<dbVars, mapVars, toMap, sent, leaked, moves>>

(* routeTargetedChat: the recipients the database names, and those only    *)
(* the zone-out snapshots name.                                            *)
Routed(g) == {c \in member : row[c] # NoMap} \ {Sender[g]}
SnapshotOnly(g) == snap \ (Routed(g) \cup {Sender[g]})

WorldParty(q) ==
    /\ Receive(q, "Party")
    /\ LET g      == Head(toWorld[q]).line
           held   == {c \in Routed(g) : IsZoning(c)} \cup SnapshotOnly(g)
           active == Routed(g) \ held
           on(m)  == {c \in active : row[c] = m}
       IN /\ trans' = trans \cup held
          /\ buf' = [c \in Chars |->
                        IF c \in held /\ Room(c)
                        THEN Append(buf[c], Targeted(g, {c}, 0)) ELSE buf[c]]
          /\ toMap' = [m \in Maps |->
                        IF on(m) = {} THEN toMap[m]
                        ELSE Append(toMap[m], Targeted(g, on(m), 0))]
          /\ disturbed' = disturbed \cup {c \in held : ~Room(c)}
    /\ UNCHANGED <<dbVars, mapVars, snap, sent, answers, bounced, leaked, moves>>

(* One recipient of a TargetedRetry: each is looked up with a query of its *)
(* own, so the database may change between two of them. Recipients are     *)
(* taken in any order; the message is gone with its last recipient.        *)
WorldTargetedRetry(q) ==
    /\ toWorld[q] # << >> /\ Head(toWorld[q]).type = "TargetedRetry"
    /\ LET p == Head(toWorld[q])
       IN \E c \in p.to :
            /\ toWorld' = [toWorld EXCEPT ![q] =
                  IF p.to = {c} THEN Tail(@)
                  ELSE <<TargetedRetry(p.line, p.to \ {c}, p.retry)>> \o Tail(@)]
            /\ LET held == row[c] # NoMap /\ IsZoning(c)
               IN \/ /\ held
                     /\ Enqueue(c, Targeted(p.line, {c}, p.retry))
                     /\ UNCHANGED <<toMap, disturbed>>
                  \/ /\ held /\ ~Room(c)
                     /\ disturbed' = disturbed \cup {c}
                     /\ UNCHANGED <<worldVars, toMap>>
                  \/ /\ row[c] # NoMap /\ ~held /\ p.retry < MaxTargetedChatRetries
                     /\ toMap' = [toMap EXCEPT ![row[c]] =
                                    Append(@, Targeted(p.line, {c}, p.retry + 1))]
                     /\ UNCHANGED <<worldVars, disturbed>>
                  \/ /\ ~held /\ (row[c] = NoMap \/ p.retry = MaxTargetedChatRetries)
                     /\ UNCHANGED <<worldVars, toMap, disturbed>>
    /\ UNCHANGED <<dbVars, mapVars, sent, answers, bounced, leaked, moves>>

(* A zone change or login: begin the transition with the membership        *)
(* snapshot, keeping what a lazily begun one holds, and tell the           *)
(* destination map.                                                        *)
WorldCharZone(q) ==
    /\ Receive(q, "CharZone")
    /\ LET p == Head(toWorld[q])
       IN /\ trans' = trans \cup {p.char}
          /\ snap' = IF p.inParty THEN snap \cup {p.char} ELSE snap \ {p.char}
          /\ toMap' = [toMap EXCEPT ![p.dest] = Append(@, p)]
    /\ UNCHANGED <<dbVars, mapVars, buf, history>>

(* The destination map has the character: replay what was held, in order.  *)
WorldChatZoneReady(q) ==
    /\ Receive(q, "ChatZoneReady")
    /\ LET c == Head(toWorld[q]).char
       IN /\ toMap' = [toMap EXCEPT ![q] = @ \o buf[c]]
          /\ EraseTransition(c)
    /\ UNCHANGED <<dbVars, mapVars, history>>

NoHeldTells(c) == {}
HeldTells(c) == {t \in Tells : \E i \in 1..Len(buf[c]) : buf[c][i] = Tell(t)}

(* expireZoningChatBuffers: kTransitionTimeout passed without a            *)
(* ChatZoneReady. Senders of held tells are told, held party lines go.     *)
ExpireTransition(c) ==
    /\ c \in trans
    /\ answers' = [l \in Lines |-> [d \in Chars |->
          IF l \in HeldTells(c) /\ d = Recipient[l] THEN answers[l][d] + 1
          ELSE answers[l][d]]]
    /\ bounced' = bounced \cup HeldTells(c)
    /\ disturbed' = disturbed \cup {c}
    /\ EraseTransition(c)
    /\ UNCHANGED <<dbVars, mapVars, toWorld, toMap, sent, leaked, moves>>

-----------------------------------------------------------------------------
(* The map processes: messages from world (map/ipc_client.cpp).            *)

Deliver(m, ty) ==
    /\ Free(m) /\ toMap[m] # << >> /\ Head(toMap[m]).type = ty
    /\ toMap' = [toMap EXCEPT ![m] = Tail(@)]

(* The recipient is not here, or not reachable: ask world for a retry, or  *)
(* with the buffer disabled tell the sender at once.                       *)
Undelivered(m, t) ==
    \/ /\ TellBuffering
       /\ Send(m, TellRetry(t))
       /\ UNCHANGED <<answers, bounced>>
    \/ /\ ~TellBuffering
       /\ Bounce(t)
       /\ UNCHANGED toWorld

(* Delivered (or refused by a recipient who is away or a hidden GM), or    *)
(* undelivered.                                                            *)
MapTell(m) ==
    /\ Deliver(m, "Tell")
    /\ LET t == Head(toMap[m]).line
           c == Recipient[t]
           can == Present(m, c) /\ c \notin Jailed
       IN \/ /\ can
             /\ Answer(t, {c})
             /\ UNCHANGED <<toWorld, bounced>>
          \/ /\ ~can
             /\ Undelivered(m, t)
    /\ UNCHANGED <<dbVars, mapVars, worldVars, sent, leaked, disturbed, moves>>

(* getTargetedChatType: the character is in the party the line is for.     *)
AnyTargetedChatType(c) == TRUE
TargetedChatType(c) == c \in party

(* The recipients of p that map m cannot serve now: not in a zone of m, or *)
(* there but outside the party, while the party is being reloaded or       *)
(* loc.zoning is set; loc.zoning is a free choice here (unsettled).        *)
RetryAll(m, p, unsettled) == p.to
RetryRecipients(m, p, unsettled) ==
    {c \in p.to :
        \/ ~Present(m, c)
        \/ /\ c \notin Jailed \cup {Sender[p.line]} /\ ~TargetedChatType(c)
           /\ c \in reload \cup unsettled}

MapTargeted(m) ==
    /\ Deliver(m, "Targeted")
    /\ LET p       == Head(toMap[m])
           reached == {c \in p.to \ (Jailed \cup {Sender[p.line]}) :
                          Present(m, c) /\ TargetedChatType(c)}
       IN \E unsettled \in SUBSET p.to :
            LET again == RetryRecipients(m, p, unsettled)
            IN /\ Answer(p.line, reached)
               /\ leaked' = leaked \cup {<<p.line, c>> : c \in reached \ (member \cup struck)}
               /\ IF again = {} THEN UNCHANGED toWorld
                  ELSE Send(m, TargetedRetry(p.line, again, p.retry))
    /\ UNCHANGED <<dbVars, mapVars, worldVars, sent, bounced, disturbed, moves>>

(* CharZone: a session is kept alive, or a pending session is created.     *)
MapCharZone(m) ==
    /\ Deliver(m, "CharZone")
    /\ pending' = [pending EXCEPT ![m] = @ \cup ({Head(toMap[m]).char} \ known[m])]
    /\ UNCHANGED <<dbVars, stage, at, dest, known, party, struck, reload, ready, worldVars, toWorld, history>>

-----------------------------------------------------------------------------
(* The map processes: a character's way from zone to zone.                 *)

chatVars == <<worldVars, toMap, sent, answers, bounced, leaked>>

(* The first statement of SendToZone that world can see: the zoning flag.  *)
PublishRouteFirst(c, m) == row' = [row EXCEPT ![c] = m] /\ UNCHANGED zoning
Publish(c, m) == zoning' = [zoning EXCEPT ![c] = TRUE] /\ UNCHANGED row

PublishZoning(c, m) ==
    /\ stage[c] = "in" /\ Free(at[c]) /\ moves[c] < HandoffBudget[c]
    /\ moves' = [moves EXCEPT ![c] = @ + 1]
    /\ Publish(c, m)
    /\ dest' = [dest EXCEPT ![c] = m]
    /\ stage' = [stage EXCEPT ![c] = "publishing"]
    /\ UNCHANGED <<member, at, known, pending, party, struck, reload, ready, toWorld, chatVars, disturbed>>

(* The rest of SendToZone - its UPDATE finds no row when the session row   *)
(* is gone - and removeCharFromZone.                                       *)
ChangeRoute(c) ==
    /\ stage[c] = "publishing"
    /\ row' = [row EXCEPT ![c] = IF @ = NoMap THEN NoMap ELSE dest[c]]
    /\ zoning' = [zoning EXCEPT ![c] = TRUE]
    /\ stage' = [stage EXCEPT ![c] = "left"]
    /\ UNCHANGED <<member, at, dest, known, pending, party, struck, reload, ready, toWorld, chatVars, disturbed, moves>>

(* send_parse sends 0x00B: announce the move and destroy the CCharEntity.  *)
SendZonePacket(c) ==
    /\ stage[c] = "left" /\ Free(at[c])
    /\ Send(at[c], CharZone(c, dest[c], c \in party))
    /\ stage' = [stage EXCEPT ![c] = "moving"]
    /\ party' = party \ {c}
    /\ struck' = struck \ {c}
    /\ reload' = reload \ {c}
    /\ UNCHANGED <<dbVars, at, dest, known, pending, ready, chatVars, disturbed, moves>>

(* The first 0x00A at the destination (recv_parse, LoadChar) needs a       *)
(* session there or a pending one, which becomes a session; a missing row  *)
(* is logged only. LoadChar clears the zoning flag.                        *)
LoadChar(c) ==
    /\ stage[c] = "moving" /\ Free(dest[c])
    /\ c \in known[dest[c]] \cup pending[dest[c]]
    /\ known' = [known EXCEPT ![dest[c]] = @ \cup {c}]
    /\ pending' = [pending EXCEPT ![dest[c]] = @ \ {c}]
    /\ stage' = [stage EXCEPT ![c] = "loaded"]
    /\ at' = [at EXCEPT ![c] = dest[c]]
    /\ zoning' = [zoning EXCEPT ![c] = FALSE]
    /\ ready' = [ready EXCEPT ![c] = "no"]
    /\ UNCHANGED <<row, member, dest, party, struck, reload, toWorld, chatVars, disturbed, moves>>

(* The repeated 0x00A: IncreaseZoneCounter, CharZoneIn, status NORMAL.     *)
ZoneIn(c) ==
    /\ stage[c] = "loaded" /\ Free(at[c])
    /\ stage' = [stage EXCEPT ![c] = "in"]
    /\ reload' = reload \cup {c}
    /\ UNCHANGED <<dbVars, at, dest, known, pending, party, struck, ready, toWorld, chatVars, disturbed, moves>>

(* trySendChatZoneReady, given the reload flags it sees.                   *)
TrySendReady(c, client, reloading, timedOut) ==
    IF client /\ (c \notin reloading \/ timedOut)
    THEN /\ Send(at[c], ChatZoneReady(c))
         /\ ready' = [ready EXCEPT ![c] = "sent"]
    ELSE /\ ready' = [ready EXCEPT ![c] = IF client THEN "client" ELSE @]
         /\ UNCHANGED toWorld

(* 0x011: MarkChatZoneClientReady.                                         *)
ClientReady(c) ==
    /\ stage[c] = "in" /\ Free(at[c]) /\ ready[c] = "no"
    /\ TrySendReady(c, TRUE, reload, FALSE)
    /\ UNCHANGED <<dbVars, stage, at, dest, known, pending, party, struck, reload, chatVars, disturbed, moves>>

(* PostTick with a party reload: the database decides on the membership;   *)
(* CParty::ReloadParty clears the flag of every member on this map.        *)
PostTickReload(c) ==
    /\ stage[c] = "in" /\ Free(at[c]) /\ c \in reload
    /\ party' = IF c \in member THEN party \cup {c} ELSE party \ {c}
    /\ struck' = struck \ {c}
    /\ reload' = reload \ (IF c \in member
                           THEN {d \in party' : Present(at[c], d)} ELSE {c})
    /\ TrySendReady(c, ready[c] = "client", reload', FALSE)
    /\ UNCHANGED <<dbVars, stage, at, dest, known, pending, chatVars, disturbed, moves>>

(* PostTick without a reload, or five seconds after 0x011 with one that    *)
(* does not finish.                                                        *)
PostTickReady(c) ==
    /\ stage[c] = "in" /\ Free(at[c]) /\ ready[c] = "client"
    /\ TrySendReady(c, TRUE, reload, TRUE)
    /\ UNCHANGED <<dbVars, stage, at, dest, known, pending, party, struck, reload, chatVars, disturbed, moves>>

(* PartyReload, AllianceReload or PlayerKick from world, a trust called or *)
(* released.                                                               *)
PartyReload(c) ==
    /\ stage[c] = "in" /\ Free(at[c]) /\ c \notin reload
    /\ reload' = reload \cup {c}
    /\ UNCHANGED <<dbVars, stage, at, dest, known, pending, party, struck, ready, toWorld, chatVars, disturbed, moves>>

(* CParty::RemoveMember on the member's own map.                           *)
LeaveParty(c) ==
    /\ stage[c] = "in" /\ Free(at[c]) /\ c \in party
    /\ member' = member \ {c}
    /\ party' = party \ {c}
    /\ struck' = struck \ {c}
    /\ UNCHANGED <<row, zoning, stage, at, dest, known, pending, reload, ready, toWorld, chatVars, disturbed, moves>>

(* 0x071 from a leader whose map does not hold the victim: the row of      *)
(* accounts_parties goes at once, the victim's PParty only when PlayerKick *)
(* has made its own map reload the party.                                  *)
KickMember(c) ==
    /\ c \in member
    /\ \E d \in party \ {c} : stage[d] = "in" /\ Free(at[d]) /\ ~Present(at[d], c)
    /\ member' = member \ {c}
    /\ struck' = struck \cup ({c} \cap party)
    /\ UNCHANGED <<row, zoning, stage, at, dest, known, pending, party, reload, ready, toWorld, chatVars, disturbed, moves>>

(* SendDisconnect and removeCharFromZone with status SHUTDOWN.             *)
Logout(c) ==
    /\ stage[c] = "in" /\ Free(at[c])
    /\ stage' = [stage EXCEPT ![c] = "closing"]
    /\ zoning' = [zoning EXCEPT ![c] = FALSE]
    /\ member' = member \ ({c} \cap party)
    /\ party' = party \ {c}
    /\ struck' = struck \ {c}
    /\ reload' = reload \ {c}
    /\ disturbed' = disturbed \cup {c}
    /\ UNCHANGED <<row, at, dest, known, pending, ready, toWorld, chatVars, moves>>

(* DELETE FROM accounts_sessions: the trigger session_delete clears the    *)
(* zoning flag, the foreign key of accounts_parties takes the membership.  *)
DeleteRow(c) ==
    /\ row' = [row EXCEPT ![c] = NoMap]
    /\ zoning' = [zoning EXCEPT ![c] = FALSE]
    /\ member' = member \ {c}

(* destroySession of a session that is shutting down.                      *)
DestroySession(c) ==
    /\ stage[c] = "closing" /\ Free(at[c])
    /\ stage' = [stage EXCEPT ![c] = "offline"]
    /\ DeleteRow(c)
    /\ known' = [known EXCEPT ![at[c]] = @ \ {c}]
    /\ UNCHANGED <<at, dest, pending, party, struck, reload, ready, toWorld, chatVars, disturbed, moves>>

(* cleanupSessions, session with a CCharEntity: the client is silent. The  *)
(* row goes unless it names another map.                                   *)
CleanupSession(c) ==
    /\ stage[c] \in {"in", "loaded", "left"} /\ Free(at[c])
    /\ IF row[c] \in {at[c], NoMap}
       THEN /\ DeleteRow(c)
            /\ stage' = [stage EXCEPT ![c] = "offline"]
       ELSE /\ stage' = [stage EXCEPT ![c] = "ghost"]
            /\ zoning' = [zoning EXCEPT ![c] = FALSE]
            /\ member' = member \ ({c} \cap party)
            /\ UNCHANGED row
    /\ party' = party \ {c}
    /\ struck' = struck \ {c}
    /\ reload' = reload \ {c}
    /\ known' = [known EXCEPT ![at[c]] = @ \ {c}]
    /\ disturbed' = disturbed \cup {c}
    /\ UNCHANGED <<at, dest, pending, ready, toWorld, chatVars, moves>>

(* Map m deletes the session row of a character it does not hold. One that *)
(* was on its way to m, or lost, is offline; one that plays on another map *)
(* plays on there without its row and, by the foreign key, without its     *)
(* membership, which its own map is not told.                              *)
DeleteRowUnseen(m, c) ==
    /\ DeleteRow(c)
    /\ stage' = IF stage[c] = "ghost" \/ (stage[c] = "moving" /\ dest[c] = m)
                THEN [stage EXCEPT ![c] = "offline"] ELSE stage
    /\ struck' = struck \cup ({c} \cap party)
    /\ disturbed' = disturbed \cup {c}

(* cleanupSessions, pending session: the row is deleted, whichever map it  *)
(* names.                                                                  *)
CleanupPending(m, c) ==
    /\ c \in pending[m] /\ Free(m)
    /\ DeleteRowUnseen(m, c)
    /\ pending' = [pending EXCEPT ![m] = @ \ {c}]
    /\ UNCHANGED <<at, dest, known, party, reload, ready, toWorld, chatVars, moves>>

(* The session c left behind on m, which holds no CCharEntity.             *)
LeftBehind(m, c) ==
    /\ c \in known[m]
    /\ at[c] = m => stage[c] \notin {"in", "loaded", "publishing", "left", "closing"}

(* cleanupSessions, session without a CCharEntity: the row is deleted      *)
(* unless it names another map.                                            *)
CleanupLeftBehind(m, c) ==
    /\ LeftBehind(m, c) /\ Free(m)
    /\ IF row[c] \in {m, NoMap} THEN DeleteRowUnseen(m, c)
       ELSE UNCHANGED <<dbVars, stage, struck, disturbed>>
    /\ known' = [known EXCEPT ![m] = @ \ {c}]
    /\ UNCHANGED <<at, dest, pending, party, reload, ready, toWorld, chatVars, moves>>

(* KillSession from the map that loaded the character: only the session    *)
(* goes. The message may be late, so c can be anywhere by now.             *)
KillSession(m, c) ==
    /\ LeftBehind(m, c) /\ Free(m)
    /\ known' = [known EXCEPT ![m] = @ \ {c}]
    /\ UNCHANGED <<dbVars, stage, at, dest, pending, party, struck, reload, ready, toWorld, chatVars, disturbed, moves>>

-----------------------------------------------------------------------------
(* The login process (login/data_session.cpp).                             *)

(* The session row is inserted, naming the map of the character's zone.    *)
SelectChar(c, m) ==
    /\ stage[c] = "offline" /\ moves[c] < HandoffBudget[c]
    /\ moves' = [moves EXCEPT ![c] = @ + 1]
    /\ row' = [row EXCEPT ![c] = m]
    /\ dest' = [dest EXCEPT ![c] = m]
    /\ stage' = [stage EXCEPT ![c] = "selected"]
    /\ UNCHANGED <<zoning, member, at, known, pending, party, struck, reload, ready, toWorld, chatVars, disturbed>>

(* zoning = 2, and the CharZone message without a membership.              *)
AnnounceLogin(c) ==
    /\ stage[c] = "selected"
    /\ zoning' = [zoning EXCEPT ![c] = TRUE]
    /\ Send(Login, CharZone(c, dest[c], FALSE))
    /\ stage' = [stage EXCEPT ![c] = "moving"]
    /\ UNCHANGED <<row, member, at, dest, known, pending, party, struck, reload, ready, chatVars, disturbed, moves>>

-----------------------------------------------------------------------------

WorldNext(q) ==
    \/ WorldTell(q) \/ WorldTellRetry(q) \/ WorldParty(q)
    \/ WorldTargetedRetry(q) \/ WorldCharZone(q) \/ WorldChatZoneReady(q)

MapNext(m) == MapTell(m) \/ MapTargeted(m) \/ MapCharZone(m)

CharNext(c) ==
    \/ \E m \in Maps :
          \/ PublishZoning(c, m) \/ SelectChar(c, m)
          \/ CleanupPending(m, c) \/ CleanupLeftBehind(m, c) \/ KillSession(m, c)
    \/ ChangeRoute(c) \/ SendZonePacket(c) \/ LoadChar(c) \/ ZoneIn(c)
    \/ ClientReady(c) \/ PostTickReload(c) \/ PostTickReady(c)
    \/ PartyReload(c) \/ LeaveParty(c) \/ KickMember(c)
    \/ Logout(c) \/ DestroySession(c) \/ CleanupSession(c)
    \/ AnnounceLogin(c)

Next ==
    \/ \E t \in Tells : SendTell(t)
    \/ \E g \in Groups : SendParty(g)
    \/ \E q \in Peers : WorldNext(q)
    \/ \E m \in Maps : MapNext(m)
    \/ \E c \in Chars : CharNext(c) \/ ExpireTransition(c)

Spec == Init /\ [][Next]_vars

(* The processes keep running: each link is drained, a map finishes        *)
(* SendToZone, and handleIncomingMessages ends with the expiry check.      *)
Fairness ==
    /\ \A q \in Peers : WF_vars(WorldNext(q))
    /\ \A m \in Maps : WF_vars(MapNext(m))
    /\ \A c \in Chars : WF_vars(ChangeRoute(c)) /\ WF_vars(ExpireTransition(c))

FairSpec == Spec /\ Fairness

-----------------------------------------------------------------------------
(* Properties.                                                             *)

DbTypeOK ==
    /\ row \in [Chars -> Maps \cup {NoMap}]
    /\ zoning \in [Chars -> BOOLEAN]
    /\ member \subseteq Chars

MapTypeOK ==
    /\ stage \in [Chars -> Stages]
    /\ at \in [Chars -> Maps]
    /\ dest \in [Chars -> Maps]
    /\ known \in [Maps -> SUBSET Chars]
    /\ pending \in [Maps -> SUBSET Chars]
    /\ party \subseteq Chars
    /\ struck \subseteq Chars
    /\ reload \subseteq Chars
    /\ ready \in [Chars -> {"no", "client", "sent"}]

Held == TellMsg \cup TargetedMsg

WorldTypeOK ==
    /\ trans \subseteq Chars
    /\ snap \subseteq trans
    /\ buf \in [Chars -> Seq(Held)]
    /\ \A c \in Chars : Len(buf[c]) <= MaxMessagesPerChar

ToMapTypeOK == toMap \in [Maps -> Seq(Message)]

ToWorldTypeOK ==
    /\ toWorld \in [Peers -> Seq(Message)]
    /\ \A q \in Peers : \A i \in 1..Len(toWorld[q]) :
          toWorld[q][i].type = "ChatZoneReady" => q \in Maps

HistoryTypeOK ==
    /\ sent \subseteq Lines
    /\ answers \in [Lines -> [Chars -> Nat]]
    /\ bounced \subseteq Tells
    /\ leaked \subseteq Lines \X Chars
    /\ disturbed \subseteq Chars
    /\ moves \in [Chars -> Nat]

(* The values each variable ranges over; a buffer never outgrows           *)
(* kMaxMessagesPerChar, snapshots exist only inside transitions_, and      *)
(* ChatZoneReady comes from maps only.                                     *)
TypeOK == /\ DbTypeOK /\ MapTypeOK /\ WorldTypeOK /\ ToMapTypeOK
          /\ ToWorldTypeOK /\ HistoryTypeOK

(* However zone changes, retries, replays and timeouts interleave, a       *)
(* recipient sees a line at most once, and a sender is never told that a   *)
(* tell was not received when it was, nor told so twice.                   *)
OneAnswer == \A l \in Lines, c \in Chars : answers[l][c] <= 1

(* p carries the copy of line l that is meant for c.                       *)
Carries(p, l, c) ==
    \/ p.type \in {"Tell", "TellRetry"} /\ p.line = l /\ c = Recipient[l]
    \/ p.type = "Party" /\ p.line = l
    \/ p.type \in {"Targeted", "TargetedRetry"} /\ p.line = l /\ c \in p.to

(* A queue holds the copy; it holds it once at most.                       *)
Holds(queue, l, c) == \E i \in 1..Len(queue) : Carries(queue[i], l, c)
Once(queue, l, c) ==
    \A i, j \in 1..Len(queue) :
        Carries(queue[i], l, c) /\ Carries(queue[j], l, c) => i = j

Unanswered(l, c) == l \in sent /\ answers[l][c] = 0

InWorldLink(l, c) == \E q \in Peers : Holds(toWorld[q], l, c)
InMapLink(l, c)   == \E m \in Maps : Holds(toMap[m], l, c)
InBuffer(l, c)    == \E d \in Chars : Holds(buf[d], l, c)

SingleCopyOf(l, c) ==
    /\ l \notin sent => answers[l][c] = 0
    /\ InWorldLink(l, c) \/ InMapLink(l, c) \/ InBuffer(l, c) => Unanswered(l, c)
    /\ ~(InWorldLink(l, c) /\ InMapLink(l, c))
    /\ ~(InWorldLink(l, c) /\ InBuffer(l, c))
    /\ ~(InMapLink(l, c) /\ InBuffer(l, c))
    /\ \A q, r \in Peers :
          Holds(toWorld[q], l, c) /\ Holds(toWorld[r], l, c) => q = r
    /\ \A m, n \in Maps :
          Holds(toMap[m], l, c) /\ Holds(toMap[n], l, c) => m = n
    /\ \A d \in Chars : Holds(buf[d], l, c) => d = c
    /\ \A q \in Peers : Once(toWorld[q], l, c)
    /\ \A m \in Maps : Once(toMap[m], l, c)
    /\ \A d \in Chars : Once(buf[d], l, c)

(* What makes OneAnswer hold: a copy of a line is in one place only - a    *)
(* link to world, a link to a map or a buffer - and in none before it is   *)
(* sent or once it is answered. Retries move a copy, they never fork it.   *)
SingleCopy == \A l \in Lines, c \in Chars : SingleCopyOf(l, c)

(* SendToZone publishes zoning = 1 before it changes the route, and        *)
(* LoadChar clears it only under the cover of the transition: while no map *)
(* can deliver to a character world holds its chat, unless the transition  *)
(* lapsed or CharZone is still on its way.                                 *)
Announced(c) == \E q \in Peers : \E i \in 1..Len(toWorld[q]) :
    toWorld[q][i].type = "CharZone" /\ toWorld[q][i].char = c
HandoffCovered ==
    \A c \in Chars \ disturbed :
        (stage[c] \in {"left", "moving", "loaded"} \/ row[c] \notin {at[c], NoMap})
            => IsZoning(c) \/ Announced(c)

(* Party lines held under a zone-out snapshot or retried across a zone     *)
(* change never reach a character that has left the party meanwhile, by    *)
(* its own map's doing or, before it was last loaded, by a kick from       *)
(* another map or with its session row. (PParty outlives a kick until      *)
(* PlayerKick is handled, and a deleted session row, which no message      *)
(* announces, until the next reload; lines in that window do reach the     *)
(* character: struck.)                                                     *)
PartyLinesStayInParty == leaked = {}

-----------------------------------------------------------------------------
(* The promise of the chat service, read off the history of this model.    *)

Delivery == INSTANCE ChatDelivery WITH failed <- bounced

(* Maps, links, buffers, retries and zone changes together implement       *)
(* ChatDelivery: every step of theirs settles copies that were open, once, *)
(* or changes nothing a player sees.                                       *)
ImplementsDelivery == Delivery!Spec

(* ... and, with the fairness of FairSpec, settle every tell: none is lost *)
(* between a buffer, a retry and a replay.                                 *)
DeliversFairly == Delivery!FairSpec

=============================================================================
