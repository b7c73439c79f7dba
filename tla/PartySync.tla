----------------------------- MODULE PartySync -----------------------------
(***************************************************************************)
(* One party on several map processes. The rows of accounts_parties are    *)
(* shared; every map keeps CParty objects of its own for the members it    *)
(* has, with a party id and a leader pointer, and brings them up to date   *)
(* when a PartyReload, PartyDisband or PlayerKick comes in through world.  *)
(*                                                                         *)
(* A handler of a map is one step, with one exception: RemovePartyLeader   *)
(* chooses the next leader with one statement and installs it with others, *)
(* and the other maps' statements may come between them.                   *)
(***************************************************************************)
EXTENDS Naturals, Sequences, FiniteSets

CONSTANTS
    Chars,        \* characters; a party's id is the id of a character
    Maps,         \* map processes
    Objs,         \* CParty objects
    Start,        \* [Chars -> Maps]: where everybody is at first
    PartyMax,     \* members of a full party
    NoRow, NoOne, NoMap, NoObj, NoTask,
    Gone,         \* a pointer to a CCharEntity that was destroyed
    Prompt,       \* messages and reloads are done before players go on
    Acts,         \* what the players of this instance do
    MaxActs       \* bound: things players do

ASSUME PartyAssumption ==
    /\ Start \in [Chars -> Maps]
    /\ PartyMax \in Nat \ {0} /\ MaxActs \in Nat /\ Prompt \in BOOLEAN
    /\ IsFiniteSet(Chars) /\ IsFiniteSet(Objs) /\ Cardinality(Objs) >= Cardinality(Chars)
    /\ {NoOne, Gone} \cap Chars = {} /\ NoMap \notin Maps /\ NoObj \notin Objs
    /\ NoRow \notin [party : Chars, leader : BOOLEAN]
    /\ NoTask \notin [char : Chars, next : Chars, then : {"stay", "off", "reload"}]

VARIABLES
    \* the database
    row,        \* accounts_parties, by charid
    addr,       \* accounts_sessions.server_addr/port; NoMap: no row
    \* the map processes
    at,         \* the map that has the CCharEntity
    zoned,      \* the characters that are in a zone (zoneutils::GetChar)
    party,      \* PParty
    pid,        \* m_PartyID
    ldr,        \* m_PLeader
    reload,     \* characters with m_reloadParty
    invite,     \* InvitePending.id
    task,       \* the RemovePartyLeader a map is in
    \* the IPC links
    toWorld, toMap,
    acts

bookVars == <<row, party, pid, ldr>>
vars == <<bookVars, addr, at, zoned, reload, invite, task, toWorld, toMap, acts>>

Row == [party : Chars, leader : BOOLEAN]

(* RemovePartyLeader(char) found next; then: what its caller does after.   *)
Task == [char : Chars, next : Chars, then : {"stay", "off", "reload"}]

PartyReload(p)  == [type |-> "PartyReload", who |-> p, from |-> p]
PartyDisband(p) == [type |-> "PartyDisband", who |-> p, from |-> p]
PlayerKick(c)   == [type |-> "PlayerKick", who |-> c, from |-> c]
PartyInvite(c, a) == [type |-> "PartyInvite", who |-> c, from |-> a]
PartyInviteResponse(a, c) == [type |-> "PartyInviteResponse", who |-> a, from |-> c]

Message ==
    [type : {"PartyReload", "PartyDisband", "PlayerKick", "PartyInvite", "PartyInviteResponse"},
     who : Chars, from : Chars]

Init ==
    /\ row = [c \in Chars |-> NoRow] /\ addr = Start
    /\ at = Start /\ zoned = Chars /\ party = [c \in Chars |-> NoObj]
    /\ pid = [o \in Objs |-> NoOne] /\ ldr = [o \in Objs |-> NoOne]
    /\ reload = {} /\ invite = [c \in Chars |-> NoOne] /\ task = [m \in Maps |-> NoTask]
    /\ toWorld = [m \in Maps |-> << >>] /\ toMap = [m \in Maps |-> << >>]
    /\ acts = 0

-----------------------------------------------------------------------------
(* What CParty's methods do to the rows and the objects, as functions from *)
(* one book to the next. out: the messages sent on the way.                *)

Book == [row |-> row, party |-> party, pid |-> pid, ldr |-> ldr, out |-> << >>]

Members(b, o) == {c \in Chars : b.party[c] = o}
Rows(b, p) == {c \in Chars : b.row[c] # NoRow /\ b.row[c].party = p}
LeaderRows(b, p) == {c \in Rows(b, p) : b.row[c].leader}
Leads(b, c) == b.party[c] # NoObj /\ b.ldr[b.party[c]] = c
Say(b, p) == [b EXCEPT !.out = Append(@, p)]

IsFull(b, o) ==
    Cardinality(Members(b, o)) >= PartyMax \/ Cardinality(Rows(b, b.pid[o])) >= PartyMax

(* An object that no character uses.                                       *)
FreeObj(b) == CHOOSE o \in Objs : Members(b, o) = {}

(* INSERT INTO accounts_parties: charid is the key, and refers to a row of *)
(* accounts_sessions. A refused statement is only logged.                  *)
Insert(b, c, p) ==
    IF b.row[c] = NoRow /\ addr[c] # NoMap
    THEN [b EXCEPT !.row[c] = [party |-> p, leader |-> FALSE]]
    ELSE b

(* The party takes the id of its new leader, in all rows. The last UPDATE  *)
(* names the leader by charid alone.                                       *)
SetLeaderAdds(b, o, n) ==
    IF addr[n] = NoMap THEN b
    ELSE [b EXCEPT !.row = [c \in Chars |->
                               IF c \in Rows(b, b.pid[o])
                               THEN [b.row[c] EXCEPT !.party = n, !.leader = @ \/ c = n]
                               ELSE b.row[c]],
                   !.pid[o] = n,
                   !.ldr[o] = IF n \in Members(b, o) THEN n ELSE NoOne]
SetLeader(b, o, n) ==
    IF addr[n] = NoMap THEN b
    ELSE LET r == [c \in Chars |-> IF c \in Rows(b, b.pid[o])
                                   THEN [party |-> n, leader |-> FALSE]
                                   ELSE b.row[c]]
         IN [b EXCEPT !.row = IF r[n] = NoRow THEN r ELSE [r EXCEPT ![n].leader = TRUE],
                      !.pid[o] = n,
                      !.ldr[o] = IF n \in Members(b, o) THEN n ELSE NoOne]

(* AddMember of a character this map has. Its row may be refused.          *)
AddHere(b, o, c) ==
    IF b.party[c] # NoObj \/ IsFull(b, o) THEN b
    ELSE Say(Insert([b EXCEPT !.party[c] = o], c, b.pid[o]), PartyReload(b.pid[o]))

(* AddMember of a character on another map.                                *)
AddThereSilent(b, o, c) == IF IsFull(b, o) THEN b ELSE Insert(b, c, b.pid[o])
AddThere(b, o, c) ==
    IF IsFull(b, o) THEN b ELSE Say(Insert(b, c, b.pid[o]), PartyReload(b.pid[o]))

(* new CParty(a), unless a has a party.                                    *)
Founded(b, a) ==
    IF b.party[a] # NoObj THEN b
    ELSE LET o == FreeObj(b)
         IN SetLeader(AddHere([b EXCEPT !.pid[o] = a, !.ldr[o] = NoOne], o, a), o, a)

(* RemoveMember of a member m_PLeader does not point to.                   *)
RemoveMemberSilent(b, c) == [b EXCEPT !.row[c] = NoRow, !.party[c] = NoObj]
RemoveMember(b, c) ==
    Say([b EXCEPT !.row[c] = NoRow, !.party[c] = NoObj], PartyReload(b.pid[b.party[c]]))

(* DisbandParty: the rows of the members this map has are deleted.         *)
DisbandParty(b, o) ==
    [b EXCEPT !.row = [c \in Chars |-> IF c \in Members(b, o) THEN NoRow ELSE b.row[c]],
              !.party = [c \in Chars |-> IF c \in Members(b, o) THEN NoObj ELSE b.party[c]]]
DisbandAndTell(b, o) == Say(DisbandParty(b, o), PartyDisband(b.pid[o]))

(* The rows RemovePartyLeader selects from. The oldest is taken;           *)
(* timestamps have whole seconds, so it may be any.                        *)
Successors(b, o) == {n \in Rows(b, b.pid[o]) : ~b.row[n].leader /\ addr[n] # NoMap}

(* RemovePartyLeader once next was selected.                               *)
LeaderRemoved(b, c, next) ==
    LET o == b.party[c]
        n == SetLeader(b, o, next)
    IN IF n.ldr[o] = c THEN DisbandAndTell(n, o) ELSE RemoveMember(n, c)

(* RefreshFlags: the last leader row, in the order of the timestamps,      *)
(* decides.                                                                *)
LeaderViewsAnywhere(b, o) ==
    IF LeaderRows(b, b.pid[o]) = {} THEN {NoOne} ELSE LeaderRows(b, b.pid[o])
LeaderViews(b, o) ==
    IF LeaderRows(b, b.pid[o]) = {} THEN {NoOne}
    ELSE {IF l \in Members(b, o) THEN l ELSE NoOne : l \in LeaderRows(b, b.pid[o])}

(* PopMember leaves m_PLeader as it is.                                    *)
PopMemberKeeps(b, c) == b
PopMember(b, c) ==
    LET o == b.party[c]
    IN IF o = NoObj THEN b
       ELSE [b EXCEPT !.party[c] = NoObj, !.ldr[o] = IF @ = c THEN Gone ELSE @]

(* The next state's book; objects nobody points to are forgotten.          *)
Become(b, m) ==
    /\ row' = b.row /\ party' = b.party
    /\ pid' = [o \in Objs |-> IF Members(b, o) = {} THEN NoOne ELSE b.pid[o]]
    /\ ldr' = [o \in Objs |-> IF Members(b, o) = {} THEN NoOne ELSE b.ldr[o]]
    /\ toWorld' = [toWorld EXCEPT ![m] = @ \o b.out]

-----------------------------------------------------------------------------
(* The players.                                                            *)

Quiet ==
    /\ reload = {} /\ \A m \in Maps : task[m] = NoTask
    /\ \A m \in Maps : toWorld[m] = << >> /\ toMap[m] = << >>
Settled == Prompt => Quiet

(* A packet of a character in a zone, its map not being in the middle of   *)
(* something.                                                              *)
Packet(c, a) ==
    /\ Settled /\ a \in Acts /\ acts < MaxActs
    /\ c \in zoned /\ task[at[c]] = NoTask
    /\ acts' = acts + 1

(* 0x06E.                                                                  *)
Invite(a, c) ==
    /\ Packet(a, "invite") /\ a # c
    /\ party[a] = NoObj \/ (Leads(Book, a) /\ ~IsFull(Book, party[a]))
    /\ \/ /\ c \in zoned /\ at[c] = at[a]
          /\ invite[c] = NoOne /\ party[c] = NoObj
          /\ invite' = [invite EXCEPT ![c] = a]
          /\ UNCHANGED toWorld
       \/ /\ ~(c \in zoned /\ at[c] = at[a])
          /\ toWorld' = [toWorld EXCEPT ![at[a]] = Append(@, PartyInvite(c, a))]
          /\ UNCHANGED invite
    /\ UNCHANGED <<bookVars, addr, at, zoned, reload, task, toMap>>

(* 0x074, the answer yes. With the inviter on this map: it founds a party  *)
(* if it has none, and the character joins if the inviter leads it. (The   *)
(* inviter is taken to be found by the targid it had.) Otherwise the       *)
(* answer goes to the inviter's map.                                       *)
AcceptInvite(c) ==
    /\ Packet(c, "invite") /\ invite[c] # NoOne
    /\ invite' = [invite EXCEPT ![c] = NoOne]
    /\ LET a == invite[c]
           f == Founded(Book, a)
       IN \/ /\ a \in zoned /\ at[a] = at[c]
             /\ Become(IF party[c] # NoObj THEN Book
                       ELSE IF Leads(f, a) THEN AddHere(f, f.party[a], c) ELSE f, at[c])
          \/ /\ ~(a \in zoned /\ at[a] = at[c])
             /\ toWorld' = [toWorld EXCEPT ![at[c]] = Append(@, PartyInviteResponse(a, c))]
             /\ UNCHANGED bookVars
    /\ UNCHANGED <<addr, at, zoned, reload, task, toMap>>

(* The answer no.                                                          *)
DeclineInvite(c) ==
    /\ Packet(c, "invite") /\ invite[c] # NoOne
    /\ invite' = [invite EXCEPT ![c] = NoOne]
    /\ UNCHANGED <<bookVars, addr, at, zoned, reload, task, toWorld, toMap>>

(* RemovePartyLeader: its first statement selects the next leader, if      *)
(* there is one. then: see Task; b: the book so far.                       *)
RemovePartyLeader(b, c, then) ==
    \/ /\ Successors(b, party[c]) = {}
       /\ Become(DisbandAndTell(b, party[c]), at[c])
       /\ UNCHANGED task
    \/ /\ \E n \in Successors(b, party[c]) :
             task' = [task EXCEPT ![at[c]] = [char |-> c, next |-> n, then |-> then]]
       /\ Become(b, at[c])

(* RemoveMember of a character of this map, if it has a party.             *)
Remove(b, c, then) ==
    \/ Leads(b, c) /\ RemovePartyLeader(b, c, then)
    \/ /\ ~Leads(b, c)
       /\ Become(IF party[c] = NoObj THEN b ELSE RemoveMember(b, c), at[c])
       /\ UNCHANGED task

(* 0x06F.                                                                  *)
Leave(c) ==
    /\ Packet(c, "leave") /\ party[c] # NoObj
    /\ Remove(Book, c, "stay")
    /\ UNCHANGED <<addr, at, zoned, reload, invite, toMap>>

(* 0x071: a member of another map loses its row and is told so.            *)
Strike(a, v) ==
    /\ Packet(a, "strike") /\ Leads(Book, a) /\ a # v
    /\ \/ /\ party[v] = party[a]
          /\ Become(RemoveMember(Book, v), at[a])
       \/ /\ party[v] # party[a] /\ v \in Rows(Book, a)
          /\ Become([Book EXCEPT !.row[v] = NoRow,
                                 !.out = <<PartyReload(pid[party[a]]), PlayerKick(v)>>], at[a])
    /\ UNCHANGED <<addr, at, zoned, reload, invite, task, toMap>>

(* 0x070.                                                                  *)
Breakup(a) ==
    /\ Packet(a, "breakup") /\ Leads(Book, a)
    /\ Become(DisbandAndTell(Book, party[a]), at[a])
    /\ UNCHANGED <<addr, at, zoned, reload, invite, task, toMap>>

(* 0x077, AssignPartyRole(SetPartyLeader).                                 *)
PassLead(a, n) ==
    /\ Packet(a, "lead") /\ Leads(Book, a) /\ n \in Rows(Book, pid[party[a]])
    /\ LET b == SetLeader(Book, party[a], n)
       IN Become(Say(b, PartyReload(b.pid[party[a]])), at[a])
    /\ UNCHANGED <<addr, at, zoned, reload, invite, task, toMap>>

-----------------------------------------------------------------------------
(* Zone changes and the end of a session.                                  *)

(* SendToZone, whose UPDATE may find no session row, and removeCharFromZone*)
ZoneOut(c, m) ==
    /\ Packet(c, "zone")
    /\ addr' = [addr EXCEPT ![c] = IF @ = NoMap THEN NoMap ELSE m]
    /\ zoned' = zoned \ {c} /\ invite' = [invite EXCEPT ![c] = NoOne]
    /\ UNCHANGED <<bookVars, at, reload, task, toWorld, toMap>>

(* The CCharEntity is destroyed once its client was sent away; a move into *)
(* the mog house, which stays on the map, is not announced.                *)
Depart(c, mog) ==
    /\ Settled /\ at[c] # NoMap /\ c \notin zoned /\ task[at[c]] = NoTask
    /\ mog => addr[c] = at[c]
    /\ LET b == PopMember(Book, c)
       IN Become(IF party[c] = NoObj \/ mog THEN b ELSE Say(b, PartyReload(pid[party[c]])), at[c])
    /\ at' = [at EXCEPT ![c] = NoMap] /\ reload' = reload \ {c}
    /\ UNCHANGED <<addr, zoned, invite, task, toMap, acts>>

(* IncreaseZoneCounter at the destination asks for a reload.               *)
Arrive(c) ==
    /\ Settled /\ at[c] = NoMap /\ addr[c] # NoMap /\ task[addr[c]] = NoTask
    /\ at' = [at EXCEPT ![c] = addr[c]] /\ zoned' = zoned \cup {c}
    /\ reload' = reload \cup {c}
    /\ UNCHANGED <<bookVars, addr, invite, task, toWorld, toMap, acts>>

(* A pending session expires: the session row goes, and the party row with *)
(* it (ON DELETE CASCADE). The client never arrived or, if CharZone was    *)
(* late, is playing on: a map asks no other.                               *)
Lose(c) ==
    /\ Settled /\ "lose" \in Acts /\ addr[c] # NoMap
    /\ Prompt => at[c] = NoMap
    /\ addr' = [addr EXCEPT ![c] = NoMap] /\ row' = [row EXCEPT ![c] = NoRow]
    /\ UNCHANGED <<party, pid, ldr, at, zoned, reload, invite, task, toWorld, toMap, acts>>

(* The client falls silent between SendToZone and 0x00B: cleanupSessions   *)
(* leaves a session row that names another map, and removes the character  *)
(* from its party.                                                         *)
TimeOut(c) ==
    /\ Settled /\ "lose" \in Acts /\ at[c] # NoMap /\ c \notin zoned /\ task[at[c]] = NoTask
    /\ IF addr[c] = at[c]
       THEN /\ Remove([Book EXCEPT !.row[c] = NoRow], c, "off")
            /\ addr' = [addr EXCEPT ![c] = NoMap]
       ELSE Remove(Book, c, "off") /\ UNCHANGED addr
    /\ at' = IF task' = task THEN [at EXCEPT ![c] = NoMap] ELSE at
    /\ reload' = reload \ {c}
    /\ UNCHANGED <<zoned, invite, toMap, acts>>

(* Logout, or (timed) a silent session: its session row is deleted before  *)
(* the character leaves its party. The party row goes with the session row *)
(* (ON DELETE CASCADE) even if the map has no party object for it.         *)
Logoff(c, timed) ==
    /\ Packet(c, "off")
    /\ Remove(IF timed \/ party[c] = NoObj THEN [Book EXCEPT !.row[c] = NoRow] ELSE Book, c, "off")
    /\ zoned' = zoned \ {c} /\ reload' = reload \ {c}
    /\ invite' = [invite EXCEPT ![c] = NoOne]
    /\ LET done == task' = task
       IN /\ addr' = IF done \/ timed THEN [addr EXCEPT ![c] = NoMap] ELSE addr
          /\ at' = IF done THEN [at EXCEPT ![c] = NoMap] ELSE at
    /\ UNCHANGED toMap

(* The rest of RemovePartyLeader and of its caller.                        *)
FinishRemoval(m) ==
    /\ task[m] # NoTask
    /\ LET k == task[m]
           o == party[k.char]
           b == LeaderRemoved(Book, k.char, k.next)
       IN /\ \/ /\ k.then # "reload" \/ Members(b, o) = {}
                /\ Become(b, m)
                /\ UNCHANGED reload
             \/ /\ k.then = "reload" /\ Members(b, o) # {}
                /\ \E l \in LeaderViews(b, o) : Become([b EXCEPT !.ldr[o] = l], m)
                /\ reload' = reload \ Members(b, o)
          /\ IF k.then = "off"
             THEN /\ addr' = [addr EXCEPT ![k.char] = IF @ = m THEN NoMap ELSE @]
                  /\ at' = [at EXCEPT ![k.char] = NoMap]
             ELSE UNCHANGED <<addr, at>>
    /\ task' = [task EXCEPT ![m] = NoTask]
    /\ UNCHANGED <<zoned, invite, toMap, acts>>

-----------------------------------------------------------------------------
(* World: who is told is what the database says when the message is        *)
(* handled.                                                                *)

WorldHandle(q) ==
    /\ toWorld[q] # << >>
    /\ LET p == Head(toWorld[q])
           to == IF p.type \in {"PartyReload", "PartyDisband"}
                 THEN {addr[c] : c \in Rows(Book, p.who)} ELSE {addr[p.who]}
       IN toMap' = [m \in Maps |-> IF m \in to THEN Append(toMap[m], p) ELSE toMap[m]]
    /\ toWorld' = [toWorld EXCEPT ![q] = Tail(@)]
    /\ UNCHANGED <<bookVars, addr, at, zoned, reload, invite, task, acts>>

-----------------------------------------------------------------------------
(* Messages at a map (ipc_client.cpp).                                     *)

Receive(m, ty) ==
    /\ toMap[m] # << >> /\ Head(toMap[m]).type = ty /\ task[m] = NoTask
    /\ toMap' = [toMap EXCEPT ![m] = Tail(@)]

Here(m) == {c \in zoned : at[c] = m}

MapPartyReload(m) ==
    /\ Receive(m, "PartyReload")
    /\ reload' = reload \cup (Here(m) \cap Rows(Book, Head(toMap[m]).who))
    /\ UNCHANGED <<bookVars, addr, at, zoned, invite, task, toWorld, acts>>

MapPlayerKick(m) ==
    /\ Receive(m, "PlayerKick")
    /\ reload' = reload \cup (Here(m) \cap {Head(toMap[m]).who})
    /\ UNCHANGED <<bookVars, addr, at, zoned, invite, task, toWorld, acts>>

(* The CParty objects of this map with the id p.                           *)
Known(m, p) == {party[c] : c \in {d \in Here(m) : party[d] # NoObj /\ pid[party[d]] = p}}

MapPartyDisband(m) ==
    /\ Receive(m, "PartyDisband")
    /\ LET k == Known(m, Head(toMap[m]).who)
       IN \/ k = {} /\ UNCHANGED <<bookVars, toWorld>>
          \/ \E o \in k : Become(DisbandParty(Book, o), m)
    /\ UNCHANGED <<addr, at, zoned, reload, invite, task, acts>>

MapPartyInvite(m) ==
    /\ Receive(m, "PartyInvite")
    /\ LET c == Head(toMap[m]).who
       IN invite' = IF c \in Here(m) /\ party[c] = NoObj /\ invite[c] = NoOne
                    THEN [invite EXCEPT ![c] = Head(toMap[m]).from] ELSE invite
    /\ UNCHANGED <<bookVars, addr, at, zoned, reload, task, toWorld, acts>>

(* Two leaders would form an alliance.                                     *)
MapPartyInviteResponse(m) ==
    /\ Receive(m, "PartyInviteResponse")
    /\ LET a == Head(toMap[m]).who
           c == Head(toMap[m]).from
           f == Founded(Book, a)
           leads(d) == row[d] # NoRow /\ row[d].leader
       IN Become(IF a \notin Here(m) \/ (leads(a) /\ leads(c)) THEN Book
                 ELSE IF Leads(f, a) /\ f.row[c] = NoRow THEN AddThere(f, f.party[a], c)
                 ELSE f, m)
    /\ UNCHANGED <<addr, at, zoned, reload, invite, task, acts>>

(* PostTick calls charutils::ReloadParty. With a row: the character's      *)
(* object takes the row's party id, or it joins or makes an object of that *)
(* id; all members count as reloaded.                                      *)
Linked(c) ==
    LET p == row[c].party
        k == Known(at[c], p)
        o == IF k # {} THEN CHOOSE x \in k : TRUE ELSE FreeObj(Book)
    IN IF party[c] # NoObj THEN [Book EXCEPT !.pid[party[c]] = p]
       ELSE [Book EXCEPT !.party[c] = o, !.pid[o] = p]

Due(c) == c \in zoned /\ c \in reload /\ task[at[c]] = NoTask

ReloadParty(c) ==
    /\ Due(c) /\ row[c] # NoRow
    /\ LET b == Linked(c)
           o == b.party[c]
       IN /\ \E l \in LeaderViews(b, o) : Become([b EXCEPT !.ldr[o] = l], at[c])
          /\ reload' = reload \ Members(b, o)
    /\ UNCHANGED <<addr, at, zoned, invite, task, toMap, acts>>

(* Without one: DelMember, which reloads the members that stay.            *)
DelMember(c) ==
    /\ Due(c) /\ row[c] = NoRow
    /\ LET o == party[c]
           b == [Book EXCEPT !.party[c] = NoObj]
       IN \/ /\ o = NoObj
             /\ reload' = reload \ {c}
             /\ UNCHANGED <<bookVars, task, toWorld>>
          \/ /\ o # NoObj /\ ldr[o] = c
             /\ RemovePartyLeader(Book, c, "reload")
             /\ reload' = reload \ {c}
          \/ /\ o # NoObj /\ ldr[o] # c
             /\ \E l \in LeaderViews(b, o) : Become([b EXCEPT !.ldr[o] = l], at[c])
             /\ reload' = reload \ (Members(b, o) \cup {c})
             /\ UNCHANGED task
    /\ UNCHANGED <<addr, at, zoned, invite, toMap, acts>>

-----------------------------------------------------------------------------

PlayerNext(c) ==
    \/ AcceptInvite(c) \/ DeclineInvite(c) \/ Leave(c) \/ Breakup(c)
    \/ Arrive(c) \/ Lose(c) \/ TimeOut(c)
    \/ \E d \in Chars : Invite(c, d) \/ Strike(c, d) \/ PassLead(c, d)
    \/ \E m \in Maps : ZoneOut(c, m)
    \/ \E b \in BOOLEAN : Depart(c, b) \/ Logoff(c, b)

MapHandle(m) ==
    \/ MapPartyReload(m) \/ MapPlayerKick(m) \/ MapPartyDisband(m)
    \/ MapPartyInvite(m) \/ MapPartyInviteResponse(m) \/ FinishRemoval(m)

PostTick(c) == ReloadParty(c) \/ DelMember(c)

Next ==
    \/ \E c \in Chars : PlayerNext(c) \/ PostTick(c)
    \/ \E m \in Maps : WorldHandle(m) \/ MapHandle(m)

Spec == Init /\ [][Next]_vars

(* Links are read, zones tick, handlers end; nothing is assumed of the     *)
(* players. Each condition is on the variable the step uses up: only       *)
(* WorldHandle and MapHandle shorten a link, only PostTick and departing   *)
(* clear a reload, only FinishRemoval ends a task.                         *)
TakesFirst(link, m) == link[m] # << >> /\ link' = [link EXCEPT ![m] = Tail(@)]
Reads(m)    == task[m] = NoTask /\ TakesFirst(toMap, m)
Reloads(c)  == Due(c) /\ \E s \in SUBSET (reload \ {c}) : reload' = s
Finishes(m) == task[m] # NoTask /\ task' = [task EXCEPT ![m] = NoTask]

Fairness ==
    /\ \A m \in Maps :
          /\ WF_toWorld(TakesFirst(toWorld, m))
          /\ WF_toMap(Reads(m)) /\ WF_task(Finishes(m))
    /\ \A c \in Chars : WF_reload(Reloads(c))

FairSpec == Spec /\ Fairness

-----------------------------------------------------------------------------
(* Properties.                                                             *)

(* Every variable keeps its type; only a character with a CCharEntity is   *)
(* in a zone, a party object or a reload; members of one object are on one *)
(* map; a character without a session row has no party row.                *)
TypeOK ==
    /\ row \in [Chars -> Row \cup {NoRow}] /\ addr \in [Chars -> Maps \cup {NoMap}]
    /\ at \in [Chars -> Maps \cup {NoMap}] /\ zoned \subseteq {c \in Chars : at[c] # NoMap}
    /\ party \in [Chars -> Objs \cup {NoObj}]
    /\ pid \in [Objs -> Chars \cup {NoOne}] /\ ldr \in [Objs -> Chars \cup {NoOne, Gone}]
    /\ reload \subseteq Chars /\ invite \in [Chars -> Chars \cup {NoOne}]
    /\ task \in [Maps -> Task \cup {NoTask}]
    /\ toWorld \in [Maps -> Seq(Message)] /\ toMap \in [Maps -> Seq(Message)]
    /\ acts \in 0..MaxActs
    /\ \A c \in Chars : party[c] # NoObj => at[c] # NoMap /\ pid[party[c]] # NoOne
    /\ \A c, d \in Chars : party[c] # NoObj /\ party[c] = party[d] => at[c] = at[d]
    /\ \A c \in Chars : addr[c] = NoMap => row[c] = NoRow

(* A party has one leader at most, and is named after it (SetLeader,       *)
(* RemovePartyLeader, the ON DELETE CASCADE).                              *)
OneLeader ==
    \A c \in Chars : row[c] # NoRow /\ row[c].leader =>
        row[c].party = c

(* m_PLeader is a raw pointer: it points to a member of its CParty, or to   *)
(* nobody, or is left over from a leader that PopMember took out when its  *)
(* CCharEntity was destroyed - never to somebody who has left, is in       *)
(* another party or on another map (SetLeader, RefreshFlags, DelMember,    *)
(* RemoveMember, RemovePartyLeader).                                       *)
LeaderIsMember ==
    \A o \in Objs : ldr[o] \in Members(Book, o) \cup {NoOne, Gone}

(* When no message is on its way and no reload is due, every map sees the  *)
(* party rows: a character in a zone is in an object of its row's party,   *)
(* and is the leader the object points to iff the row says so              *)
(* (charutils::ReloadParty, RefreshFlags).                                 *)
MapsAgree ==
    Quiet => \A c \in zoned : row[c] # NoRow =>
        /\ party[c] # NoObj /\ pid[party[c]] = row[c].party
        /\ ldr[party[c]] = c <=> row[c].leader

(* A character in a zone that has a party row but no party object is about *)
(* to get one, whatever is read late and whoever acts on old knowledge:    *)
(* its reload is due, or a PartyReload of its row's party is on its way.   *)
(* SetLeader, which renames the party while messages name the old one,     *)
(* has a new message sent (AddMember, RemoveMember, AssignPartyRole).      *)
(* Parties that are not headed, those that lost the row of the character   *)
(* they are named after, are left out: a leader that lost its flag may     *)
(* select itself in RemovePartyLeader, which then disbands the party under *)
(* its new name and tells a character that was joining it nothing.         *)
Among(p, q) == \E i \in 1..Len(q) : q[i] = p
Joining(c) == row[c] # NoRow /\ c \in zoned /\ party[c] = NoObj
Headed(p) == row[p] # NoRow /\ row[p].party = p
Announced(c) ==
    \/ c \in reload
    \/ \E m \in Maps : Among(PartyReload(row[c].party), toWorld[m])
    \/ Among(PartyReload(row[c].party), toMap[at[c]])
JoinIsAnnounced ==
    \A c \in Chars : Joining(c) /\ Headed(row[c].party) => Announced(c)

(* A character that was given a party row comes to be in a party object    *)
(* unless it loses the row or leaves its zone (AddMember, PartyReload).    *)
JoinTakesEffect == \A c \in Chars : Joining(c) ~> ~Joining(c)

(* A character whose party row was deleted comes to be without a party     *)
(* object (GROUP_STRIKE, PlayerKick, DelMember).                           *)
Kicked(c) == row[c] = NoRow /\ party[c] # NoObj
KickTakesEffect == \A c \in Chars : Kicked(c) ~> ~Kicked(c)
=============================================================================
