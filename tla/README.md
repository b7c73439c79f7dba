# TLA+ verification of the SanctumXI server

SanctumXI is a server emulator: a login process (`xi_connect`), one or more map
processes (`xi_map`), a world process (`xi_world`) and a search process
(`xi_search`). They share a MariaDB database and exchange IPC messages (ZeroMQ)
that the world process routes. This directory holds TLA+ modules translated from
that source, TLC configurations that check them on small instances, and proofs
checked by TLAPS.

What is verified is the source of this repository as it stands. Nothing here
was compared with captures of the retail game, and nothing says that the
behaviour is the retail one. Paths below are relative to `src/src/`.

## Inventory

| Part | State it keeps | Operations | Partners |
|---|---|---|---|
| World IPC router (`world/ipc_server.cpp`) | none of its own but the chat buffer; routes come from the database | one handler per IPC message type; expiry after each batch | every map, login, database |
| Zoning chat buffer (`world/zoning_chat_buffer.*`) | per character: expiry, membership snapshot, held lines (at most 250) | begin, enqueue, complete, expire | the router |
| Map IPC client (`map/ipc_client.cpp`) | the characters of this map | deliver, ask for a retry, create pending sessions, kill sessions | world |
| Zone change (`map/utils/charutils.cpp`, `map/map_networking.cpp`, `map/zone.cpp`) | session, character entity, `accounts_sessions` row, `char_stats.zoning` | SendToZone, removeCharFromZone, 0x00B, 0x00A, 0x011, PostTick | world, the other map, login |
| Map sessions (`map/map_session_container.cpp`) | sessions by address, pending sessions by character | create, destroy, clean up on timeout | login, world |
| Login (`login/*.cpp`) | session hashes, accounts, the session row | authenticate, select character | database, world |
| Parties and alliances (`map/party.cpp`, `map/alliance.cpp`) | per map: members, leader; shared: `accounts_parties` | add, remove, kick, reload, disband | other maps via world |
| Treasure pool (`map/treasure_pool.cpp`) | ten slots, lots, members, item count, last sweep | add, lot, pass, sweep, award, evict, flush, join, leave | party, inventory, zone tick |
| Delivery box (`map/utils/dboxutils.cpp`) | the table `delivery_box`; per character a copy of the open box's cells | add, confirm, cancel, receive, return, take, drop | other maps through the table, auction house, scripts |
| Auction house (`map/utils/auctionutils.cpp`, triggers) | the table `auction_house`; per character a history it may cancel from | list, buy, cancel, pay the seller | search, delivery box |
| Search (`search/*.cpp`) | connections; a list of listings to expire per thread | read-only queries; expiry of listings | database |

`PROJECT.json` lists the remaining parts (battle and AI, Lua content, instances,
conquest, packet transport, ...) with the reason why they are left out.

### What is hard in it

- **Hand-off of a character between map processes.** Login, two maps and world
  each hold a part of "where the character is": the session row, the zoning
  flag, a session or pending session per map, and world's transition. They are
  updated by separate statements and messages, in an order that other processes
  can observe half way. A correct hand-off leaves no moment in which chat is
  routed to a map that cannot deliver it and world does not know.
- **Chat across a hand-off.** A line may be delivered, bounced back for a retry,
  held, replayed or reported undelivered. Each recipient must get at most one
  outcome and a sender of a tell must get one in the end. Held party lines carry
  a snapshot of a membership that may have ended.
- **Party membership.** Each map has its own `CParty`; the truth is in
  `accounts_parties`, reread when a reload flag is set. Kicks, disbands and
  leader changes cross with zone changes.
- **Parcels and listings.** Two tables that all maps and the search server
  change, partly by slot or id numbers read earlier, while each map shows its
  players a copy. Items must be neither lost nor doubled.
- **Treasure pool.** One thread, but many small calls that share slots: items
  expire, are evicted, won or lost between a member's look and its answer;
  members join and leave with lots on the table.
- **Timeouts.** Two minutes for a transition, five seconds for a party reload,
  five minutes for an item, session timeouts. Each races the event that it
  stands in for.

The section `hazards` of `PROJECT.json` puts these at their lines with the
properties that cover them.

## Modules

| Module | Content |
|---|---|
| `ChatDelivery` | abstract: what the chat service promises |
| `ZoningChat` | chat and hand-off: world, maps, login, database and links; implements `ChatDelivery` |
| `CharacterPlace` | abstract: where a character is, in one zone or none |
| `SessionHandoff` | sessions of one character on the maps, its row, its clients, login; implements `CharacterPlace` |
| `PartySync` | `CParty` objects of every map against `accounts_parties` |
| `TreasurePool` | one pool, its members' inventories, time |
| `DeliveryBox` | the table `delivery_box`, the cells shown, the inventories |
| `AuctionHouse` | the table `auction_house`, players, the search server's expiry |
| `Counting` | sums over a finite set, as a cardinality |
| `ZoningChatProofs` | `TypeCorrect`, `PartyLinesKept`, `HandoffIsCovered` |
| `ChatCopyProofs` | `CopiesNeverFork`, `AnsweredAtMostOnce`, `ImplementsChatDelivery` |
| `SessionHandoffProofs` | `SingleSession`, `NeverInTwoZones`, `HandoffTypeCorrect`, `RowNamesTheHolder`, `ImplementsCharacterPlace` |
| `PartySyncProofs` | `PartyTypeCorrect`, `LeadersAreMembers`, `JoinsAreAnnounced` |
| `TreasurePoolProofs` | `PoolTypeCorrect`, `LotsLeaveWithMembers`, `NoDropGivenTwice`, `AsManyMeansEveryone`, `CountIsExact`, `LotsStayWithTheirDrop`, `DropsAreSettledByTheRules` |
| `DeliveryBoxProofs` | `BoxTypeCorrect`, `CellsShowTheTable`, `CancelFindsTheParcel`, `KindsAreConserved` |
| `AuctionHouseProofs` | `AuctionTypeCorrect`, `EverySaleIsPaid`, `GoodsAreConserved` |
| `CountingProofs` | the laws of `Counting` |

`MCZoningChat`, `MCSessionHandoff`, `MCPartySync`, `MCTreasurePool`,
`MCDeliveryBox` and `MCAuctionHouse` give the constants their values for TLC.
The definitions that `PROJECT.json` names under `mutants` are broken variants of
the definition that follows them; no specification uses them. They show that a property depends on what the
definition says: with the variant in its place TLC finds the property violated.

### ZoningChat

State by owner:

- database: `row` (`accounts_sessions` route), `zoning` (`char_stats.zoning`),
  `member` (`accounts_parties`);
- maps: `stage`, `at`, `dest` (where the character is between two zones),
  `known` (sessions), `pending` (pending sessions), `party` (`PChar->PParty`),
  `reload`, `ready`; `struck` marks the members that another map took out of
  `accounts_parties`, by a kick or with their session row, and whose own map has
  not reloaded since;
- world: `trans`, `snap`, `buf`, which together are `transitions_`;
- links: `toWorld`, `toMap`, one FIFO queue per peer and direction.

The remaining variables are history: what was sent, answered, reported
undelivered (`bounced`), shown to a non-member (`leaked`), and the characters
whose hand-off was cut short (`disturbed`).

Actions follow the handlers. Each message handler of world and of the maps is
one action on the head of one link. Two handlers are split because other
processes can see the middle: `SendToZone` writes the flag (`PublishZoning`) and
then the route (`ChangeRoute`), during which its map runs nothing else (`Free`);
and `handleMessage_TargetedChatRetry` queries the database once per recipient
(`WorldTargetedRetry`). Login likewise inserts the row (`SelectChar`) before it
sets the flag and announces the character (`AnnounceLogin`).

Three handlers delete the session row, and with it by cascade the party row, of a
character that a map does not hold or no longer holds: `CleanupSession`,
`CleanupPending`, which asks nothing, so that the character may be playing on
another map, and `CleanupLeftBehind`, for a session whose character went on.
`KillSession` only takes such a session away.

Abstractions: a line is a model value with a sender and, for tells, a recipient.
There is one party. Whether `loc.zoning` is set when a map receives a party line
is a free choice. `PartyReload` may come at any time instead of from a message.
The notice "not received" that world sends the sender of a tell is counted when
it is sent; that it may itself miss a sender who is changing zone is not
modelled. Timeouts may fire whenever their subject exists, which allows more
than the clocks do.

### ChatDelivery

A line is sent once; each recipient sees it at most once; a tell is seen or
reported back, never both, and one of the two happens in the end. The state is
`sent`, `answers` and `failed`. `ZoningChat` ends with the refinement mapping:
`failed` is `bounced`, the rest has the same name. `ImplementsDelivery` is the
safety part (checked and proved), `DeliversFairly` adds that tells settle
(checked).

### SessionHandoff

One character, its row in `accounts_sessions` (`row`, `port`, `stale`), its
position in `chars`, and for each map its sessions by client address (`sess`)
and its pending session (`pend`). Login reads the zone (`LoginBegin`), asks for
a stale row (`LoginCheck`) and deletes it, if it was stale when asked for
(`LoginDelete`), inserts the row (`LoginInsert`) and announces the character if
the view connection is still there (`LoginAnnounce`); maps and other messages may
come between any two of these. `FirstLogin` and `EnterZone` are the client's first and second
`0x00A`; `SendToZone`, `SendZonePacket` and `ResendZonePacket` the way out, with
a client that may miss the packet; `CleanupSession` and `CleanupPending` the
timeouts; `CrashMap` loses everything a map holds in memory and `StartMap`
deletes the rows that name it.

`ZoningChat` has the same hand-off with the emphasis on chat; there a session is
one bit per map. Here chat is left out and sessions have their states. `late`
and `cut` are history: whether a player, a fault or a timeout has overtaken a
message, and whether a session ended with its zone-out packet still queued.
`Neighbour` says that another character plays from the same address, which
`createSession` accepts in place of the character's own row.

### CharacterPlace

`entities` is the set of the places a character has a `CCharEntity` in, each
with its zone; `record` is the zone the database has. It enters the zone of
`record`, on the map that runs it, only while it is nowhere; it leaves for
another zone, which becomes `record` in the same step; or it vanishes. The
mapping in `SessionHandoff` takes `entities` from the sessions whose character is
in a zone and `record` from `pos_zone`. What makes it more than `OneEntity`: a
character is loaded at the first `0x00A` and enters at a later one, with the
zone it was loaded with, while logins, kills and zone changes of its other
sessions go on.

### PartySync

`row` is `accounts_parties`, `addr` the session's server, `at` and `zoned` where
the `CCharEntity` is. A `CParty` object has a number (`Objs`), its id `pid`, the
character `ldr` that `m_PLeader` points to, and its members by `party`. `reload`
is `m_reloadParty`, `invite` the invitation a character has. Handlers are
one step except `RemovePartyLeader`, which chooses the successor with one
statement and installs it with others: `task` is the map between the two.
`Gone` is a `m_PLeader` whose character was destroyed. A client that falls
silent loses its character in a zone (`Logoff`, timed) or between two
(`TimeOut`), where the session row may name another map by then; a pending
session that expires takes the rows of its character wherever that is (`Lose`).

Left out: alliances, trusts, level sync, quartermaster, parties of mobs, crashes
of maps. Who succeeds a leader is any member the query may return. `Prompt`
says that links are empty, reloads done and no `RemovePartyLeader` half way
before a player acts. The code does not see to that; `OneLeader` and `MapsAgree`
are claimed under it, on the instance of `ps_prompt`, because they are false
without (finding 8), and they are not proved. What is claimed in any order of
events, checked and proved, is `LeaderIsMember` and `JoinIsAnnounced`. The latter
leaves out parties that are not headed (`Headed`), those that lost the row of the
character they are named after: a leader without its leader flag may select
itself in `RemovePartyLeader`, which then disbands the party under its new name
and tells a character that is just joining nothing.

### TreasurePool

`members`, `item`, `age`, `lotters`, `count` and `idle` are the fields of
`CTreasurePool`; `free` and `held` are what it asks of inventories. Calls that
visit several slots put their steps in `task`; nothing else starts before the
list is empty, as in the single-threaded map. `checkTreasureItem` is one step,
with its nested award and the clearing of the slot.

Abstractions: times are ages, capped one past the limit the code compares with.
`TimeStamp`s are ordered by the number of the drop (`drop`). `Lotters` is a set:
its order decides only between equal lots, and the model lets either win. The
random recipient of an unlotted item is a free choice. `AddItem` may fail. Pool
types matter only for when members join, which is left free.

### DeliveryBox

`rows` is the table. Box 1 is incoming, with cells and, above them, the queue;
box 2 is outgoing and keeps a record of what was sent. `open` and `view` are the
character's `UContainer`. Handlers are one step: what they write is in a
transaction, or touches only rows that nobody else writes. `SendNewItems` is
two: it reads the head of the queue without a lock (`SendNewItems`) and then
moves whatever is in the slot it read (`Received`). `CancelFails` is the
rolled-back cancellation, for whichever reason, with its deletion of the orphan:
also of a parcel that was never sent.

A request names a box and a cell. Its validation lets both boxes and the cells 0
to 8 through (`Cell`, one more than a box has), and no handler compares the box
with the window that is open: `SendOldItems` loads the rows of the box named into
the window, `TakeItemFromCell` deletes a row of the box named and gives away what
the window shows, and `Received` may move a parcel to the first slot of the queue.
All of this is in the model.

`Kind` is itemid and quantity, by which rows are matched; two items of one kind
may differ in extra data. Assumed: items can be delivered, are not reserved by a
trade, and recipients are not deleted.

Three history variables, which no guard reads, say where the code breaks the
promises by itself, so that the properties can claim the rest. `strayed`: who
named another box than the open one, or had a parcel moved to the cell that no
box has. `raced`: whose `SendNewItems` read a row that was gone when the table was
written. `orphaned`: what a cancel deleted unsent. `ShownIsHeld` holds for a player
until that player strays or is overtaken, whatever others do; `SentIsQueued`
likewise for a sender and a recipient; `KindConserved` until anybody does, with
`orphaned` counted.

### AuctionHouse

`ah` is the table; `history` is `m_ah_history`; `expiring` and `mailed` are what
a thread of the search server has read and how far it is with one listing. A
map's handler is one step: one statement decides and the rest touches its own
player. The expiry is three: it reads all old listings, and for each inserts the
parcel and then deletes the listing by id. `CrashSearch` ends it anywhere.
A purchase may fail after the listing was sold and the seller paid, since that
update and `AddItem` are in no transaction: the buyer gets nothing and keeps the
gil. `unserved` and `unpaid` count what such purchases cost. `raced` is history:
somebody bought, cancelled or read the old listings while a thread was at work. What a good is made of, and categories, stacks and the
packets are left out; the delivery box is a counter of what entered it, its
way from there is `DeliveryBox`.

## Runs

| Run | Instance | Question |
|---|---|---|
| `zc_party` | 2 maps, 2 characters, 1 tell, 1 party line, buffer of 1, 1 retry, 2 logins or zone changes (the tell with the first) | at most one outcome, one copy; no uncovered hand-off; no line outside the party, also when sessions of an earlier stay expire late; the steps are steps of `ChatDelivery` |
| `zc_live` | 2 maps, 1 tell, 2 moves, fairness | `ChatDelivery` with its fairness: every tell is settled |
| `tp_safe` | 2 members, 2 slots, 3 drops (plain, rare, exclusive), lots of 1 and 2, warm start | count and lots stay consistent; every drop is settled by the rules, once |
| `tp_live` | 2 members, 1 slot, 2 drops, fairness | every drop is settled |
| `sh_safe` | 2 maps, 2 clients of one player, a neighbour, 2 moves, 2 logins, 1 crash | a character has one session per map and is in one zone at most; the steps are steps of `CharacterPlace` |
| `sh_live` | 1 client, 3 moves, 2 logins, 1 crash, fairness | the row follows the character unless a message was overtaken; a lost character can be selected again unless it was cut |
| `ps_prompt` | 3 characters, 2 maps, 8 actions of players of every kind but kicks, prompt links | at most one leader per party; every map's objects agree with the rows once nothing is under way |
| `ps_join` | the same, 4 actions of every kind, kicks included, slow links, fairness | no object points to a leader that is not in it; who was given a row of a headed party is going to be told, and gets into a party object |
| `ps_kick` | prompt links, 5 invitations and kicks, fairness | **violation**: a kicked member keeps its party object |
| `db_safe` | 2 characters, 1 cell and the one too many, 2 items alike, inventories of one slot, 3 parcels | nothing lost or doubled; cells show their rows; what can be cancelled is queued |
| `db_race` | 2 items that differ, 2 cells, 3 parcels | **violation**: a cell shows a parcel that its row does not hold |
| `ah_safe` | 2 characters, 2 goods (one rare), 2 listings, 2 prices, both threads, 1 crash, 1 failed purchase, fairness | goods and gil are conserved as far as the expiry allows; old listings leave |

Why the bounds suffice for the cases that matter.

- Chat: a buffer of one line makes the limit reachable with the two lines of
  `zc_party`. One retry separates "retry again" from "give up". With one move
  and two maps every stage is reached, the stage after a lost client (`ghost`)
  included, and messages of the old map, the new map and login cross; two moves
  add a transition that begins while messages of the earlier one are still in
  the links, and a pending session of the first that expires when the character
  has moved on. In `zc_party` the second move is for the party line only
  (`TellsWithOneMove`, which keeps it small); the tell with two moves is
  `zc_live`'s.
- Pool: two slots and three drops fill the pool and evict, with each of the three
  eviction classes; an inventory of one slot makes both "full" and "free" occur,
  and two members suffice for the comparison of sizes to be wrong with a member
  that left or answered twice. With lots of 1 and 2 the highest is a tie or not.
- Sessions: two moves let a character come back to a map that still has its old
  session and messages about it; two logins, from two addresses, let the second
  race the clean-up of the first; one crash is enough to lose any one thing.
- Parties: three characters on two maps give an object with two members, a
  member elsewhere, and a leader whose successor can be on either map. Forming
  the party takes two invitations; four, five and eight actions leave two, three
  and six for what goes wrong afterwards, and with slow links (`ps_join`) two
  actions cross already. Expiring sessions are in `ps_prompt` only: `Lose` and
  `TimeOut` may come at any moment and are not counted as actions, which with slow
  links is too much for a liveness run; for the two invariants of `ps_join` the
  proofs cover them. `PartyMax = 3` is reached.
- Boxes: with one cell and two parcels alike one waits in the queue behind the
  other, is returned, and may be taken for the other; the second value of `Cell`
  is the cell that no box has. A bag of one slot is full with either. Three
  parcels let one go, come back and go again, or one go there and back while the
  other is mailed. States in which both players have strayed or were overtaken
  are not extended (`SomeoneIsSound`): only `TypeOK` is claimed after them, which
  is proved.
- Auction: two listings of one good or of two; the second price tells the price
  from the bid; a purse of two can pay a fee and a bid or the higher bid.

Symmetry is used in `tp_safe`, over characters, which no constant tells apart
there; no liveness is checked in it. `CHECK_DEADLOCK FALSE` everywhere: the budgets
run out, and the systems may then rest.

### Fairness

- `ZoningChat`: each process drains its links (`WF` on `WorldNext`, `MapNext`);
  the message loops of world and the maps do nothing else while a message waits.
  A map that has begun `SendToZone` finishes it. A transition without an end
  expires: world's pump runs at a fixed interval (`world_engine.cpp`) and ends
  with the expiry sweep, with or without messages. No
  fairness is assumed of clients: they may never answer, nor of logins.
- `TreasurePool`: a call that has begun ends (`WF RunTask`). Time passes and a
  due sweep runs (`SF Tick`, `SF CheckItems`): both come from the zone's timed
  task. Strong fairness is needed because client packets may disable them for a
  moment again and again; the scheduler runs timed tasks between packets.
  Nothing is assumed of members.
- `SessionHandoff`: links are read; a session whose client does not use it and a
  pending session time out, since `cleanupSessions` is a timed task of the map;
  a crashed map is started again. Nothing is assumed of clients and logins.
- `PartySync`: links are read, zones tick (`PostTick` runs for whoever is due), a
  handler that has begun ends. Nothing is assumed of players.
- `AuctionHouse`: the expiry task runs at intervals and each run comes to its
  end or is cut by a crash; there is a bounded number of crashes. Nothing is
  assumed of players.

## Findings

Two disagreements have runs of their own:

1. `ps_kick`. `CParty::ReloadParty` clears `m_reloadParty` of all members of the
   object (`party.cpp:937`). If a member that stays is ticked before the one that
   was kicked, the kicked one's own reload never comes and it keeps `PParty`
   without a row.
2. `db_race`. `SendNewItems` moves whichever row is in the slot it read. If the
   sender cancels in between and another parcel gets the slot, the cell shows
   the first and the row holds the second (`dboxutils.cpp:399`, whose comment
   says that the affected rows of that query do not matter).

The others were met while modelling; the models contain the behaviour, and the
properties say where it is exempt:

3. `CancelSendingItem` asks only that the cell is not empty. On a parcel that was
   put into a cell and not sent, its update affects no row, the transaction is
   rolled back, and what is then deleted as an "orphaned outbox record"
   (`dboxutils.cpp:303`, `:307`) is the item itself. `KindConserved` counts it
   (`orphaned`).
4. A tell may be given up while its recipient is zoning, although the comment in
   `SendToZone` says that world holds chat then: `LoadChar` at the destination
   clears the flag; if world has the map's `TellRetry` in front of the `CharZone`
   message, it finds neither flag nor transition. The sender is told
   (`OneAnswer`, `DeliversFairly`); `HandoffCovered` exempts the time until
   `CharZone` is handled.
5. Eviction from the treasure pool backdates the item to `timer::start_time`. In
   the first five minutes of a process that is not old enough to be settled: the
   new drop overwrites the item, inherits its lots, and the count is one too
   high. `CountMatches` and `LotsAreCurrent` are checked with `WarmStart`.
6. `passItem` does not ask whether the slot holds an item, and `addItem` does not
   clear `Lotters`: a pass that arrives just after its item was settled excludes
   its member from the next item of that slot. `LotsAreCurrent` is about lots
   above 0 for this reason. And `flush`, which promises to act as if all timers
   expired, looks four seconds ahead.
7. A client lost between `SendToZone` and the answer that carries `0x00B` leaves a
   row with the old port and the new map, which nothing deletes until that map
   restarts (`AccountFreedUnlessCut` exempts it by `cut`). `KillSession` is
   routed by `pos_prevzone` as world finds it: if the character moved on
   meanwhile it kills the session that has yet to send `0x00B`, which is one way
   to be cut.
8. With slow links two maps may join a character to different parties; the
   object it shares with others then takes the other party's id
   (`charutils.cpp:8194`), so `MapsAgree` is claimed with `Prompt` only. And a
   character whose map does not know yet that it was given a row may found a
   party: the `INSERT` is refused, the row keeps the other party's id, and a later
   change of leaders makes it a second leader row; so `OneLeader`, too, is claimed
   with `Prompt` only (about nine actions lead there, beyond `ps_join`). A leader
   whose pending session times out loses its row to `ON DELETE CASCADE` without
   `RemovePartyLeader`: its party stays without a leader.
9. `charutils::AddItem` ignores that `UpdateItem` refuses gil above the stack size,
   so gil taken from a cell at the cap is gone. `db_safe` mails no gil.
10. A listing bought or cancelled after the search server read it as expired is
   mailed to its seller all the same (`GoodsConserved` exempts doubling by
   `raced`), and a crash between parcel and deletion doubles one good.
11. A kicked member that stays in its object (finding 1) may later accept an old
    invitation to another party. Its reload then gives the whole object that
    party's id, and the members that stayed disagree with their rows. It takes
    four characters and eight actions, so it is out of a small run's reach;
    `ps_prompt` therefore has no kicks.
12. A request names its box and nothing compares it with the open window; cell 8,
    which no box has, passes too (`0x04d_pbx.cpp:47`, `:92`, `:127`). One that names
    the other box makes the window show what its rows do not hold, and a later
    `TakeItemFromCell` deletes one item and gives another; a parcel that is received
    into cell 8 is moved to the first slot of the queue. The properties of
    `DeliveryBox` claim nothing of a player's own box after that (`strayed`).
13. A purchase that fails after its update has sold the listing pays the seller
    with gil that nobody paid and destroys the goods (`auctionutils.cpp:263`);
    `GoodsConserved` and `SellersPaid` count it.

Three more things came up while proving, and changed the models: a second login
that passes the check of the row before the first one's character is in a zone
overtakes it (`Overtake` sets `late` for a login half way; `RowFollows` was
false from three logins on); the party row of a character that logs off goes
with its session row also when its map has no object for it (`Logoff`); and the
gil in all purses and parcels must fit one purse for `KindConserved` (finding 9),
which the theorem has as a hypothesis.

## Proofs

TLAPS checks every step. The constants are arbitrary but for the named
assumptions in the modules (`LinesAssumption`, `PeersAssumption`,
`ChatAssumption`, `BoundsAssumption`; `ItemsAssumption`, `SizesAssumption`,
`TimesAssumption`; `HandoffAssumption`, `SessionAssumption`; `PartyAssumption`;
`BoxAssumption`; `AuctionAssumption`), which TLC evaluates in each run. They
say that constants have their types, that the values standing for "none" are no
members of the sets they are added to, that sets whose sizes are compared are
finite, and that there are at least as many party objects as characters (the
code allocates them). Five theorems have hypotheses on top of that; each names a
case in which the code does less than the property says:

| Hypothesis | Theorems | Without it |
|---|---|---|
| `WarmStart` | `CountIsExact`, `LotsStayWithTheirDrop`, `DropsAreSettledByTheRules` | finding 5 |
| `OneClient`, `~Neighbour` | `RowNamesTheHolder` | a session accepted because of another character's row, or taken over from a second address, is not the one the row names |
| the gil there is fits one purse | `KindsAreConserved` | finding 9 |

The inductive invariants were checked with TLC on the instances above, or larger
ones, before they were proved.

**Chat.**

- `TypeCorrect`: `TypeOK` is inductive by itself. Besides types it says that no
  buffer exceeds its limit and that only maps send `ChatZoneReady` (world replays
  to the sender, so this is what makes the replay well defined).
- `PartyLinesKept`: `leaked = {}` is not inductive. `PartyBacked` adds that each
  character whose map thinks it is in the party is in `accounts_parties` or
  was struck by another map, by a kick or because that map deleted its session
  row, which is the invariant the reload, kick, log-out, zone-out and expiry paths
  must keep together.
- `CopiesNeverFork` and from it `AnsweredAtMostOnce`: `SingleCopy` is almost
  inductive; `Good` joins it with `TypeOK` and with what each kind of queue may
  hold. The steps that move a copy (retry, hold, replay, deliver) share lemmas
  about appending to and taking from a queue.
- `ImplementsChatDelivery`: initial states map to initial states, and under the
  invariants above each step of `ZoningChat` is a step of `ChatDelivery` or
  leaves its variables alone. That a copy about to be shown or reported is still
  open is what `SingleCopy` gives: a copy in a link or a buffer was not answered.
- `HandoffIsCovered`: the danger is a `ChatZoneReady` of an earlier stay that
  world reads after the next move was announced over another link: it erases the
  transition. `Covered` says why this is harmless: a `ChatZoneReady` in a link is
  followed, in the same link, by the `CharZone` of the move that ended that stay,
  or it is of the present stay.

**Sessions.**

- `SingleSession` and `NeverInTwoZones`: `OneEntity` is not inductive. `IInv` adds
  that a map has one session of the character at most and no pending session
  beside it (which is why `MapCharZone` and `FirstLogin` ask), and that only the
  map that `pos_zone` names can have the character in a zone: a session elsewhere
  has left, or is loaded for another map.
- `HandoffTypeCorrect`: types, and that a row that is gone leaves no port and no
  zone-out time behind.
- `RowNamesTheHolder`: `Sound` holds whatever overtook what: sessions are only on maps
  that are up, a session that logs out has left, and all clients are off while a
  login is at work. `OnTime` adds, while nothing has been overtaken, that the row,
  the pending sessions, the login, the messages on their way and the holder are
  all at the map of `pos_zone`.
- `ImplementsCharacterPlace`, from `IInv`: its last part places a character that
  was loaded and waits for this map where `pos_zone` is, however long ago it was
  loaded, so `EnterZone` finds it nowhere else and `SendToZone` finds it only
  there. Every other step leaves the entities alone or takes the only one out.

**Parties.**

- `PartyTypeCorrect`, in any order of messages: `Typed` adds that a map inside
  `RemovePartyLeader` still has the leader and its object (`TaskHere`). The methods
  of `CParty` are functions from book to book, each with a lemma that it keeps a
  book `Sound`.
- `LeadersAreMembers` and `JoinsAreAnnounced`, also in any order of messages, are
  proved together (`Told`). Each method of `CParty` has a lemma `Fit...` that says
  of the book it leaves: an object points to no character outside it (`Pointed`),
  and whoever has come to wait for an object of a headed party is named by a
  message it put out (`Tells`). `SetLeader` is the hard one: it renames the party
  under those who wait, so the message that its callers send must name the new
  id. The handlers only have to deliver: `StaysTold` and `MailTold` carry an
  announcement from the link to world, from there to the right map and from
  there into the reload flag. That the right map is the one with the character
  needs `HomeIsHere`: whoever is in a zone has a session row that names this map,
  or none. A reload that clears the flags of all members clears none of somebody
  who waits, since who waits is in no object.

`OneLeader` and `MapsAgree` are not theorems: they hold under `Prompt` only, which
nothing in the code justifies as a hypothesis. `ps_prompt` shows what they say.

**Treasure pool.**

- `PoolTypeCorrect`: in particular an award never takes a slot from a full
  inventory.
- `LotsLeaveWithMembers` and `NoDropGivenTwice`: `Owned` joins the type
  invariant, "each lot belongs to a member" and "no awarded item is in a slot".
  The last needs the second: `treasureWon` returns early, leaving the item in
  place, for a winner outside the pool.
- `AsManyMeansEveryone`: a member has one entry per slot (`OneEntryEach`), so the
  entries map one to one into the members and equal sizes mean all of them.
- `CountIsExact` and `LotsStayWithTheirDrop`: `Tallied` says what the steps still
  in `task` will do to the slots, so that the count can be compared in the
  middle of an eviction or a sweep.
- `DropsAreSettledByTheRules` puts these together: equal sizes mean that all have
  answered, the lots in a slot are on its present drop and of present members, so
  the highest of them decides, and a slot that is put into is empty. It needs in
  addition that an empty slot has no drop (`Numbered`) and that lots have a
  greatest (`HighestExists`).

**Delivery box.** `Boxed` (any interleaving, any request) says that slots are
unique, that incoming slots are ones given out, that an outgoing row is received
only once sent, and that a read under way names a slot of the queue. `Right` adds
that who reads has the incoming box open, and that cells are right, the outgoing
ones of whoever has not strayed and the incoming ones of whoever was not overtaken
either: the steps of other players touch rows of this one only where a parcel
enters its queue or leaves it. Then records of the sender and parcels in the queue
are matched kind by kind for `SentIsQueued`, and every handler moves a unit from
one summand of `Count` to another for `KindConserved`. `TableFinite` lets rows be
counted at all: owner, box and slot tell them apart.

**Auction house.** `Kept` joins `TypeOK` with: ids are ones given out and
a listing has a buyer exactly if it has a sale (`Booked`), the goods in a thread's
parcel are still those of the listing it took them from (`Labelled`, ids are not
reused), and unless somebody raced one thread at most is at work, on listings that
are there and unsold (`Alone`). Over it `SellersPaid` and `GoodsConserved` are sums
in which each action moves a unit.

**Counting.** The last two need sums over sets. A fold cannot be reasoned about
without induction over an operator, so sums are defined as the cardinality of
the set of units (`Tally`); `CountingProofs` derives from the theorems about
`Cardinality` what happens to a sum when one summand changes, an element comes or
goes, or functions are compared.

Only model-checked are the liveness properties (`DeliversFairly`, `DropsSettled`,
`AccountFreedUnlessCut`, `JoinTakesEffect`, `ExpiryEnds`), since liveness is beyond
this prover, and `OneLeader` and `MapsAgree`. Every other safety property that a
passing run checks is a theorem.

## Not modelled

- In the chat model: alliance and linkshell lines (same routing function,
  another query), yells, unity and assist chat, the `CharZone` branch without a
  destination, key changes, joining a party, restart of a map or of world.
  `ENABLE_TELL_ZONING_BUFFER` off is in the model (`TellBuffering`) and in the
  proofs, which hold for both values; the runs have it on.
- In the session model: what the session keys are, several characters of one
  account, the wait for a zone that is loaded lazily, GM and jail moves.
- In the pool model: several pools at once, the merge of pools when a party
  forms, currency items, the packets that show the pool.
- Alliances, trusts, level sync and parties of mobs: see PartySync.
- A map that dies in the middle of a handler of the delivery box or the auction
  house: these are several statements without a transaction in places (listed
  among the hazards), and nothing in the code claims to recover.
- Lossy links: ZeroMQ over local TCP neither loses nor reorders within a link
  while both ends run, which is what the code assumes.
- Combat, AI, Lua content, read-only searches, packet encoding: see
  `PROJECT.json`. They are most of the source by lines: formulas and scripted
  content with no protocol to check, and state too large for this method.

## Plan

Done: all modules above, their runs, and the theorems listed; but for the two
that need `Prompt`, every invariant, action property and safety refinement that a
passing run checks is proved. Next:

1. Proofs: that the session row changes only by the map that has the character,
   a timeout, a restart or a login; an abstract party that `PartySync` implements.
2. Candidates for models: alliances on top of `PartySync`, battlefields and
   instances (status, timers, player lists), conquest caches.
