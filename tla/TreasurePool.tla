---------------------------- MODULE TreasurePool ----------------------------
(***************************************************************************)
(* The treasure pool of one party in one zone (map/treasure_pool.cpp).     *)
(*                                                                         *)
(* Drops wait in a fixed number of slots. Members lot or pass; an item is  *)
(* awarded when everyone has answered, when it is five minutes old, or at  *)
(* once when the pool has one member. A full pool evicts an item to make   *)
(* room. Members come and go while their lots are in the pool.             *)
(*                                                                         *)
(* A map process runs one call at a time. A call that visits several slots *)
(* is modelled as a list of steps still to run (task); no other call starts*)
(* before the list is empty. Times are ages, capped where the code no      *)
(* longer tells them apart.                                                *)
(***************************************************************************)
EXTENDS Integers, Sequences, FiniteSets

CONSTANTS
    Chars,       \* characters
    Size,        \* TREASUREPOOL_SIZE
    Items,       \* item ids
    Rare, Exclusive, \* the items with these flags
    NoItem,      \* ID == 0
    MaxLot,      \* lots are drawn from 1..MaxLot (1000)
    CheckTime,   \* treasure_checktime
    LiveTime,    \* treasure_livetime
    Second,      \* flush() looks CheckTime + Second ahead
    WarmStart,   \* the process has been up for longer than LiveTime
    MaxFree,     \* bound: free inventory slots of a character
    MaxDrops     \* bound: items dropped into the pool

Slots == 1..Size
Drops == 1..MaxDrops

ASSUME ItemsAssumption ==
    /\ NoItem \notin Items
    /\ Rare \subseteq Items /\ Exclusive \subseteq Items
ASSUME SizesAssumption ==
    /\ Size \in 1..255 /\ MaxLot \in Nat \ {0}
    /\ MaxFree \in Nat /\ MaxDrops \in Nat
    /\ IsFiniteSet(Chars)
ASSUME TimesAssumption ==
    /\ CheckTime \in Nat \ {0} /\ Second \in Nat \ {0} /\ LiveTime \in Nat
    /\ LiveTime > 2 * CheckTime + Second
    /\ WarmStart \in BOOLEAN

VARIABLES
    \* CTreasurePool
    members,   \* m_Members
    item,      \* m_PoolItems[s].ID
    age,       \* now - m_PoolItems[s].TimeStamp, capped at LiveTime + 1
    drop,      \* numbers the drops, so that it orders the slots by TimeStamp; 0: empty
    lotters,   \* m_PoolItems[s].Lotters; as a set: their order only breaks ties
    count,     \* m_count
    idle,      \* now - m_Tick, capped at CheckTime + 1
    \* the members' inventories
    free,      \* GetFreeSlotsCount of LOC_INVENTORY
    held,      \* the rare items a character has (HasItem)
    \* the map process
    uptime,    \* now - timer::start_time, capped at LiveTime + 1
    task,      \* what the running call has still to do
    \* history
    drops,     \* how many items have dropped
    kept       \* slots that hold a drop which is in an inventory already

poolVars == <<members, item, age, drop, lotters, count, idle, drops, kept>>
bagVars  == <<free, held>>
vars     == <<poolVars, bagVars, uptime, task>>

(* A lot, 0 for a pass; "for" notes (as history) the drop it was cast on. *)
LotInfo == [member : Chars, lot : 0..MaxLot, for : Nat]

(* The steps a call is made of: check a slot against a clock reading, put  *)
(* a drop in a slot, note the time of the last sweep.                      *)
Clocks == {"now", "flush", "tick"}
Check(s, clock) == [do |-> "check", slot |-> s, clock |-> clock]
Put(s, i)       == [do |-> "put", slot |-> s, item |-> i]
Done            == [do |-> "done"]

Steps == [do : {"check"}, slot : Slots, clock : Clocks]
         \cup [do : {"put"}, slot : Slots, item : Items] \cup {Done}

Idle == task = << >>
Run(ty) == task # << >> /\ Head(task).do = ty

Cap(n, limit) == IF n > limit THEN limit ELSE n

Init ==
    /\ members = Chars
    /\ item = [s \in Slots |-> NoItem] /\ age = [s \in Slots |-> 0]
    /\ drop = [s \in Slots |-> 0] /\ lotters = [s \in Slots |-> {}] /\ count = 0
    /\ idle = CheckTime + 1
    /\ free = [c \in Chars |-> MaxFree] /\ held = [c \in Chars |-> {}]
    /\ uptime = IF WarmStart THEN LiveTime + 1 ELSE 0
    /\ task = << >>
    /\ drops = 0 /\ kept = {}

-----------------------------------------------------------------------------
(* Lots.                                                                   *)

hasLottedItem(c, s) == \E l \in lotters[s] : l.member = c
hasPassedItem(c, s) == \E l \in lotters[s] : l.member = c /\ l.lot = 0

(* The entries with the highest lot, if anyone has lotted.                 *)
AnyLot(s) == {l \in lotters[s] : l.lot # 0}
Highest(s) == {l \in lotters[s] : l.lot # 0 /\ \A o \in lotters[s] : o.lot <= l.lot}

(* hasFlag(Rare) && HasItem.                                               *)
HasRare(c, i) == i \in Rare /\ i \in held[c]

FullCandidates(s) == {c \in members : ~HasRare(c, item[s]) /\ ~hasPassedItem(c, s)}
Candidates(s) == {c \in members : /\ ~HasRare(c, item[s])
                                  /\ free[c] # 0
                                  /\ ~hasPassedItem(c, s)}

Expired(s, clock) ==
    \/ clock = "now"   /\ age[s] > LiveTime
    \/ clock = "flush" /\ age[s] + CheckTime + Second > LiveTime
    \/ clock = "tick"  /\ age[s] - idle > LiveTime

(* The condition of checkTreasureItem under which the item is settled.     *)
SettlesWhenAnswered(s, clock) ==
    \/ \E c \in Chars : members = {c} /\ free[c] # 0
    \/ Cardinality(lotters[s]) = Cardinality(members)
Settles(s, clock) ==
    \/ Expired(s, clock)
    \/ \E c \in Chars : members = {c} /\ free[c] # 0
    \/ Cardinality(lotters[s]) = Cardinality(members)

(* treasureWon, treasureError and treasureLost end alike: the slot is      *)
(* empty. (The TimeStamp of an empty slot is never read.)                  *)
ClearSlot(s) ==
    /\ item' = [item EXCEPT ![s] = NoItem]
    /\ age' = [age EXCEPT ![s] = 0]
    /\ drop' = [drop EXCEPT ![s] = 0]
    /\ lotters' = [lotters EXCEPT ![s] = {}]
    /\ count' = (count - 1) % 256
    /\ kept' = kept \ {s}

(* charutils::AddItem, which succeeds.                                     *)
Receive(c, s) ==
    /\ ~HasRare(c, item[s])
    /\ free' = [free EXCEPT ![c] = @ - 1]
    /\ held' = [held EXCEPT ![c] = IF item[s] \in Rare THEN @ \cup {item[s]} ELSE @]

(* The winner has the item; treasureWon returns early, and leaves the item *)
(* in its slot, for a winner that is not in the pool.                      *)
Won(c, s) ==
    /\ Receive(c, s)
    /\ IF c \in members THEN ClearSlot(s)
       ELSE /\ kept' = kept \cup {s}
            /\ UNCHANGED <<item, age, drop, lotters, count>>

(* AddItem refused a second copy of a rare item, or the database failed.   *)
Error(c, s) ==
    /\ IF c \in members THEN ClearSlot(s)
       ELSE UNCHANGED <<item, age, drop, lotters, count, kept>>
    /\ UNCHANGED bagVars

Lost(s) ==
    /\ ClearSlot(s)
    /\ UNCHANGED bagVars

Settle(s) ==
    \/ \E l \in Highest(s) :
          \/ free[l.member] # 0 /\ Won(l.member, s)
          \/ free[l.member] # 0 /\ Error(l.member, s)
          \/ free[l.member] = 0 /\ Lost(s)
    \/ /\ Highest(s) = {}
       /\ \/ \E c \in Candidates(s) : Won(c, s) \/ Error(c, s)
          \/ Candidates(s) = {} /\ Lost(s)

(* checkTreasureItem, run by the calls below.                              *)
CheckTreasureItem ==
    /\ Run("check")
    /\ task' = Tail(task)
    /\ LET s == Head(task).slot
           settles == item[s] # NoItem /\ Settles(s, Head(task).clock)
       IN \/ ~settles /\ UNCHANGED <<item, age, drop, lotters, count, bagVars, kept>>
          \/ settles /\ Settle(s)
    /\ UNCHANGED <<members, idle, drops, uptime>>

-----------------------------------------------------------------------------
(* A drop.                                                                 *)

FreeSlots == {s \in Slots : item[s] = NoItem}
Plain == {s \in Slots : item[s] \notin Rare \cup Exclusive}
NonEx == {s \in Slots : item[s] \notin Exclusive}

OldestOf(S, s) == s \in S /\ \A t \in S : drop[s] <= drop[t]

(* The slot a full pool gives up: the oldest plain item, else the oldest   *)
(* that is not exclusive, else the oldest.                                 *)
Evictee(s) ==
    \/ OldestOf(Plain, s)
    \/ Plain = {} /\ OldestOf(NonEx, s)
    \/ NonEx = {} /\ OldestOf(Slots, s)

(* The evicted item gets timer::start_time for its TimeStamp, to look      *)
(* expired.                                                                *)
EvictedAgeNow == 0
EvictedAge == uptime

(* addItem, up to the slot it uses.                                        *)
AddItem(i) ==
    /\ Idle /\ members # {} /\ drops < MaxDrops
    /\ \/ \E s \in FreeSlots :
             /\ \A t \in FreeSlots : s <= t
             /\ task' = <<Put(s, i)>>
             /\ UNCHANGED age
       \/ \E s \in Slots :
             /\ FreeSlots = {} /\ Evictee(s)
             /\ age' = [age EXCEPT ![s] = EvictedAge]
             /\ task' = <<Check(s, "now"), Put(s, i)>>
    /\ UNCHANGED <<members, item, drop, lotters, count, idle, drops, bagVars, uptime, kept>>

(* The rest of addItem: TimeStamp is now - treasure_checktime; the slot's  *)
(* Lotters stay. A lone member is served at once.                          *)
PutItem ==
    /\ Run("put")
    /\ LET s == Head(task).slot
       IN /\ item' = [item EXCEPT ![s] = Head(task).item]
          /\ age' = [age EXCEPT ![s] = CheckTime]
          /\ drop' = [drop EXCEPT ![s] = drops + 1]
          /\ kept' = kept \ {s}
          /\ task' = Tail(task) \o
                (IF Cardinality(members) = 1 THEN <<Check(s, "now")>> ELSE << >>)
    /\ drops' = drops + 1
    /\ count' = (count + 1) % 256
    /\ UNCHANGED <<members, lotters, idle, bagVars, uptime>>

-----------------------------------------------------------------------------
(* Lots and passes (0x041, 0x042).                                         *)

(* A call ends by checking the slot once everyone has answered.            *)
CheckIfComplete(s) ==
    task' = IF Cardinality(lotters'[s]) = Cardinality(members)
            THEN <<Check(s, "tick")>> ELSE << >>

AnyLotAllowed(c, s) == TRUE
LotAllowed(c, s) == ~hasLottedItem(c, s)

LotItem(c, s, n) ==
    /\ Idle /\ c \in members /\ LotAllowed(c, s)
    /\ item[s] # NoItem /\ free[c] # 0 /\ ~HasRare(c, item[s])
    /\ lotters' = [lotters EXCEPT ![s] =
                     @ \cup {[member |-> c, lot |-> n, for |-> drop[s]]}]
    /\ CheckIfComplete(s)
    /\ UNCHANGED <<members, item, age, drop, count, idle, drops, bagVars, uptime, kept>>

(* Nothing asks whether there is an item in the slot.                      *)
PassItem(c, s) ==
    /\ Idle /\ c \in members /\ ~hasPassedItem(c, s)
    /\ lotters' = [lotters EXCEPT ![s] =
                     {l \in @ : l.member # c}
                        \cup {[member |-> c, lot |-> 0, for |-> drop[s]]}]
    /\ CheckIfComplete(s)
    /\ UNCHANGED <<members, item, age, drop, count, idle, drops, bagVars, uptime, kept>>

-----------------------------------------------------------------------------
(* Sweeps.                                                                 *)

SlotChecks(clock) == [s \in Slots |-> Check(s, clock)]

(* checkItems, from the zone tick of a member.                             *)
CheckItems ==
    /\ Idle /\ members # {} /\ count # 0 /\ idle > CheckTime
    /\ task' = SlotChecks("now") \o <<Done>>
    /\ UNCHANGED <<poolVars, bagVars, uptime>>

(* Its last statement: m_Tick = tick.                                      *)
SetTick ==
    /\ Run("done")
    /\ task' = Tail(task)
    /\ idle' = 0
    /\ UNCHANGED <<members, item, age, drop, lotters, count, drops, bagVars, uptime, kept>>

Flush ==
    /\ Idle /\ members # {} /\ count # 0
    /\ task' = SlotChecks("flush")
    /\ UNCHANGED <<poolVars, bagVars, uptime>>

(* Time passes.                                                            *)
Tick ==
    /\ Idle
    /\ age' = [s \in Slots |-> IF item[s] = NoItem THEN 0 ELSE Cap(age[s] + 1, LiveTime + 1)]
    /\ idle' = Cap(idle + 1, CheckTime + 1)
    /\ uptime' = Cap(uptime + 1, LiveTime + 1)
    /\ UNCHANGED <<members, item, drop, lotters, count, drops, bagVars, task, kept>>

-----------------------------------------------------------------------------
(* Members.                                                                *)

LotsKept(c) == lotters
LotsWithout(c) == [s \in Slots |-> {l \in lotters[s] : l.member # c}]

AddMember(c) ==
    /\ Idle /\ c \notin members
    /\ members' = members \cup {c}
    /\ UNCHANGED <<item, age, drop, lotters, count, idle, drops, bagVars, uptime, task, kept>>

(* delMember. The last member deletes the pool; the next one makes its own.*)
DelMember(c) ==
    /\ Idle /\ c \in members
    /\ members' = members \ {c}
    /\ IF members = {c}
       THEN /\ item' = [s \in Slots |-> NoItem]
            /\ age' = [s \in Slots |-> 0]
            /\ drop' = [s \in Slots |-> 0]
            /\ lotters' = [s \in Slots |-> {}]
            /\ count' = 0
            /\ idle' = CheckTime + 1
            /\ kept' = {}
       ELSE /\ lotters' = LotsWithout(c)
            /\ UNCHANGED <<item, age, drop, count, idle, kept>>
    /\ UNCHANGED <<drops, bagVars, uptime, task>>

(* CParty::ReloadTreasurePool of a member whose party member is in the     *)
(* same pool: it leaves and joins again.                                   *)
ReloadTreasurePool(c) ==
    /\ Idle /\ c \in members /\ members # {c}
    /\ lotters' = LotsWithout(c)
    /\ UNCHANGED <<members, item, age, drop, count, idle, drops, bagVars, uptime, task, kept>>

(* The character uses, moves, trades or drops items of its own.            *)
ChangeInventory(c) ==
    /\ Idle
    /\ \/ free[c] < MaxFree /\ free' = [free EXCEPT ![c] = @ + 1] /\ UNCHANGED held
       \/ free[c] > 0 /\ free' = [free EXCEPT ![c] = @ - 1] /\ UNCHANGED held
       \/ \E i \in held[c] : held' = [held EXCEPT ![c] = @ \ {i}] /\ UNCHANGED free
    /\ UNCHANGED <<poolVars, uptime, task>>

-----------------------------------------------------------------------------

RunTask == CheckTreasureItem \/ PutItem \/ SetTick

CharNext(c) ==
    \/ \E s \in Slots : PassItem(c, s) \/ \E n \in 1..MaxLot : LotItem(c, s, n)
    \/ AddMember(c) \/ DelMember(c) \/ ReloadTreasurePool(c) \/ ChangeInventory(c)

Next ==
    \/ RunTask
    \/ \E i \in Items : AddItem(i)
    \/ CheckItems \/ Flush \/ Tick
    \/ \E c \in Chars : CharNext(c)

Spec == Init /\ [][Next]_vars

(* A call runs to its end. Time passes, and a zone tick that is due is run *)
(* between two other calls sooner or later: the zone ticks are timed tasks *)
(* of the map's scheduler, client packets cannot hold them back for ever.  *)
Fairness == WF_vars(RunTask) /\ SF_vars(CheckItems) /\ SF_vars(Tick)

FairSpec == Spec /\ Fairness
-----------------------------------------------------------------------------
(* Properties.                                                             *)

(* The values each variable ranges over.                                   *)
TypeOK ==
    /\ members \subseteq Chars
    /\ item \in [Slots -> Items \cup {NoItem}]
    /\ age \in [Slots -> 0..LiveTime + 1]
    /\ drop \in [Slots -> Nat]
    /\ lotters \in [Slots -> SUBSET LotInfo]
    /\ count \in 0..255
    /\ idle \in 0..CheckTime + 1
    /\ free \in [Chars -> 0..MaxFree]
    /\ held \in [Chars -> SUBSET Rare]
    /\ uptime \in 0..LiveTime + 1
    /\ task \in Seq(Steps)
    /\ drops \in Nat
    /\ kept \subseteq Slots

(* m_count is the number of items in the pool, which addItem returns and   *)
(* on which checkItems and flush decide to do nothing: a count that falls  *)
(* to 0 early would strand the items left.                                 *)
Occupied == {s \in Slots : item[s] # NoItem}
CountMatches == count = Cardinality(Occupied)

(* The code follows LotInfo::member without asking whether the character   *)
(* still exists, and treasureWon leaves the item in its slot for a winner  *)
(* outside the pool: members that leave must take their lots with them.    *)
LottersAreMembers == \A s \in Slots : \A l \in lotters[s] : l.member \in members

(* A drop that is put in an inventory is out of the pool: it is never      *)
(* awarded a second time.                                                  *)
GivenOnce == kept = {}

(* "if all lotters have lotted" is decided by comparing two sizes: as many *)
(* entries as members must mean that every member has answered.            *)
FullMeansAll ==
    \A s \in Slots : Cardinality(lotters[s]) = Cardinality(members)
        => \A c \in members : hasLottedItem(c, s)

(* A lot counts for the drop it was cast on, never for a later drop in the *)
(* same slot.                                                              *)
LotsAreCurrent ==
    \A s \in Slots : \A l \in lotters[s] :
        l.lot > 0 => item[s] # NoItem /\ l.for = drop[s]

(* Who may get the item in slot s: the member with the highest lot on this *)
(* very drop, or, if there is no lot on it, one who has not passed.        *)
LotsOn(s) == {l \in lotters[s] : l.lot > 0 /\ l.for = drop[s]}
Entitled(c, s) ==
    /\ c \in members
    /\ \/ \E l \in LotsOn(s) : l.member = c /\ \A o \in LotsOn(s) : o.lot <= l.lot
       \/ LotsOn(s) = {} /\ ~hasPassedItem(c, s)

(* A drop is settled by the rules of the pool. While there are members it  *)
(* leaves its slot empty (addItem never overwrites one); it leaves when    *)
(* every member has answered, when there is one member, or when it is old  *)
(* or made to look so; and nobody gets it in the inventory who is not      *)
(* entitled to it, whoever came, lotted, passed and left before.           *)
SettledByTheRules ==
    [][\A s \in Slots : drop[s] # 0 /\ drop'[s] # drop[s] /\ members' # {} =>
          /\ drop'[s] = 0
          /\ \/ \A c \in members : hasLottedItem(c, s)
             \/ Cardinality(members) = 1
             \/ age[s] + CheckTime + Second > LiveTime
          /\ \A c \in Chars : free'[c] # free[c] => Entitled(c, s)]_vars

(* No drop stays in the pool for ever, however lots, passes, leaving       *)
(* members and full inventories fall together.                             *)
DropsSettled ==
    \A s \in Slots, d \in Drops : (drop[s] = d) ~> (drop[s] # d)
=============================================================================
