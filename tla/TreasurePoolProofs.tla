------------------------- MODULE TreasurePoolProofs -------------------------
(***************************************************************************)
(* Type correctness of the treasure pool, that its lots are its members',  *)
(* that it awards no drop twice, that a slot with as many entries as there *)
(* are members has been answered by all of them, and (once the process has *)
(* been up for longer than an item lives) that m_count counts the items,   *)
(* no lot is counted for a later drop, and every drop is settled by the    *)
(* rules.                                                                  *)
(***************************************************************************)
EXTENDS TreasurePool, CountingProofs, SequenceTheorems

(* The numbers are of the kind the code's comparisons need.                *)
LEMMA Bounds ==
  /\ Size \in Nat /\ MaxFree \in Nat /\ LiveTime \in Nat /\ CheckTime \in Nat
  /\ CheckTime \in 0..LiveTime + 1
BY SizesAssumption, TimesAssumption

(* The lists of steps the calls make are lists of steps.                   *)
LEMMA TaskTypes ==
  /\ \A s \in Slots, k \in Clocks : <<Check(s, k)>> \in Seq(Steps)
  /\ \A s \in Slots, i \in Items :
        /\ <<Put(s, i)>> \in Seq(Steps)
        /\ <<Check(s, "now"), Put(s, i)>> \in Seq(Steps)
  /\ \A k \in Clocks : SlotChecks(k) \in Seq(Steps)
  /\ <<Done>> \in Seq(Steps)
<1>1. /\ \A s \in Slots, k \in Clocks : Check(s, k) \in Steps
      /\ \A s \in Slots, i \in Items : Put(s, i) \in Steps
      /\ Done \in Steps /\ "now" \in Clocks
  BY DEF Check, Put, Steps, Clocks
<1>2. \A k \in Clocks : SlotChecks(k) \in Seq(Steps)
  <2> SUFFICES ASSUME NEW k \in Clocks PROVE SlotChecks(k) \in Seq(Steps)
    OBVIOUS
  <2>1. SlotChecks(k) \in [1..Size -> Steps]
    BY <1>1 DEF SlotChecks, Slots
  <2>2. QED BY <2>1, Bounds
<1>3. QED BY <1>1, <1>2

(* The step at the head of the running call.                               *)
LEMMA HeadType ==
  ASSUME TypeOK, task # << >>
  PROVE  /\ Tail(task) \in Seq(Steps)
         /\ Run("check") => Head(task).slot \in Slots /\ Head(task).clock \in Clocks
         /\ Run("put") => Head(task).slot \in Slots /\ Head(task).item \in Items
<1>1. task \in Seq(Steps) /\ Head(task) \in Steps /\ Tail(task) \in Seq(Steps)
  BY DEF TypeOK
<1>2. QED BY <1>1 DEF Run, Steps, Done

(* Time never runs backwards or past its caps.                             *)
LEMMA CapType ==
  ASSUME NEW n \in Nat, NEW limit \in Nat
  PROVE  Cap(n, limit) \in 0..limit
BY DEF Cap

(* The initial states are of the right type.                               *)
LEMMA InitType == Init => TypeOK
BY Bounds DEF Init, TypeOK, Slots

(* Emptying a slot preserves the types of what it changes.                 *)
LEMMA ClearType ==
  ASSUME TypeOK, NEW s \in Slots, ClearSlot(s)
  PROVE  /\ item' \in [Slots -> Items \cup {NoItem}]
         /\ age' \in [Slots -> 0..LiveTime + 1]
         /\ drop' \in [Slots -> Nat]
         /\ lotters' \in [Slots -> SUBSET LotInfo]
         /\ count' \in 0..255
         /\ kept' \subseteq Slots
BY Bounds DEF TypeOK, ClearSlot

(* Settling an item preserves the types of what it changes: a slot of the  *)
(* winner's inventory is taken only if there is one.                       *)
LEMMA SettleType ==
  ASSUME TypeOK, NEW s \in Slots, item[s] # NoItem, Settle(s)
  PROVE  /\ item' \in [Slots -> Items \cup {NoItem}]
         /\ age' \in [Slots -> 0..LiveTime + 1]
         /\ drop' \in [Slots -> Nat]
         /\ lotters' \in [Slots -> SUBSET LotInfo]
         /\ count' \in 0..255
         /\ kept' \subseteq Slots
         /\ free' \in [Chars -> 0..MaxFree]
         /\ held' \in [Chars -> SUBSET Rare]
<1> DEFINE SlotsOK == /\ item' \in [Slots -> Items \cup {NoItem}]
                      /\ age' \in [Slots -> 0..LiveTime + 1]
                      /\ drop' \in [Slots -> Nat]
                      /\ lotters' \in [Slots -> SUBSET LotInfo]
                      /\ count' \in 0..255
                      /\ kept' \subseteq Slots
           BagsOK == /\ free' \in [Chars -> 0..MaxFree]
                     /\ held' \in [Chars -> SUBSET Rare]
<1>1. ClearSlot(s) => SlotsOK
  BY ClearType
<1>2. UNCHANGED <<item, age, drop, lotters, count>> /\ kept' \subseteq Slots => SlotsOK
  BY DEF TypeOK
<1>3. UNCHANGED bagVars => BagsOK
  BY DEF TypeOK, bagVars
<1>4. ASSUME NEW c \in Chars, free[c] # 0, Won(c, s) PROVE SlotsOK /\ BagsOK
  <2>1. BagsOK
    BY <1>4, Bounds DEF Won, Receive, TypeOK
  <2>2. SlotsOK
    BY <1>1, <1>2, <1>4 DEF Won, TypeOK
  <2>3. QED BY <2>1, <2>2
<1>5. ASSUME NEW c \in Chars, Error(c, s) PROVE SlotsOK /\ BagsOK
  BY <1>1, <1>2, <1>3, <1>5 DEF Error, TypeOK
<1>6. ASSUME Lost(s) PROVE SlotsOK /\ BagsOK
  BY <1>1, <1>3, <1>6 DEF Lost
<1>7. (\A l \in Highest(s) : l.member \in Chars) /\ (\A c \in Candidates(s) : c \in Chars /\ free[c] # 0)
  BY DEF Highest, Candidates, TypeOK, LotInfo
<1> HIDE DEF SlotsOK, BagsOK
<1>8. SlotsOK /\ BagsOK
  BY <1>4, <1>5, <1>6, <1>7 DEF Settle
<1>9. QED BY <1>8 DEF SlotsOK, BagsOK

(* The steps of a running call preserve TypeOK.                            *)
LEMMA RunType ==
  ASSUME TypeOK, RunTask
  PROVE  TypeOK'
<1>1. CASE CheckTreasureItem
  <2> DEFINE s == Head(task).slot
  <2>1. s \in Slots /\ Tail(task) \in Seq(Steps)
    BY <1>1, HeadType DEF CheckTreasureItem, Run
  <2>2. CASE UNCHANGED <<item, age, drop, lotters, count, bagVars, kept>>
    BY <1>1, <2>1, <2>2 DEF CheckTreasureItem, TypeOK, bagVars
  <2>3. CASE item[s] # NoItem /\ Settle(s)
    <3> HIDE DEF s
    <3>1. /\ task' = Tail(task) /\ UNCHANGED <<members, idle, drops, uptime>>
      BY <1>1 DEF CheckTreasureItem
    <3>2. QED BY <2>1, <2>3, <3>1, SettleType DEF TypeOK
  <2>4. QED BY <1>1, <2>2, <2>3 DEF CheckTreasureItem
<1>2. CASE PutItem
  <2> DEFINE s == Head(task).slot
  <2>1. s \in Slots /\ Tail(task) \in Seq(Steps) /\ Head(task).item \in Items
    BY <1>2, HeadType DEF PutItem, Run
  <2>2. <<Check(s, "now")>> \in Seq(Steps) /\ << >> \in Seq(Steps)
    BY <2>1, TaskTypes DEF Clocks
  <2>3. task' \in Seq(Steps)
    BY <1>2, <2>1, <2>2 DEF PutItem
  <2>4. QED BY <1>2, <2>1, <2>3, Bounds DEF PutItem, TypeOK, bagVars
<1>3. CASE SetTick
  <2>1. Tail(task) \in Seq(Steps)
    BY <1>3, HeadType DEF SetTick, Run
  <2>2. QED BY <1>3, <2>1, Bounds DEF SetTick, TypeOK, bagVars
<1>4. QED BY <1>1, <1>2, <1>3 DEF RunTask

(* Drops, sweeps and the clock preserve TypeOK.                            *)
LEMMA PoolType ==
  ASSUME TypeOK, (\E i \in Items : AddItem(i)) \/ CheckItems \/ Flush \/ Tick
  PROVE  TypeOK'
<1>1. ASSUME NEW i \in Items, AddItem(i) PROVE TypeOK'
  <2>1. task' \in Seq(Steps)
    BY <1>1, TaskTypes DEF AddItem, FreeSlots
  <2>2. QED BY <1>1, <2>1 DEF AddItem, TypeOK, bagVars, EvictedAge
<1>2. CASE CheckItems \/ Flush
  <2>1. /\ SlotChecks("now") \in Seq(Steps) /\ SlotChecks("flush") \in Seq(Steps)
        /\ <<Done>> \in Seq(Steps)
    BY TaskTypes DEF Clocks
  <2>2. SlotChecks("now") \o <<Done>> \in Seq(Steps)
    <3> DEFINE p == SlotChecks("now")
               q == <<Done>>
    <3>1. p \in Seq(Steps) /\ q \in Seq(Steps)
      BY <2>1
    <3> HIDE DEF p, q
    <3>2. p \o q \in Seq(Steps)
      BY <3>1
    <3>3. QED BY <3>2 DEF p, q
  <2>3. task' \in Seq(Steps)
    <3>1. CASE CheckItems BY <3>1, <2>2 DEF CheckItems
    <3>2. CASE Flush BY <3>2, <2>1 DEF Flush
    <3>3. QED BY <1>2, <3>1, <3>2
  <2>4. QED BY <1>2, <2>3 DEF CheckItems, Flush, TypeOK, poolVars, bagVars
<1>3. CASE Tick
  <2>1. /\ age' \in [Slots -> 0..LiveTime + 1] /\ idle' \in 0..CheckTime + 1
        /\ uptime' \in 0..LiveTime + 1
    <3>1. /\ \A n \in 0..LiveTime + 1 : Cap(n + 1, LiveTime + 1) \in 0..LiveTime + 1
          /\ \A n \in 0..CheckTime + 1 : Cap(n + 1, CheckTime + 1) \in 0..CheckTime + 1
      BY Bounds, CapType
    <3>2. QED BY <1>3, <3>1, Bounds DEF Tick, TypeOK
  <2>2. QED BY <1>3, <2>1 DEF Tick, TypeOK, bagVars
<1>4. QED BY <1>1, <1>2, <1>3

(* What members do preserves TypeOK.                                       *)
LEMMA MemberType ==
  ASSUME TypeOK, NEW c \in Chars, CharNext(c)
  PROVE  TypeOK'
<1>0. \A s \in Slots : <<Check(s, "tick")>> \in Seq(Steps)
  BY TaskTypes DEF Clocks
<1>1. ASSUME NEW s \in Slots, PassItem(c, s) PROVE TypeOK'
  <2>1. lotters' \in [Slots -> SUBSET LotInfo]
    <3>1. [member |-> c, lot |-> 0, for |-> drop[s]] \in LotInfo
      BY SizesAssumption DEF TypeOK, LotInfo
    <3>2. QED BY <1>1, <3>1 DEF PassItem, TypeOK
  <2>2. task' \in Seq(Steps)
    BY <1>0, <1>1 DEF PassItem, CheckIfComplete
  <2>3. QED BY <1>1, <2>1, <2>2 DEF PassItem, TypeOK, bagVars
<1>2. ASSUME NEW s \in Slots, NEW n \in 1..MaxLot, LotItem(c, s, n) PROVE TypeOK'
  <2>1. lotters' \in [Slots -> SUBSET LotInfo]
    <3>1. [member |-> c, lot |-> n, for |-> drop[s]] \in LotInfo
      BY SizesAssumption DEF TypeOK, LotInfo
    <3>2. QED BY <1>2, <3>1 DEF LotItem, TypeOK
  <2>2. task' \in Seq(Steps)
    BY <1>0, <1>2 DEF LotItem, CheckIfComplete
  <2>3. QED BY <1>2, <2>1, <2>2 DEF LotItem, TypeOK, bagVars
<1>3. CASE AddMember(c)
  BY <1>3 DEF AddMember, TypeOK, bagVars
<1>4. CASE DelMember(c)
  <2>1. CASE members = {c}
    BY <1>4, <2>1, Bounds DEF DelMember, TypeOK, bagVars
  <2>2. CASE members # {c}
    BY <1>4, <2>2 DEF DelMember, LotsWithout, TypeOK, bagVars
  <2>3. QED BY <2>1, <2>2
<1>5. CASE ReloadTreasurePool(c)
  BY <1>5 DEF ReloadTreasurePool, LotsWithout, TypeOK, bagVars
<1>6. CASE ChangeInventory(c)
  <2>1. free' \in [Chars -> 0..MaxFree] /\ held' \in [Chars -> SUBSET Rare]
    <3>1. CASE free[c] < MaxFree /\ free' = [free EXCEPT ![c] = @ + 1] /\ UNCHANGED held
      BY <3>1, Bounds DEF TypeOK
    <3>2. CASE free[c] > 0 /\ free' = [free EXCEPT ![c] = @ - 1] /\ UNCHANGED held
      BY <3>2, Bounds DEF TypeOK
    <3>3. CASE \E i \in held[c] : held' = [held EXCEPT ![c] = @ \ {i}] /\ UNCHANGED free
      BY <3>3 DEF TypeOK
    <3>4. QED BY <1>6, <3>1, <3>2, <3>3 DEF ChangeInventory
  <2>2. QED BY <1>6, <2>1 DEF ChangeInventory, TypeOK, poolVars
<1>7. QED BY <1>1, <1>2, <1>3, <1>4, <1>5, <1>6 DEF CharNext

(* TypeOK holds in every reachable state, for every number of members,     *)
(* slots and items: in particular no award takes a slot of a full          *)
(* inventory.                                                              *)
THEOREM PoolTypeCorrect == Spec => []TypeOK
<1>1. Init => TypeOK
  BY InitType
<1>2. TypeOK /\ [Next]_vars => TypeOK'
  <2> SUFFICES ASSUME TypeOK, [Next]_vars PROVE TypeOK'
    OBVIOUS
  <2>1. CASE UNCHANGED vars
    BY <2>1 DEF vars, poolVars, bagVars, TypeOK
  <2>2. QED BY <2>1, RunType, PoolType, MemberType DEF Next
<1>3. QED BY <1>1, <1>2, PTL DEF Spec

-----------------------------------------------------------------------------
(* Lots belong to members, so every winner is in the pool and every item   *)
(* that is given leaves its slot. The two are inductive together.          *)

Owned == LottersAreMembers /\ GivenOnce

(* A settled slot is emptied, whoever wins.                                *)
LEMMA SettleClears ==
  ASSUME TypeOK, Owned, NEW s \in Slots, Settle(s)
  PROVE  ClearSlot(s)
<1>1. /\ \A l \in Highest(s) : l.member \in members
      /\ \A c \in Candidates(s) : c \in members
  BY DEF Owned, LottersAreMembers, Highest, Candidates
<1>2. \A c \in members : (Won(c, s) => ClearSlot(s)) /\ (Error(c, s) => ClearSlot(s))
  BY DEF Won, Error
<1>3. Lost(s) => ClearSlot(s)
  BY DEF Lost
<1>4. QED BY <1>1, <1>2, <1>3 DEF Settle

(* The steps of a running call keep Owned.                                 *)
LEMMA RunOwned ==
  ASSUME TypeOK, Owned, RunTask
  PROVE  Owned'
<1> USE DEF Owned, LottersAreMembers, GivenOnce
<1>1. CASE CheckTreasureItem
  <2> DEFINE s == Head(task).slot
  <2>1. s \in Slots
    BY <1>1, HeadType DEF CheckTreasureItem, Run
  <2>2. members' = members
    BY <1>1 DEF CheckTreasureItem
  <2>3. CASE UNCHANGED <<item, age, drop, lotters, count, bagVars, kept>>
    BY <2>2, <2>3
  <2>4. CASE Settle(s)
    <3> HIDE DEF s
    <3>1. ClearSlot(s)
      BY <2>1, <2>4, SettleClears
    <3>2. QED BY <2>1, <2>2, <3>1 DEF ClearSlot, TypeOK
  <2>5. QED BY <1>1, <2>3, <2>4 DEF CheckTreasureItem
<1>2. CASE PutItem
  BY <1>2 DEF PutItem
<1>3. CASE SetTick
  BY <1>3 DEF SetTick
<1>4. QED BY <1>1, <1>2, <1>3 DEF RunTask

(* Members that come, answer and go keep Owned: delMember takes the lots   *)
(* of the one that leaves.                                                 *)
LEMMA MemberOwned ==
  ASSUME TypeOK, Owned, NEW c \in Chars, CharNext(c)
  PROVE  Owned'
<1> USE DEF Owned, LottersAreMembers, GivenOnce, TypeOK
<1>1. ASSUME NEW s \in Slots, PassItem(c, s) PROVE Owned'
  BY <1>1 DEF PassItem
<1>2. ASSUME NEW s \in Slots, NEW n \in 1..MaxLot, LotItem(c, s, n) PROVE Owned'
  BY <1>2 DEF LotItem
<1>3. CASE AddMember(c)
  BY <1>3 DEF AddMember
<1>4. CASE DelMember(c)
  BY <1>4 DEF DelMember, LotsWithout
<1>5. CASE ReloadTreasurePool(c)
  BY <1>5 DEF ReloadTreasurePool, LotsWithout
<1>6. CASE ChangeInventory(c)
  BY <1>6 DEF ChangeInventory, poolVars
<1>7. QED BY <1>1, <1>2, <1>3, <1>4, <1>5, <1>6 DEF CharNext

(* Owned is inductive, given TypeOK.                                       *)
LEMMA OwnedAlways == Spec => []Owned
<1>1. Init => Owned
  BY DEF Init, Owned, LottersAreMembers, GivenOnce
<1>2. TypeOK /\ Owned /\ [Next]_vars => Owned'
  <2> SUFFICES ASSUME TypeOK, Owned, [Next]_vars PROVE Owned'
    OBVIOUS
  <2>1. CASE UNCHANGED vars
    BY <2>1 DEF vars, poolVars, Owned, LottersAreMembers, GivenOnce
  <2>2. CASE \E i \in Items : AddItem(i)
    BY <2>2 DEF AddItem, Owned, LottersAreMembers, GivenOnce
  <2>3. CASE CheckItems \/ Flush \/ Tick
    BY <2>3 DEF CheckItems, Flush, Tick, poolVars, Owned, LottersAreMembers, GivenOnce
  <2>4. QED BY <2>1, <2>2, <2>3, RunOwned, MemberOwned DEF Next
<1>3. QED BY <1>1, <1>2, PoolTypeCorrect, PTL DEF Spec

(* LottersAreMembers: no LotInfo outlives its member's stay in the pool,   *)
(* so the code never follows a pointer to a character that has left.       *)
THEOREM LotsLeaveWithMembers == Spec => []LottersAreMembers
<1>1. Owned => LottersAreMembers
  BY DEF Owned
<1>2. QED BY <1>1, OwnedAlways, PTL

(* GivenOnce: treasureWon always finds the winner in the pool and empties  *)
(* the slot, so that no drop is awarded twice.                             *)
THEOREM NoDropGivenTwice == Spec => []GivenOnce
<1>1. Owned => GivenOnce
  BY DEF Owned
<1>2. QED BY <1>1, OwnedAlways, PTL

-----------------------------------------------------------------------------
(* The sizes the code compares.                                            *)

(* No member has two entries on an item: lotItem refuses a second lot and  *)
(* passItem overwrites the lot there is.                                   *)
OneEntryEach ==
    \A s \in Slots : \A l, o \in lotters[s] : l.member = o.member => l = o

(* OneEntryEach is inductive.                                              *)
LEMMA OneEntryAlways == Spec => []OneEntryEach
<1> USE DEF OneEntryEach
<1>1. Init => OneEntryEach
  BY DEF Init
<1>2. TypeOK /\ Owned /\ OneEntryEach /\ [Next]_vars => OneEntryEach'
  <2> SUFFICES ASSUME TypeOK, Owned, OneEntryEach, [Next]_vars PROVE OneEntryEach'
    OBVIOUS
  <2>1. CASE UNCHANGED lotters
    BY <2>1
  <2>2. CASE CheckTreasureItem
    <3> DEFINE s == Head(task).slot
    <3>1. s \in Slots
      BY <2>2, HeadType DEF CheckTreasureItem, Run
    <3>2. CASE Settle(s)
      <4> HIDE DEF s
      <4>1. ClearSlot(s)
        BY <3>1, <3>2, SettleClears
      <4>2. QED BY <3>1, <4>1 DEF ClearSlot, TypeOK
    <3>3. QED BY <2>1, <2>2, <3>2 DEF CheckTreasureItem
  <2>3. ASSUME NEW c \in Chars, NEW s \in Slots, PassItem(c, s) PROVE OneEntryEach'
    BY <2>3 DEF PassItem, TypeOK
  <2>4. ASSUME NEW c \in Chars, NEW s \in Slots, NEW n \in 1..MaxLot, LotItem(c, s, n)
        PROVE  OneEntryEach'
    BY <2>4 DEF LotItem, LotAllowed, hasLottedItem, TypeOK
  <2>5. ASSUME NEW c \in Chars, DelMember(c) \/ ReloadTreasurePool(c) PROVE OneEntryEach'
    BY <2>5 DEF DelMember, ReloadTreasurePool, LotsWithout, TypeOK
  <2>6. (PutItem \/ SetTick \/ (\E i \in Items : AddItem(i)) \/ CheckItems \/ Flush \/ Tick
          \/ (\E c \in Chars : AddMember(c) \/ ChangeInventory(c)))
        => UNCHANGED lotters
    BY DEF PutItem, SetTick, AddItem, CheckItems, Flush, Tick, AddMember, ChangeInventory, poolVars
  <2>7. UNCHANGED vars => UNCHANGED lotters
    BY DEF vars, poolVars
  <2>8. QED
    BY <2>1, <2>2, <2>3, <2>4, <2>5, <2>6, <2>7 DEF Next, RunTask, CharNext
<1>3. QED BY <1>1, <1>2, PoolTypeCorrect, OwnedAlways, PTL DEF Spec

(* FullMeansAll: the entries of a slot map one to one into the members, so *)
(* that checkTreasureItem and the ends of lotItem and passItem are right   *)
(* to take equal sizes for "all lotters have lotted".                      *)
THEOREM AsManyMeansEveryone == Spec => []FullMeansAll
<1>1. TypeOK /\ Owned /\ OneEntryEach => FullMeansAll
  <2> SUFFICES ASSUME TypeOK, Owned, OneEntryEach, NEW s \in Slots,
                      Cardinality(lotters[s]) = Cardinality(members),
                      NEW c \in members
               PROVE  hasLottedItem(c, s)
    BY DEF FullMeansAll
  <2> DEFINE f == [l \in lotters[s] |-> l.member]
  <2>1. IsFiniteSet(members)
    BY SizesAssumption, FS_Subset DEF TypeOK
  <2>2. f \in Injection(lotters[s], members)
    BY DEF Owned, LottersAreMembers, OneEntryEach, Injection, IsInjective
  <2>3. f \in Surjection(lotters[s], members)
    BY <2>1, <2>2, FS_Injection
  <2>4. PICK l \in lotters[s] : f[l] = c
    BY <2>3 DEF Surjection
  <2>5. QED BY <2>4 DEF hasLottedItem
<1>2. QED BY <1>1, PoolTypeCorrect, OwnedAlways, OneEntryAlways, PTL

-----------------------------------------------------------------------------
(* Drops go into empty slots. addItem evicts by dating an item to the      *)
(* start of the process, which expires it only once the process has been   *)
(* up for longer than an item lives: this is what WarmStart says.          *)

NoPut(q) == \A k \in DOMAIN q : q[k].do # "put"

(* A drop still to be put goes next into an empty slot, or after a check   *)
(* that will find the item of its slot expired.                            *)
PutIsSafe ==
    \/ NoPut(task)
    \/ \E s \in Slots, i \in Items :
          \/ task = <<Put(s, i)>> /\ item[s] = NoItem
          \/ task = <<Check(s, "now"), Put(s, i)>> /\ age[s] > LiveTime

Warm == uptime = LiveTime + 1
Tallied == Warm /\ PutIsSafe /\ CountMatches /\ LotsAreCurrent

(* Lists of steps without a drop to put.                                   *)
LEMMA NoPutLists ==
  /\ NoPut(<< >>)
  /\ \A s \in Slots, k \in Clocks : NoPut(<<Check(s, k)>>)
  /\ \A k \in Clocks : NoPut(SlotChecks(k)) /\ NoPut(SlotChecks(k) \o <<Done>>)
  /\ \A q \in Seq(Steps) : q # << >> /\ NoPut(q) => NoPut(Tail(q))
<1>1. NoPut(<< >>) /\ \A s \in Slots, k \in Clocks : NoPut(<<Check(s, k)>>)
  BY DEF NoPut, Check
<1>2. ASSUME NEW k \in Clocks PROVE NoPut(SlotChecks(k)) /\ NoPut(SlotChecks(k) \o <<Done>>)
  <2> DEFINE p == SlotChecks(k)
             q == <<Done>>
  <2>1. p \in Seq(Steps) /\ q \in Seq(Steps) /\ Len(p) \in Nat /\ Len(q) = 1
    BY TaskTypes
  <2>2. \A n \in DOMAIN p : p[n].do = "check"
    BY DEF SlotChecks, Check
  <2>3. q[1].do = "done"
    BY DEF Done
  <2>4. NoPut(p)
    BY <2>2 DEF NoPut
  <2> HIDE DEF p, q
  <2>5. \A n \in DOMAIN (p \o q) : (p \o q)[n].do # "put"
    <3>1. /\ p \o q \in Seq(Steps) /\ Len(p \o q) = Len(p) + 1
          /\ \A n \in 1..Len(p) + 1 :
                (p \o q)[n] = IF n <= Len(p) THEN p[n] ELSE q[n - Len(p)]
      BY <2>1, ConcatProperties, SMTT(60)
    <3>2. QED BY <2>1, <2>2, <2>3, <3>1
  <2>6. NoPut(p \o q)
    BY <2>5 DEF NoPut
  <2>7. QED BY <2>4, <2>6 DEF p, q
<1>3. ASSUME NEW q \in Seq(Steps), q # << >>, NoPut(q) PROVE NoPut(Tail(q))
  <2>1. \A n \in 1..Len(q) : q[n].do # "put"
    BY <1>3 DEF NoPut
  <2>2. Tail(q) \in Seq(Steps) /\ \A n \in 1..Len(Tail(q)) : Tail(q)[n] = q[n + 1] /\ n + 1 \in 1..Len(q)
    BY <1>3
  <2>3. QED BY <2>1, <2>2 DEF NoPut
<1>4. QED BY <1>1, <1>2, <1>3

(* There are at most Size items, so that m_count, a byte, never wraps.     *)
LEMMA OccupiedBounds ==
  ASSUME TypeOK
  PROVE  /\ IsFiniteSet(Occupied) /\ Cardinality(Occupied) \in 0..255
         /\ Occupied # Slots => Cardinality(Occupied) < 255
<1>1. IsFiniteSet(Slots) /\ Cardinality(Slots) = Size /\ Size \in 1..255
  <2>1. Size \in 1..255 /\ Size \in Int /\ 1 \in Int
    BY SizesAssumption
  <2>2. IsFiniteSet(1..Size) /\ Cardinality(1..Size) = IF 1 > Size THEN 0 ELSE Size - 1 + 1
    BY <2>1, FS_Interval
  <2>3. QED BY <2>1, <2>2 DEF Slots
<1>2. Occupied \in SUBSET Slots
  BY DEF Occupied
<1>3. IsFiniteSet(Occupied) /\ Cardinality(Occupied) <= Size
         /\ (Occupied # Slots => Cardinality(Occupied) # Size)
  BY <1>1, <1>2, FS_Subset
<1>4. Cardinality(Occupied) \in Nat
  BY <1>3, FS_CardinalityType
<1>5. QED BY <1>1, <1>3, <1>4

(* Emptying a slot and filling an empty one keep the count.                *)
LEMMA ClearCounts ==
  ASSUME TypeOK, CountMatches, NEW s \in Slots, item[s] # NoItem, ClearSlot(s)
  PROVE  CountMatches'
<1>1. Occupied' = Occupied \ {s} /\ s \in Occupied
  BY DEF TypeOK, ClearSlot, Occupied
<1>2. Cardinality(Occupied') = Cardinality(Occupied) - 1 /\ Cardinality(Occupied) # 0
  BY <1>1, OccupiedBounds, FS_RemoveElement, FS_EmptySet
<1>3. count' = (count - 1) % 256
  BY DEF ClearSlot
<1>4. QED BY <1>2, <1>3, OccupiedBounds DEF CountMatches

LEMMA PutCounts ==
  ASSUME TypeOK, CountMatches, NEW s \in Slots, NEW i \in Items, item[s] = NoItem,
         item' = [item EXCEPT ![s] = i], count' = (count + 1) % 256
  PROVE  CountMatches'
<1>1. Occupied' = Occupied \cup {s} /\ s \notin Occupied
  BY ItemsAssumption DEF TypeOK, Occupied
<1>2. Cardinality(Occupied') = Cardinality(Occupied) + 1 /\ Cardinality(Occupied) < 255
  BY <1>1, OccupiedBounds, FS_AddElement
<1>3. QED BY <1>2, OccupiedBounds DEF CountMatches

(* The steps of a running call keep Tallied.                               *)
LEMMA RunTallied ==
  ASSUME TypeOK, Owned, Tallied, RunTask
  PROVE  Tallied'
<1>1. CASE CheckTreasureItem
  <2> DEFINE s == Head(task).slot
  <2>1. /\ s \in Slots /\ task' = Tail(task) /\ task # << >> /\ task \in Seq(Steps)
        /\ Head(task).do = "check" /\ uptime' = uptime
    BY <1>1, HeadType DEF CheckTreasureItem, Run, TypeOK
  <2>2. Warm'
    BY <2>1 DEF Tallied, Warm
  <2>3. NoPut(task) => PutIsSafe'
    BY <2>1, NoPutLists DEF PutIsSafe
  <2>4. ASSUME NEW t \in Slots, NEW i \in Items, task = <<Check(t, "now"), Put(t, i)>>
        PROVE  task' = <<Put(t, i)>> /\ s = t /\ Head(task).clock = "now"
    BY <2>1, <2>4 DEF Check
  <2>5. \A t \in Slots, i \in Items : task # <<Put(t, i)>>
    BY <2>1 DEF Put
  <2>6. CASE item[s] # NoItem /\ Settle(s)
    <3> HIDE DEF s
    <3>1. ClearSlot(s)
      BY <2>1, <2>6, SettleClears
    <3>2. CountMatches'
      BY <2>1, <2>6, <3>1, ClearCounts DEF Tallied
    <3>3. LotsAreCurrent'
      BY <2>1, <3>1 DEF ClearSlot, Tallied, LotsAreCurrent, TypeOK
    <3>4. item'[s] = NoItem
      BY <2>1, <3>1 DEF ClearSlot, TypeOK
    <3>5. PutIsSafe'
      BY <2>3, <2>4, <2>5, <3>4 DEF Tallied, PutIsSafe
    <3>6. QED BY <2>2, <3>2, <3>3, <3>5 DEF Tallied
  <2>7. CASE /\ UNCHANGED <<item, age, drop, lotters, count, bagVars, kept>>
             /\ ~(item[s] # NoItem /\ Settles(s, Head(task).clock))
    <3>1. CountMatches' /\ LotsAreCurrent'
      BY <2>7 DEF Tallied, CountMatches, Occupied, LotsAreCurrent
    <3>2. ASSUME NEW t \in Slots, NEW i \in Items, task = <<Check(t, "now"), Put(t, i)>>,
                 age[t] > LiveTime
          PROVE  item'[t] = NoItem
      BY <2>4, <2>7, <3>2 DEF Settles, Expired
    <3>3. PutIsSafe'
      BY <2>3, <2>4, <2>5, <3>2 DEF Tallied, PutIsSafe
    <3>4. QED BY <2>2, <3>1, <3>3 DEF Tallied
  <2>8. QED BY <1>1, <2>6, <2>7 DEF CheckTreasureItem
<1>2. CASE PutItem
  <2>1. ~NoPut(task)
    BY <1>2 DEF PutItem, Run, NoPut, TypeOK
  <2>2. PICK s \in Slots, i \in Items :
             \/ task = <<Put(s, i)>> /\ item[s] = NoItem
             \/ task = <<Check(s, "now"), Put(s, i)>>
    BY <2>1 DEF Tallied, PutIsSafe
  <2>3. task # <<Check(s, "now"), Put(s, i)>>
    BY <1>2 DEF PutItem, Run, Check
  <2>4. /\ task = <<Put(s, i)>> /\ item[s] = NoItem
        /\ Head(task).slot = s /\ Head(task).item = i /\ Tail(task) = << >>
    <3>1. task = <<Put(s, i)>> /\ item[s] = NoItem
      BY <2>2, <2>3
    <3>2. Head(task) = Put(s, i) /\ Tail(task) = << >>
      BY <3>1
    <3>3. QED BY <3>1, <3>2 DEF Put
  <2>5. /\ item' = [item EXCEPT ![s] = i] /\ count' = (count + 1) % 256
        /\ drop' = [drop EXCEPT ![s] = drops + 1] /\ UNCHANGED <<lotters, uptime>>
        /\ task' \in {<< >>, <<Check(s, "now")>>}
    <3>1. << >> \o <<Check(s, "now")>> = <<Check(s, "now")>> /\ << >> \o << >> = << >>
      OBVIOUS
    <3>2. task' \in {<< >>, <<Check(s, "now")>>}
      BY <1>2, <2>4, <3>1 DEF PutItem
    <3>3. QED BY <1>2, <2>4, <3>2 DEF PutItem
  <2>6. CountMatches'
    BY <2>4, <2>5, PutCounts DEF Tallied
  <2>7. LotsAreCurrent'
    BY <2>4, <2>5 DEF Tallied, LotsAreCurrent, TypeOK
  <2>8. PutIsSafe'
    BY <2>5, NoPutLists DEF PutIsSafe, Clocks
  <2>9. QED BY <2>5, <2>6, <2>7, <2>8 DEF Tallied, Warm
<1>3. CASE SetTick
  <2>1. task # << >> /\ Head(task).do = "done" /\ task' = Tail(task)
    BY <1>3 DEF SetTick, Run
  <2>2. NoPut(task)
    BY <2>1 DEF Tallied, PutIsSafe, Check, Put
  <2>3. PutIsSafe'
    BY <2>1, <2>2, NoPutLists DEF PutIsSafe, TypeOK
  <2>4. QED BY <1>3, <2>3 DEF SetTick, Tallied, Warm, CountMatches, Occupied, LotsAreCurrent
<1>4. QED BY <1>1, <1>2, <1>3 DEF RunTask

(* Drops, sweeps and the clock keep Tallied: what a full pool evicts is    *)
(* older than any item may become.                                         *)
LEMMA PoolTallied ==
  ASSUME TypeOK, Tallied, (\E i \in Items : AddItem(i)) \/ CheckItems \/ Flush \/ Tick
  PROVE  Tallied'
<1> USE DEF Tallied, Warm
<1>1. ASSUME NEW i \in Items, AddItem(i) PROVE Tallied'
  <2>1. CountMatches' /\ LotsAreCurrent' /\ Warm'
    BY <1>1 DEF AddItem, CountMatches, Occupied, LotsAreCurrent
  <2>2. CASE \E s \in FreeSlots : task' = <<Put(s, i)>>
    BY <1>1, <2>1, <2>2 DEF AddItem, FreeSlots, PutIsSafe
  <2>3. CASE \E s \in Slots : /\ age' = [age EXCEPT ![s] = EvictedAge]
                              /\ task' = <<Check(s, "now"), Put(s, i)>>
    <3>1. PICK s \in Slots : /\ age' = [age EXCEPT ![s] = EvictedAge]
                             /\ task' = <<Check(s, "now"), Put(s, i)>>
      BY <2>3
    <3>2. age'[s] > LiveTime
      BY <3>1, Bounds DEF EvictedAge, TypeOK
    <3>3. QED BY <2>1, <3>1, <3>2 DEF PutIsSafe
  <2>4. QED BY <1>1, <2>1, <2>2, <2>3 DEF AddItem
<1>2. CASE CheckItems \/ Flush
  <2>1. NoPut(task')
    BY <1>2, NoPutLists DEF CheckItems, Flush, Clocks
  <2>2. QED BY <1>2, <2>1 DEF CheckItems, Flush, poolVars, CountMatches, Occupied, LotsAreCurrent, PutIsSafe
<1>3. CASE Tick
  <2>1. uptime' = LiveTime + 1
    BY <1>3, Bounds DEF Tick, Cap
  <2>2. PutIsSafe'
    BY <1>3, NoPutLists DEF Tick, Idle, PutIsSafe
  <2>3. QED BY <1>3, <2>1, <2>2 DEF Tick, CountMatches, Occupied, LotsAreCurrent
<1>4. QED BY <1>1, <1>2, <1>3

(* What members do keeps Tallied.                                          *)
LEMMA MemberTallied ==
  ASSUME TypeOK, Tallied, NEW c \in Chars, CharNext(c)
  PROVE  Tallied'
<1> USE DEF Tallied, Warm
<1>1. CASE /\ UNCHANGED <<item, drop, count, uptime>>
           /\ \/ task' = << >>
              \/ \E s \in Slots : task' = <<Check(s, "tick")>>
           /\ LotsAreCurrent'
  BY <1>1, NoPutLists DEF PutIsSafe, CountMatches, Occupied, Clocks
<1>2. ASSUME NEW s \in Slots, PassItem(c, s) PROVE Tallied'
  <2>1. LotsAreCurrent'
    BY <1>2 DEF PassItem, LotsAreCurrent, TypeOK
  <2>2. QED BY <1>1, <1>2, <2>1 DEF PassItem, CheckIfComplete
<1>3. ASSUME NEW s \in Slots, NEW n \in 1..MaxLot, LotItem(c, s, n) PROVE Tallied'
  <2>1. LotsAreCurrent'
    BY <1>3 DEF LotItem, LotsAreCurrent, TypeOK
  <2>2. QED BY <1>1, <1>3, <2>1 DEF LotItem, CheckIfComplete
<1>4. CASE DelMember(c)
  <2>1. CASE members = {c}
    <3>1. Occupied' = {} /\ count' = 0
      BY <1>4, <2>1 DEF DelMember, Occupied
    <3>2. CountMatches'
      BY <3>1, FS_EmptySet DEF CountMatches
    <3>3. LotsAreCurrent' /\ task' = << >> /\ uptime' = uptime
      BY <1>4, <2>1 DEF DelMember, LotsAreCurrent, Idle
    <3>4. QED BY <3>2, <3>3, NoPutLists DEF PutIsSafe
  <2>2. CASE members # {c}
    <3>1. LotsAreCurrent'
      BY <1>4, <2>2 DEF DelMember, LotsWithout, LotsAreCurrent
    <3>2. QED BY <1>1, <1>4, <2>2, <3>1 DEF DelMember, Idle
  <2>3. QED BY <2>1, <2>2
<1>5. CASE ReloadTreasurePool(c)
  <2>1. LotsAreCurrent'
    BY <1>5 DEF ReloadTreasurePool, LotsWithout, LotsAreCurrent
  <2>2. QED BY <1>1, <1>5, <2>1 DEF ReloadTreasurePool, Idle
<1>6. CASE AddMember(c) \/ ChangeInventory(c)
  <2>1. LotsAreCurrent'
    BY <1>6 DEF AddMember, ChangeInventory, poolVars, LotsAreCurrent
  <2>2. QED BY <1>1, <1>6, <2>1 DEF AddMember, ChangeInventory, poolVars, Idle
<1>7. QED BY <1>2, <1>3, <1>4, <1>5, <1>6 DEF CharNext

(* Tallied is inductive, given TypeOK and Owned.                           *)
LEMMA TalliedAlways ==
  ASSUME WarmStart
  PROVE  Spec => []Tallied
<1>1. Init => Tallied
  <2> SUFFICES ASSUME Init PROVE Tallied
    OBVIOUS
  <2>1. Occupied = {} /\ count = 0
    BY DEF Init, Occupied
  <2>2. QED BY <2>1, FS_EmptySet, NoPutLists
         DEF Init, Tallied, Warm, PutIsSafe, CountMatches, LotsAreCurrent
<1>2. TypeOK /\ Owned /\ Tallied /\ [Next]_vars => Tallied'
  <2> SUFFICES ASSUME TypeOK, Owned, Tallied, [Next]_vars PROVE Tallied'
    OBVIOUS
  <2>1. CASE UNCHANGED vars
    BY <2>1 DEF vars, poolVars, Tallied, Warm, PutIsSafe, CountMatches, Occupied, LotsAreCurrent
  <2>2. QED BY <2>1, RunTallied, PoolTallied, MemberTallied DEF Next
<1>3. QED BY <1>1, <1>2, PoolTypeCorrect, OwnedAlways, PTL DEF Spec

(* CountMatches: m_count is exact, so that checkItems and flush never turn *)
(* away while an item waits, and addItem's result is right.                *)
THEOREM CountIsExact ==
  ASSUME WarmStart
  PROVE  Spec => []CountMatches
<1>1. Tallied => CountMatches
  BY DEF Tallied
<1>2. QED BY <1>1, TalliedAlways, PTL

(* LotsAreCurrent: addItem does not clear Lotters, and need not: the slot  *)
(* it uses was emptied, lots and all, so that no lot is carried over to    *)
(* the next drop.                                                          *)
THEOREM LotsStayWithTheirDrop ==
  ASSUME WarmStart
  PROVE  Spec => []LotsAreCurrent
<1>1. Tallied => LotsAreCurrent
  BY DEF Tallied
<1>2. QED BY <1>1, TalliedAlways, PTL

-----------------------------------------------------------------------------
(* Settling: every step that takes a drop out of its slot follows the      *)
(* rules. The invariants above say what checkTreasureItem can rely on.     *)

(* An empty slot holds no drop.                                            *)
Numbered == \A s \in Slots : item[s] = NoItem => drop[s] = 0

(* Numbered is inductive, given TypeOK and Owned.                          *)
LEMMA NumberedAlways == Spec => []Numbered
<1> USE DEF Numbered
<1>1. Init => Numbered
  BY DEF Init
<1>2. TypeOK /\ Owned /\ Numbered /\ [Next]_vars => Numbered'
  <2> SUFFICES ASSUME TypeOK, Owned, Numbered, [Next]_vars PROVE Numbered'
    OBVIOUS
  <2>1. CASE UNCHANGED <<item, drop>>
    BY <2>1
  <2>2. CASE CheckTreasureItem
    <3>1. PICK s \in Slots : UNCHANGED <<item, drop>> \/ Settle(s)
      BY <2>2, HeadType DEF CheckTreasureItem, Run
    <3>2. UNCHANGED <<item, drop>> \/ ClearSlot(s)
      BY <3>1, SettleClears
    <3>3. QED BY <3>2 DEF ClearSlot, TypeOK
  <2>3. CASE PutItem
    <3>1. Head(task).item \in Items
      BY <2>3, HeadType DEF PutItem, Run
    <3>2. QED BY <2>3, <3>1, ItemsAssumption DEF PutItem, TypeOK
  <2>4. ASSUME NEW c \in Chars, DelMember(c) PROVE Numbered'
    BY <2>4 DEF DelMember
  <2>5. QED BY <2>1, <2>2, <2>3, <2>4
       DEF Next, RunTask, CharNext, SetTick, AddItem, CheckItems, Flush, Tick, PassItem,
           LotItem, AddMember, ReloadTreasurePool, ChangeInventory, vars, poolVars
<1>3. QED BY <1>1, <1>2, PoolTypeCorrect, OwnedAlways, PTL DEF Spec

(* A drop that goes into a slot finds it empty.                            *)
LEMMA PutFindsRoom ==
  ASSUME TypeOK, Tallied, Numbered, PutItem, NEW s \in Slots, drop'[s] # drop[s]
  PROVE  drop[s] = 0
<1>1. Head(task).do = "put" /\ task # << >> /\ drop' = [drop EXCEPT ![Head(task).slot] = drops + 1]
  BY DEF PutItem, Run
<1>2. \E t \in Slots, i \in Items : task = <<Put(t, i)>> /\ item[t] = NoItem
  <2>1. ~NoPut(task)
    <3>1. 1 \in DOMAIN task /\ task[1].do = "put"
      BY <1>1 DEF TypeOK
    <3>2. QED BY <3>1 DEF NoPut
  <2>2. ASSUME NEW t \in Slots, NEW i \in Items, task = <<Check(t, "now"), Put(t, i)>>
        PROVE  FALSE
    BY <1>1, <2>2 DEF Check
  <2>3. QED BY <2>1, <2>2 DEF Tallied, PutIsSafe
<1>3. PICK t \in Slots, i \in Items : task = <<Put(t, i)>> /\ item[t] = NoItem
  BY <1>2
<1>4. Head(task).slot = t
  BY <1>3 DEF Put
<1>5. s = t
  BY <1>1, <1>4 DEF TypeOK
<1>6. QED BY <1>3, <1>5 DEF Numbered

(* Where anyone has lotted there is a highest lot.                         *)
LEMMA HighestExists ==
  ASSUME TypeOK, NEW s \in Slots, {l \in lotters[s] : l.lot # 0} # {}
  PROVE  Highest(s) # {}
<1> DEFINE lots == {l.lot : l \in lotters[s]}
<1>1. \A l \in lotters[s] : l.lot \in 0..MaxLot
  BY DEF TypeOK, LotInfo
<1>2. lots \in SUBSET Nat /\ lots # {} /\ MaxLot \in Nat /\ \A n \in lots : n <= MaxLot
  BY <1>1, SizesAssumption
<1> HIDE DEF lots
<1>3. PICK m \in lots : \A n \in lots : n <= m
  BY <1>2, GreatestExists
<1>4. PICK l \in lotters[s] : l.lot = m
  BY <1>3 DEF lots
<1>5. \A o \in lotters[s] : o.lot <= l.lot
  BY <1>3, <1>4 DEF lots
<1>6. l.lot # 0
  <2>1. PICK o \in lotters[s] : o.lot # 0
    OBVIOUS
  <2>2. QED BY <1>1, <1>5, <2>1
<1>7. QED BY <1>5, <1>6 DEF Highest

(* The winners of a settled slot are entitled to the item.                 *)
LEMMA WinnersEntitled ==
  ASSUME TypeOK, Owned, Tallied, NEW s \in Slots, Settle(s),
         NEW c \in Chars, free'[c] # free[c]
  PROVE  Entitled(c, s)
<1>1. \A d \in Chars : Won(d, s) => d = c
  BY DEF Won, Receive, TypeOK
<1>2. \A d \in Chars : ~(Error(d, s) /\ free' # free) /\ ~(Lost(s) /\ free' # free)
  BY DEF Error, Lost, bagVars
<1>3. /\ \A l \in lotters[s] : l.member \in members /\ l.member \in Chars /\ l.lot \in 0..MaxLot
      /\ \A l \in lotters[s] : l.lot > 0 => l.for = drop[s]
  BY DEF Owned, LottersAreMembers, Tallied, LotsAreCurrent, TypeOK, LotInfo
<1>4. LotsOn(s) = {l \in lotters[s] : l.lot # 0}
  BY <1>3 DEF LotsOn
<1>5. ASSUME NEW l \in Highest(s), Won(l.member, s) PROVE Entitled(c, s)
  <2>1. l \in LotsOn(s) /\ \A o \in LotsOn(s) : o.lot <= l.lot
    BY <1>4 DEF Highest
  <2>2. l.member = c /\ c \in members
    BY <1>1, <1>3, <1>5 DEF Highest
  <2>3. QED BY <2>1, <2>2 DEF Entitled
<1>6. ASSUME Highest(s) = {}, NEW d \in Candidates(s), Won(d, s) PROVE Entitled(c, s)
  <2>1. d = c /\ c \in members /\ ~hasPassedItem(c, s)
    BY <1>1, <1>6 DEF Candidates, TypeOK
  <2>2. LotsOn(s) = {}
    BY <1>4, <1>6, HighestExists
  <2>3. QED BY <2>1, <2>2 DEF Entitled
<1>7. free' # free
  OBVIOUS
<1>8. \A l \in Highest(s) : l.member \in Chars
  BY <1>3 DEF Highest
<1>9. \A d \in Candidates(s) : d \in Chars
  BY DEF Candidates, TypeOK
<1>10. QED BY <1>2, <1>5, <1>6, <1>7, <1>8, <1>9 DEF Settle

(* A slot that is checked is settled only when it is time to.              *)
LEMMA SettlesInTime ==
  ASSUME TypeOK, FullMeansAll, NEW s \in Slots, NEW k \in Clocks, Settles(s, k)
  PROVE  \/ \A c \in members : hasLottedItem(c, s)
         \/ Cardinality(members) = 1
         \/ age[s] + CheckTime + Second > LiveTime
<1>1. CASE Expired(s, k)
  BY <1>1, TimesAssumption DEF Expired, TypeOK, Clocks
<1>2. CASE \E c \in Chars : members = {c}
  BY <1>2, FS_Singleton
<1>3. CASE Cardinality(lotters[s]) = Cardinality(members)
  BY <1>3 DEF FullMeansAll
<1>4. QED BY <1>1, <1>2, <1>3 DEF Settles
(* SettledByTheRules, on a process that has been up for five minutes, for  *)
(* any members, items, slots and lots: a drop that leaves its slot leaves  *)
(* it empty, when everyone has answered, the pool has one member or the    *)
(* drop is old or evicted; and who gets it has the highest lot on it or,   *)
(* where nobody has lotted, has not passed. On a younger process an evicted*)
(* item need not be expired, and addItem overwrites it.                    *)
THEOREM DropsAreSettledByTheRules ==
  ASSUME WarmStart
  PROVE  Spec => SettledByTheRules
<1> DEFINE Rule(s) ==
       /\ drop'[s] = 0
       /\ \/ \A c \in members : hasLottedItem(c, s)
          \/ Cardinality(members) = 1
          \/ age[s] + CheckTime + Second > LiveTime
       /\ \A c \in Chars : free'[c] # free[c] => Entitled(c, s)
<1>1. ASSUME TypeOK, Owned, Tallied, Numbered, FullMeansAll, [Next]_vars,
             NEW s \in Slots, drop[s] # 0, drop'[s] # drop[s], members' # {}
      PROVE  Rule(s)
  <2>1. CASE CheckTreasureItem
    <3> DEFINE t == Head(task).slot
               k == Head(task).clock
    <3>1. t \in Slots /\ k \in Clocks
      BY <1>1, <2>1, HeadType DEF CheckTreasureItem, Run
    <3>2. Settle(t) /\ Settles(t, k)
      BY <1>1, <2>1 DEF CheckTreasureItem
    <3> HIDE DEF t, k
    <3>3. drop' = [drop EXCEPT ![t] = 0]
      BY <1>1, <3>1, <3>2, SettleClears DEF ClearSlot
    <3>4. s = t /\ drop'[s] = 0
      BY <1>1, <3>1, <3>3 DEF TypeOK
    <3>5. \A c \in Chars : free'[c] # free[c] => Entitled(c, s)
      BY <1>1, <3>2, <3>4, WinnersEntitled
    <3>6. \/ \A c \in members : hasLottedItem(c, s)
          \/ Cardinality(members) = 1
          \/ age[s] + CheckTime + Second > LiveTime
      BY <1>1, <3>1, <3>2, <3>4, SettlesInTime
    <3>7. QED BY <3>4, <3>5, <3>6
  <2>2. CASE PutItem
    BY <1>1, <2>2, PutFindsRoom
  <2>3. ASSUME NEW c \in Chars, DelMember(c) PROVE FALSE
    <3>1. members = {c} => members' = {}
      BY <2>3 DEF DelMember
    <3>2. QED BY <1>1, <2>3, <3>1 DEF DelMember
  <2>4. CASE UNCHANGED drop
    BY <1>1, <2>4
  <2>5. QED BY <1>1, <2>1, <2>2, <2>3, <2>4
       DEF Next, RunTask, CharNext, SetTick, AddItem, CheckItems, Flush, Tick, PassItem,
           LotItem, AddMember, ReloadTreasurePool, ChangeInventory, vars, poolVars
<1>2. TypeOK /\ Owned /\ Tallied /\ Numbered /\ FullMeansAll /\ [Next]_vars
      => [\A s \in Slots : drop[s] # 0 /\ drop'[s] # drop[s] /\ members' # {} => Rule(s)]_vars
  BY <1>1
<1>3. QED BY <1>2, PoolTypeCorrect, OwnedAlways, TalliedAlways, NumberedAlways,
             AsManyMeansEveryone, PTL DEF Spec, SettledByTheRules
=============================================================================
