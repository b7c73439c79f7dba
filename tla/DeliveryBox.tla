---------------------------- MODULE DeliveryBox ----------------------------
(***************************************************************************)
(* The delivery box. A parcel is a row of the delivery_box table: first in *)
(* the sender's outgoing box, then, once the sender confirms, also in the  *)
(* queue of the recipient's incoming box, from which the recipient moves   *)
(* it into a cell it can be taken from. The sender's row stays behind as a *)
(* record that it was sent and, later, received. Characters may be on      *)
(* different maps; each map shows a character its cells from a copy in     *)
(* memory (UContainer), and only the table is shared.                      *)
(*                                                                         *)
(* A handler is one step, except SendNewItems: it reads the head of the    *)
(* queue and then writes by the slot it read, and the table may change     *)
(* between the two, since a consistent read takes no lock.                 *)
(*                                                                         *)
(* A request names a box and a cell, and its validation lets both boxes    *)
(* and one cell more than a box has through, whatever window is open. The  *)
(* history variables raced, strayed and orphaned, which no guard reads,    *)
(* tell the properties when that, or the read without a lock, was used.    *)
(*                                                                         *)
(* Rows are matched by itemid and quantity only. Kind[i] stands for that   *)
(* pair: two items of one kind may still differ in their extra data.       *)
(***************************************************************************)
EXTENDS Naturals, FiniteSets, FiniteSetsExt, Counting

CONSTANTS
    Chars,      \* characters
    Items,      \* parcels; Gil among them is one unit of currency
    Gil,
    Kind,       \* [Items -> kinds]: what itemid and quantity tell apart
    Rare,       \* kinds of which a character may have one only
    Owned,      \* [Chars -> [Items -> Nat]]: what everybody has at first
    Cells,      \* cells of a box; slots of box 1 from Cells on are the queue
    BagSize,    \* slots of an inventory, that of the gil not counted
    GilCap,     \* stack size of gil
    System,     \* sender of what the auction house and the scripts send
    Stock,      \* [Items -> Nat]: what System may send
    Empty, NoRead,
    MaxMails    \* bound: parcels that enter a queue

ASSUME BoxAssumption ==
    /\ IsFiniteSet(Chars) /\ IsFiniteSet(Items) /\ System \notin Chars
    /\ Owned \in [Chars -> [Items -> Nat]] /\ Stock \in [Items -> Nat]
    /\ Cells \in Nat \ {0} /\ BagSize \in Nat /\ GilCap \in Nat
    /\ MaxMails \in Nat

VARIABLES
    rows,     \* the table delivery_box
    bag,      \* char_inventory: copies of every item in LOC_INVENTORY
    stock,    \* what System has not sent yet
    thrown,   \* what players threw away
    open,     \* type of the character's UContainer
    view,     \* cells of the UContainer
    reading,  \* the SendNewItems a character's map is in
    mails,    \* parcels that entered a queue
    orphaned, \* history: unsent parcels deleted as orphans of sent ones
    raced,    \* history: whose SendNewItems read a row that then was gone
    strayed   \* history: who named another box than the open one, or had a
              \* parcel moved to the cell that no box has

itemVars == <<rows, bag, stock, thrown>>
history == <<orphaned, raced, strayed>>
vars == <<itemVars, open, view, reading, mails, history>>

(* Cells that a request may name; the last of them is not a cell of a box  *)
(* but the first slot of the queue, if the box is the incoming one.        *)
Cell == 0..Cells
Kinds == {Kind[i] : i \in Items}

(* Box 1 holds what came in, box 2 what goes out; peer is senderid: the    *)
(* sender in box 1, the recipient in box 2.                                *)
Row == [own : Chars, box : {1, 2}, slot : 0..(Cells + MaxMails), item : Items,
        peer : Chars \cup {System}, sent : BOOLEAN, received : BOOLEAN]
(* A copy in a cell; to is its receiver.                                   *)
Shown == [item : Items, to : Chars, sent : BOOLEAN]

In(c)    == {r \in rows : r.own = c /\ r.box = 1}
Out(c)   == {r \in rows : r.own = c /\ r.box = 2}
Box(c, b) == IF b = 1 THEN In(c) ELSE Out(c)
Queue(c) == {r \in In(c) : r.slot >= Cells}
At(box, s) == {r \in box : r.slot = s}
(* The primary key of the table.                                           *)
Unique(table) ==
    \A r, x \in table : r.own = x.own /\ r.box = x.box /\ r.slot = x.slot => r = x
First(queue) == CHOOSE r \in queue : \A x \in queue : r.slot <= x.slot

(* What a statement with LIMIT 1 and no order works on.                    *)
LimitOne(some) == IF some = {} THEN {{}} ELSE {{r} : r \in some}

(* The trigger delivery_box_insert: the slot of a row that enters box 1.   *)
NextSlot(c) == Max({Cells - 1} \cup {r.slot : r \in In(c)}) + 1

Incoming(c, i, from) ==
    [own |-> c, box |-> 1, slot |-> NextSlot(c), item |-> i, peer |-> from,
     sent |-> FALSE, received |-> FALSE]
Mailed == mails < MaxMails /\ mails' = mails + 1

Less(f, i) == [f EXCEPT ![i] = @ - 1]
More(f, i) == [f EXCEPT ![i] = @ + 1]

FreeSlots(c) == BagSize > Tally(bag[c], Items \ {Gil})

NoCells == [s \in Cell |-> Empty]
Put(c, s, v) == view' = [view EXCEPT ![c][s] = v]

Init ==
    /\ rows = {}
    /\ bag = Owned
    /\ stock = Stock
    /\ thrown = [i \in Items |-> 0]
    /\ open = [c \in Chars |-> "none"]
    /\ view = [c \in Chars |-> NoCells]
    /\ reading = [c \in Chars |-> NoRead]
    /\ mails = 0
    /\ orphaned = [i \in Items |-> 0]
    /\ raced = {} /\ strayed = {}

(* A map is in one handler of a character at a time.                       *)
Free(c) == reading[c] = NoRead

(* Whether b is the box of the open window.                                *)
OpenIs(c, b) == open[c] = IF b = 1 THEN "recv" ELSE "send"
Strays(c, does) == strayed' = IF does THEN strayed \cup {c} ELSE strayed

-----------------------------------------------------------------------------
(* Mutant: the cells of the box opened before are kept.                    *)
OpenBoxKeeps(c, which) ==
    /\ Free(c)
    /\ open' = [open EXCEPT ![c] = which]
    /\ UNCHANGED <<itemVars, view, reading, mails, history>>

(* OpenSendBox, OpenRecvBox: Clean, then SetType.                          *)
OpenBox(c, which) ==
    /\ Free(c)
    /\ open' = [open EXCEPT ![c] = which]
    /\ view' = [view EXCEPT ![c] = NoCells]
    /\ UNCHANGED <<itemVars, reading, mails, history>>

CloseMailWindow(c) ==
    /\ Free(c) /\ open[c] # "none"
    /\ open' = [open EXCEPT ![c] = "none"]
    /\ view' = [view EXCEPT ![c] = NoCells]
    /\ UNCHANGED <<itemVars, reading, mails, history>>

(* The client asks for the cells of a box: they are loaded into the window *)
(* that is open, whichever it is. A cell without a row keeps what it shows.*)
SendOldItems(c, b) ==
    /\ Free(c) /\ open[c] # "none"
    /\ view' = [view EXCEPT ![c] = [s \in Cell |->
           IF s = Cells \/ At(Box(c, b), s) = {} THEN @[s]
           ELSE LET r == First(At(Box(c, b), s))
                IN [item |-> r.item, to |-> IF b = 1 THEN c ELSE r.peer, sent |-> r.sent]]]
    /\ Strays(c, ~OpenIs(c, b))
    /\ UNCHANGED <<itemVars, open, reading, mails, orphaned, raced>>

-----------------------------------------------------------------------------
(* AddItemsToBeSent: the row, then the inventory. The insert fails if the  *)
(* slot has a row that the cell does not show.                             *)
AddItemsToBeSent(c, i, s, to) ==
    /\ Free(c) /\ open[c] = "send"
    /\ bag[c][i] > 0
    /\ view[c][s] = Empty
    /\ At(Out(c), s) = {}
    /\ rows' = rows \cup {[own |-> c, box |-> 2, slot |-> s, item |-> i, peer |-> to,
                           sent |-> FALSE, received |-> FALSE]}
    /\ bag' = [bag EXCEPT ![c] = Less(@, i)]
    /\ Put(c, s, [item |-> i, to |-> to, sent |-> FALSE])
    /\ UNCHANGED <<stock, thrown, open, reading, mails, history>>

(* SendConfirmation: one transaction marks the record as sent and puts the *)
(* parcel into the recipient's queue.                                      *)
SendConfirmation(c, s) ==
    /\ Free(c) /\ open[c] = "send"
    /\ view[c][s] # Empty /\ ~view[c][s].sent /\ Mailed
    /\ LET v == view[c][s] IN
       /\ \E r \in At(Out(c), s) :
             /\ r.peer = v.to /\ ~r.sent
             /\ rows' = (rows \ {r}) \cup {[r EXCEPT !.sent = TRUE], Incoming(v.to, v.item, c)}
       /\ Put(c, s, [v EXCEPT !.sent = TRUE])
    /\ UNCHANGED <<bag, stock, thrown, open, reading, history>>

(* Rows of the recipient's queue that CancelSendingItem may delete.        *)
Withdrawable(c, v) ==
    {q \in Queue(v.to) : q.peer = c /\ Kind[q.item] = Kind[v.item]}

(* The transaction of CancelSendingItem: the record is unsent again and    *)
(* one queued row is deleted, if there is one: what is tested afterwards   *)
(* is that the record was changed, not that a row was deleted.             *)
CancelCommits(c, s) ==
    /\ \E r \in At(Out(c), s), gone \in LimitOne(Withdrawable(c, view[c][s])) :
          /\ r.sent /\ ~r.received
          /\ rows' = (rows \ ({r} \cup gone)) \cup {[r EXCEPT !.sent = FALSE]}
          /\ Put(c, s, [view[c][s] EXCEPT !.sent = FALSE])
    /\ UNCHANGED orphaned

(* The transaction was rolled back: the parcel was never sent, the         *)
(* recipient has it, or the database gave it up. What is in the slot is    *)
(* deleted as an orphan; the cell keeps what it shows.                     *)
CancelFails(c, s) ==
    /\ \E r \in At(Out(c), s) :
          /\ Kind[r.item] = Kind[view[c][s].item]
          /\ rows' = rows \ {r}
          /\ orphaned' = IF r.sent THEN orphaned ELSE More(orphaned, r.item)
    /\ UNCHANGED view

CancelSendingItem(c, s) ==
    /\ Free(c) /\ open[c] = "send"
    /\ view[c][s] # Empty
    /\ CancelCommits(c, s) \/ CancelFails(c, s)
    /\ UNCHANGED <<bag, stock, thrown, open, reading, mails, raced, strayed>>

(* RemoveDeliveredItemFromSendingBox: the first record marked as received. *)
RemoveDelivered(c) ==
    /\ Free(c) /\ open[c] = "send"
    /\ LET done == {r \in Out(c) : r.received} IN
       /\ done # {}
       /\ LET r == First(done) IN
          /\ view[c][r.slot] # Empty /\ view[c][r.slot].sent
          /\ rows' = rows \ {r}
          /\ Put(c, r.slot, Empty)
    /\ UNCHANGED <<bag, stock, thrown, open, reading, mails, history>>

-----------------------------------------------------------------------------
(* SendNewItems: the parcel at the head of the queue is read...            *)
SendNewItems(c, s) ==
    /\ Free(c) /\ open[c] = "recv"
    /\ Queue(c) # {}
    /\ view[c][s] = Empty
    /\ reading' = [reading EXCEPT ![c] = [cell |-> s, row |-> First(Queue(c))]]
    /\ UNCHANGED <<itemVars, open, view, mails, history>>

(* Records of the sender that tell of a parcel like the one received.      *)
Records(c, q) ==
    {r \in Out(q.peer) :
        r.peer = c /\ r.sent /\ ~r.received /\ Kind[r.item] = Kind[q.item]}

(* Mutant: the sender's record is left as it is.                           *)
MarkNothing(table, some) == table

MarkReceived(table, some) ==
    (table \ some) \cup {[r EXCEPT !.received = TRUE] : r \in some}

(* Mutant: the cells are moved along with the queue.                       *)
MoveUpAll(table, c, q, s) ==
    {IF r.own # c \/ r.box # 1 THEN r
     ELSE [r EXCEPT !.slot = IF r.slot = q THEN s ELSE r.slot - 1] : r \in table}

(* The row in slot q moves to cell s, the rows behind it one slot forward. *)
MoveUp(table, c, q, s) ==
    {IF r.own # c \/ r.box # 1 \/ r.slot < q THEN r
     ELSE [r EXCEPT !.slot = IF r.slot = q THEN s ELSE r.slot - 1] : r \in table}

(* A row is where the row in slot q, or the one behind it, is to go.       *)
InTheWay(c, q, s) ==
    At(In(c), q) # {} /\ At(In(c), IF s = q THEN q + 1 ELSE s) # {}

(* ... and the table changed: the sender's record, if there is one, is     *)
(* marked as received; the row in the slot that was read moves to the      *)
(* cell. The transaction is rolled back if a row is in the way.            *)
Received(c) ==
    /\ reading[c] # NoRead
    /\ LET q == reading[c].row
           s == reading[c].cell
       IN /\ \/ /\ ~InTheWay(c, q.slot, s)
                /\ \E told \in LimitOne(Records(c, q)) :
                      rows' = MoveUp(MarkReceived(rows, told), c, q.slot, s)
                /\ Put(c, s, [item |-> q.item, to |-> c, sent |-> FALSE])
             \/ InTheWay(c, q.slot, s) /\ UNCHANGED <<rows, view>>
          /\ raced' = IF q \in rows THEN raced ELSE raced \cup {c}
          /\ Strays(c, s = Cells)
    /\ reading' = [reading EXCEPT ![c] = NoRead]
    /\ UNCHANGED <<bag, stock, thrown, open, mails, orphaned>>

(* ReturnToSender: what the cell shows goes to the sender the row names.   *)
ReturnToSender(c, s) ==
    /\ Free(c) /\ open[c] = "recv"
    /\ view[c][s] # Empty /\ Mailed
    /\ \E r \in At(In(c), s) :
          /\ r.peer # System
          /\ rows' = (rows \cup {Incoming(r.peer, view[c][s].item, c)}) \ {r}
    /\ Put(c, s, Empty)
    /\ UNCHANGED <<bag, stock, thrown, open, reading, history>>

(* charutils::AddItem. Gil is added by UpdateItem, whose refusal of more   *)
(* than a stack AddItem does not look at.                                  *)
CanAdd(c, i) ==
    \/ i = Gil
    \/ /\ FreeSlots(c)
       /\ Kind[i] \in Rare => \A j \in Items : Kind[j] = Kind[i] => bag[c][j] = 0
AddItem(c, i) ==
    IF i = Gil /\ bag[c][Gil] >= GilCap THEN bag[c] ELSE More(bag[c], i)

(* Mutant: a record of what was sent is taken like an unsent item.         *)
TakeAnyItem(c, b, s) ==
    /\ Free(c) /\ open[c] # "none"
    /\ view[c][s] # Empty
    /\ CanAdd(c, view[c][s].item)
    /\ \E r \in At(Box(c, b), s) :
          rows' = rows \ {r}
    /\ bag' = [bag EXCEPT ![c] = AddItem(c, view[c][s].item)]
    /\ Put(c, s, Empty)
    /\ Strays(c, ~OpenIs(c, b))
    /\ UNCHANGED <<stock, thrown, open, reading, mails, orphaned, raced>>

(* TakeItemFromCell: the row in the box that the request names is deleted  *)
(* and what the cell shows is added to the inventory, in one transaction.  *)
(* Of box 2 only what is unsent.                                           *)
TakeItemFromCell(c, b, s) ==
    /\ Free(c) /\ open[c] # "none"
    /\ view[c][s] # Empty
    /\ CanAdd(c, view[c][s].item)
    /\ \E r \in At(Box(c, b), s) :
          (b = 2 => ~r.sent) /\ rows' = rows \ {r}
    /\ bag' = [bag EXCEPT ![c] = AddItem(c, view[c][s].item)]
    /\ Put(c, s, Empty)
    /\ Strays(c, ~OpenIs(c, b))
    /\ UNCHANGED <<stock, thrown, open, reading, mails, orphaned, raced>>

(* RemoveItemFromCell: the player throws the parcel away.                  *)
RemoveItemFromCell(c, s) ==
    /\ Free(c) /\ open[c] = "recv"
    /\ view[c][s] # Empty
    /\ \E r \in At(In(c), s) :
          /\ rows' = rows \ {r}
          /\ thrown' = More(thrown, r.item)
    /\ Put(c, s, Empty)
    /\ UNCHANGED <<bag, stock, open, reading, mails, history>>

-----------------------------------------------------------------------------
(* The auction house pays, or a script sends (SendItemToDeliveryBox, which *)
(* names the recipient itself as the sender).                              *)
SystemMail(c, i, from) ==
    /\ stock[i] > 0 /\ Mailed
    /\ rows' = rows \cup {Incoming(c, i, from)}
    /\ stock' = Less(stock, i)
    /\ UNCHANGED <<bag, thrown, open, view, reading, history>>

Next ==
    \E c \in Chars :
       \/ \E which \in {"send", "recv"} : OpenBox(c, which)
       \/ CloseMailWindow(c)
       \/ \E b \in {1, 2} : SendOldItems(c, b)
       \/ \E s \in Cell, i \in Items, to \in Chars : AddItemsToBeSent(c, i, s, to)
       \/ \E s \in Cell : SendConfirmation(c, s)
       \/ \E s \in Cell : CancelSendingItem(c, s)
       \/ RemoveDelivered(c)
       \/ \E s \in Cell : SendNewItems(c, s)
       \/ Received(c)
       \/ \E s \in Cell : ReturnToSender(c, s)
       \/ \E s \in Cell, b \in {1, 2} : TakeItemFromCell(c, b, s)
       \/ \E s \in Cell : RemoveItemFromCell(c, s)
       \/ \E i \in Items, from \in {System, c} : SystemMail(c, i, from)

Spec == Init /\ [][Next]_vars

-----------------------------------------------------------------------------
(* Types; a box never has two rows in one slot.                            *)
TypeOK ==
    /\ rows \subseteq Row
    /\ Unique(rows)
    /\ bag \in [Chars -> [Items -> Nat]]
    /\ stock \in [Items -> Nat] /\ thrown \in [Items -> Nat] /\ orphaned \in [Items -> Nat]
    /\ raced \subseteq Chars /\ strayed \subseteq Chars
    /\ open \in [Chars -> {"none", "send", "recv"}]
    /\ view \in [Chars -> [Cell -> Shown \cup {Empty}]]
    /\ reading \in [Chars -> [cell : Cell, row : Row] \cup {NoRead}]
    /\ mails \in 0..MaxMails

(* A row that is the item itself and not the record of one that was sent.  *)
Holds(r) == r.box = 1 \/ ~r.sent

OfKind(k) == {i \in Items : Kind[i] = k}
Copies(f, k) == Tally(f, OfKind(k))
Everyones(f, k) == Tally([c \in Chars |-> Copies(f[c], k)], Chars)
Held(k) == {r \in rows : Holds(r) /\ Kind[r.item] = k}

Count(k) ==
    Copies(stock, k) + Copies(thrown, k) + Copies(orphaned, k) + Everyones(bag, k)
        + Cardinality(Held(k))
Initially(k) == Copies(Stock, k) + Everyones(Owned, k)

(* Nothing is lost or doubled on its way through the boxes: of every kind  *)
(* there are always as many in inventories, cells, queues and unsent in    *)
(* outgoing boxes as there were at first, whoever cancels, receives,       *)
(* returns or takes in whatever order, with whatever comes between the two *)
(* halves of SendNewItems, and whichever transaction fails. What is lost   *)
(* is what was thrown away and what a cancel deleted unsent. From the      *)
(* first read that was overtaken by a change of the row, or the first      *)
(* request that strayed, on nothing is claimed: both do lose parcels.      *)
KindConserved ==
    raced = {} /\ strayed = {} => \A k \in Kinds : Count(k) = Initially(k)

(* A cell of an open window shows the item of the row in its slot, if      *)
(* there is one, and an outgoing cell shows whether it was sent:           *)
(* TakeItemFromCell and ReturnToSender delete the row but give away what   *)
(* the cell shows.                                                         *)
CellsMatch(c) ==
    \A s \in Cell :
       LET box == IF open[c] = "send" THEN Out(c) ELSE In(c) IN
       open[c] # "none" /\ view[c][s] # Empty =>
          \A r \in At(box, s) :
             /\ r.item = view[c][s].item
             /\ open[c] = "send" => r.sent = view[c][s].sent

(* A player's cells match the table whatever others do, also others whose  *)
(* own requests strayed or whose reads were overtaken, until a request of  *)
(* this player strays or a read of this player's queue is overtaken.       *)
ShownIsHeld == \A c \in Chars : c \notin raced \cup strayed => CellsMatch(c)

(* Records a sender may still cancel, and what the queue has of them.      *)
Pending(c, d, k) ==
    {r \in Out(c) : r.peer = d /\ r.sent /\ ~r.received /\ Kind[r.item] = k}
Queued(c, d, k) == {q \in Queue(d) : q.peer = c /\ Kind[q.item] = k}

(* Whatever a sender may still cancel is still in the recipient's queue:   *)
(* of every kind there are at least as many parcels of the sender in the   *)
(* queue as records that are sent and not received, until a request of one *)
(* of the two strays or a read of the recipient's queue is overtaken.      *)
(* CancelSendingItem tests the wrong result set and would otherwise give   *)
(* back an item that the recipient keeps.                                  *)
SentIsQueued ==
    \A c, d \in Chars, k \in Kinds :
       c \notin strayed /\ d \notin raced \cup strayed =>
          Cardinality(Pending(c, d, k)) <= Cardinality(Queued(c, d, k))

(* What SendNewItems puts into a cell is the parcel that it moved there:   *)
(* the claim its transaction makes, which holds no lock on what it read.   *)
ReceivedIsShown == \A c \in Chars : c \notin strayed => CellsMatch(c)
============================================================================
