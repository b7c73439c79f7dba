------------------------- MODULE DeliveryBoxProofs -------------------------
(***************************************************************************)
(* What the delivery boxes keep, for any number of characters, items,      *)
(* cells and parcels. Boxed is the inductive invariant behind the types:   *)
(* where rows may be (PlacedIn) and what a map that reads the head of the  *)
(* queue holds (ReadsQueue).                                               *)
(***************************************************************************)
EXTENDS DeliveryBox, CountingProofs

(* What SendNewItems read was a row of the own queue.                      *)
ReadsQueue ==
    \A c \in Chars : reading[c] # NoRead =>
       reading[c].row.own = c /\ reading[c].row.box = 1 /\ reading[c].row.slot >= Cells

(* What the invariant says of the table alone: slots of incoming rows are  *)
(* those given out; outgoing rows are in cells, for characters, and        *)
(* received only once sent.                                                *)
PlacedIn(table, n) ==
    /\ table \subseteq Row /\ Unique(table)
    /\ \A r \in table :
          /\ r.box = 1 => r.slot < Cells + n
          /\ r.box = 2 => r.slot \in Cell /\ r.peer \in Chars /\ (r.received => r.sent)

(* What it says of the rest.                                               *)
RestOK ==
    /\ bag \in [Chars -> [Items -> Nat]]
    /\ stock \in [Items -> Nat] /\ thrown \in [Items -> Nat]
    /\ open \in [Chars -> {"none", "send", "recv"}]
    /\ view \in [Chars -> [Cell -> Shown \cup {Empty}]]
    /\ reading \in [Chars -> [cell : Cell, row : Row] \cup {NoRead}]
    /\ mails \in 0..MaxMails

Boxed == PlacedIn(rows, mails) /\ RestOK /\ ReadsQueue

LEMMA BoxedParts == Boxed <=> PlacedIn(rows, mails) /\ RestOK /\ ReadsQueue
BY DEF Boxed

LEMMA BoxedPartsNext == Boxed' <=> PlacedIn(rows', mails') /\ RestOK' /\ ReadsQueue'
BY DEF Boxed, PlacedIn, Unique

LEMMA Sizes == Cells \in Nat /\ Cells > 0 /\ MaxMails \in Nat /\ Cell = 0..Cells
BY BoxAssumption DEF Cell

LEMMA RowFields ==
    ASSUME NEW r \in Row
    PROVE  /\ r.own \in Chars /\ r.box \in {1, 2} /\ r.slot \in Nat /\ r.slot <= Cells + MaxMails
           /\ r.item \in Items /\ r.peer \in Chars \cup {System}
           /\ r.sent \in BOOLEAN /\ r.received \in BOOLEAN
<1>1. r.slot \in 0..(Cells + MaxMails)
  BY DEF Row
<1>2. r.slot \in Nat /\ r.slot <= Cells + MaxMails
  BY <1>1, Sizes
<1>3. QED BY <1>2 DEF Row

(* The trigger's slot is behind all others and was never given before.     *)
LEMMA NextSlotFresh ==
    ASSUME NEW n \in 0..MaxMails, PlacedIn(rows, n), NEW c \in Chars
    PROVE  /\ NextSlot(c) \in Nat /\ NextSlot(c) >= Cells /\ NextSlot(c) <= Cells + n
           /\ \A r \in In(c) : r.slot < NextSlot(c)
<1> DEFINE S == {Cells - 1} \cup {r.slot : r \in In(c)}
<1>1. \A r \in In(c) : r.slot \in Nat /\ r.slot < Cells + n
  BY RowFields DEF In, PlacedIn
<1>2. Cells \in Nat /\ Cells - 1 \in Nat /\ n \in Nat /\ Cells + n \in Nat
  BY Sizes
<1>3. S \in SUBSET Nat /\ S # {} /\ \A m \in S : m <= Cells + n - 1
  BY <1>1, <1>2
<1>4. Cells + n - 1 \in Nat
  BY Sizes
<1>5. Cells - 1 \in S /\ \A r \in In(c) : r.slot \in S
  OBVIOUS
<1>6. NextSlot(c) = Max(S) + 1
  BY DEF NextSlot
<1> HIDE DEF S
<1>7. \E m \in S : \A k \in S : k <= m
  BY <1>3, <1>4, GreatestExists
<1>8. \E m \in S : \A k \in S : m >= k
  <2>1. PICK m \in S : \A k \in S : k <= m
    BY <1>7
  <2>2. \A k \in S : m >= k
    BY <1>3, <2>1
  <2>3. QED BY <2>2
<1>9. Max(S) \in S /\ \A k \in S : Max(S) >= k
  BY <1>8 DEF Max
<1> DEFINE m == Max(S)
<1>10. m \in Nat /\ m >= Cells - 1 /\ m <= Cells + n - 1 /\ \A r \in In(c) : m >= r.slot
  BY <1>3, <1>5, <1>9
<1>11. NextSlot(c) = m + 1
  BY <1>6
<1> HIDE DEF m
<1>12. QED BY <1>1, <1>2, <1>10, <1>11

(* The head of a box.                                                      *)
LEMMA FirstExists ==
    ASSUME NEW some \in SUBSET Row, some # {}
    PROVE  First(some) \in some /\ \A x \in some : First(some).slot <= x.slot
<1> DEFINE S == {r.slot : r \in some}
<1>1. S \in SUBSET Nat /\ S # {}
  BY RowFields
<1>2. PICK m \in S : \A n \in S : m <= n
  <2> HIDE DEF S
  <2>1. QED BY <1>1, SmallestExists
<1>3. PICK r \in some : r.slot = m
  BY <1>2
<1>4. \A x \in some : r.slot <= x.slot
  BY <1>2, <1>3
<1>5. QED BY <1>4 DEF First

-----------------------------------------------------------------------------
(* Rows go.                                                                *)
LEMMA PlacedFewer ==
    ASSUME NEW S, NEW n, PlacedIn(S, n), NEW T \in SUBSET S
    PROVE  PlacedIn(T, n)
BY DEF PlacedIn, Unique

(* A row comes to a free slot.                                             *)
LEMMA PlacedMore ==
    ASSUME NEW S, NEW n, PlacedIn(S, n), NEW new \in Row,
           new.box = 1 => new.slot < Cells + n,
           new.box = 2 => new.slot \in Cell /\ new.peer \in Chars /\ (new.received => new.sent),
           \A r \in S : r.own = new.own /\ r.box = new.box => r.slot # new.slot
    PROVE  PlacedIn(S \cup {new}, n)
BY DEF PlacedIn, Unique

(* More may be mailed.                                                     *)
LEMMA PlacedLater ==
    ASSUME NEW S, NEW n \in Nat, PlacedIn(S, n)
    PROVE  PlacedIn(S, n + 1)
<1>1. \A r \in S : r.box = 1 => r.slot < Cells + (n + 1)
  BY RowFields, Sizes DEF PlacedIn
<1>2. QED BY <1>1 DEF PlacedIn

(* A parcel enters a queue.                                                *)
LEMMA PlacedIncoming ==
    ASSUME Boxed, mails < MaxMails, NEW c \in Chars, NEW i \in Items, NEW from \in Chars \cup {System}
    PROVE  /\ Incoming(c, i, from) \in Row
           /\ Incoming(c, i, from).own = c /\ Incoming(c, i, from).box = 1
           /\ Incoming(c, i, from).slot = NextSlot(c) /\ NextSlot(c) \in Nat /\ NextSlot(c) >= Cells
           /\ Incoming(c, i, from).item = i /\ Incoming(c, i, from).peer = from
           /\ \A r \in In(c) : r.slot < NextSlot(c)
           /\ \A S : PlacedIn(S, mails) /\ (\A r \in S : r.own = c /\ r.box = 1 => r.slot < NextSlot(c))
                       => PlacedIn(S \cup {Incoming(c, i, from)}, mails + 1)
<1> DEFINE new == Incoming(c, i, from)
<1>1. PlacedIn(rows, mails) /\ mails \in 0..MaxMails /\ mails \in Nat
  BY BoxedParts DEF RestOK
<1>2. /\ NextSlot(c) \in Nat /\ NextSlot(c) >= Cells /\ NextSlot(c) <= Cells + mails
      /\ \A r \in In(c) : r.slot < NextSlot(c)
  BY <1>1, NextSlotFresh
<1>3. NextSlot(c) \in 0..(Cells + MaxMails) /\ NextSlot(c) < Cells + (mails + 1)
  BY <1>1, <1>2, Sizes
<1>4. /\ new \in Row /\ new.own = c /\ new.box = 1 /\ new.slot = NextSlot(c)
      /\ new.item = i /\ new.peer = from
  BY <1>3 DEF Incoming, Row
<1> HIDE DEF new
<1>5. ASSUME NEW S, PlacedIn(S, mails), \A r \in S : r.own = c /\ r.box = 1 => r.slot < NextSlot(c)
      PROVE  PlacedIn(S \cup {new}, mails + 1)
  <2>1. PlacedIn(S, mails + 1)
    BY <1>1, <1>5, PlacedLater
  <2>2. \A r \in S : r.slot \in Nat
    BY <1>5, RowFields DEF PlacedIn
  <2>3. \A r \in S : r.own = new.own /\ r.box = new.box => r.slot # new.slot
    BY <1>2, <1>4, <1>5, <2>2
  <2>4. QED BY <1>3, <1>4, <2>1, <2>3, PlacedMore
<1>6. QED BY <1>2, <1>4, <1>5 DEF new

(* A row gives way to one in its place.                                    *)
LEMMA PlacedInstead ==
    ASSUME NEW S, NEW n, PlacedIn(S, n), NEW r \in S, NEW new \in Row,
           new.own = r.own, new.box = r.box, new.slot = r.slot, new.peer = r.peer,
           new.box = 2 => (new.received => new.sent)
    PROVE  PlacedIn((S \ {r}) \cup {new}, n)
<1>1. PlacedIn(S \ {r}, n)
  BY PlacedFewer
<1>2. \A x \in S \ {r} : x.own = new.own /\ x.box = new.box => x.slot # new.slot
  BY DEF PlacedIn, Unique
<1>3. new.box = 1 => new.slot < Cells + n
  BY DEF PlacedIn
<1>4. new.box = 2 => new.slot \in Cell /\ new.peer \in Chars /\ (new.received => new.sent)
  BY DEF PlacedIn
<1>5. QED BY <1>1, <1>2, <1>3, <1>4, PlacedMore

-----------------------------------------------------------------------------
(* What MarkReceived and MoveUp make of one row.                           *)
Mark(r, told) == IF r \in told THEN [r EXCEPT !.received = TRUE] ELSE r
Move(r, c, q, s) ==
    IF r.own # c \/ r.box # 1 \/ r.slot < q THEN r
    ELSE [r EXCEPT !.slot = IF r.slot = q THEN s ELSE r.slot - 1]
MovedTo(r, c, q, s) ==
    IF r.own # c \/ r.box # 1 \/ r.slot < q THEN r.slot
    ELSE IF r.slot = q THEN s ELSE r.slot - 1
Turned(r, told, c, q, s) == Move(Mark(r, told), c, q, s)
Way(q, s) == IF s = q THEN q + 1 ELSE s

LEMMA ReceivedRows ==
    ASSUME NEW told \in SUBSET rows, NEW c, NEW q, NEW s
    PROVE  MoveUp(MarkReceived(rows, told), c, q, s) = {Turned(r, told, c, q, s) : r \in rows}
<1>1. MarkReceived(rows, told) = {Mark(r, told) : r \in rows}
  BY DEF MarkReceived, Mark
<1>2. \A table : MoveUp(table, c, q, s) = {Move(r, c, q, s) : r \in table}
  BY DEF MoveUp, Move
<1>3. QED BY <1>1, <1>2 DEF Turned

(* Nothing of a row changes but its slot and its mark.                     *)
LEMMA TurnedFields ==
    ASSUME NEW r \in Row, NEW told, NEW c, NEW q \in Nat, q >= Cells, q <= Cells + MaxMails, NEW s \in Cell
    PROVE  LET t == Turned(r, told, c, q, s)
           IN /\ t \in Row /\ t.own = r.own /\ t.box = r.box /\ t.item = r.item
              /\ t.peer = r.peer /\ t.sent = r.sent
              /\ t.received = (r.received \/ r \in told)
              /\ t.slot = MovedTo(r, c, q, s)
<1> DEFINE m == Mark(r, told)
<1>1. /\ m \in Row /\ m.own = r.own /\ m.box = r.box /\ m.item = r.item /\ m.slot = r.slot
      /\ m.peer = r.peer /\ m.sent = r.sent
  BY DEF Mark, Row
<1>2. m.received = (r.received \/ r \in told)
  <2>1. r.received \in BOOLEAN
    BY RowFields
  <2>2. CASE r \in told
    BY <2>2 DEF Mark, Row
  <2>3. CASE r \notin told
    <3>1. m = r
      BY <2>3 DEF Mark
    <3> HIDE DEF m
    <3>2. QED BY <2>1, <2>3, <3>1
  <2>4. QED BY <2>2, <2>3
<1> HIDE DEF m
<1>3. /\ r.slot \in Nat /\ r.slot <= Cells + MaxMails /\ s \in Nat /\ s <= Cells /\ Cells \in Nat
      /\ MaxMails \in Nat
  BY RowFields, Sizes
<1>4. MovedTo(r, c, q, s) \in 0..(Cells + MaxMails)
  BY <1>3 DEF MovedTo
<1> DEFINE t == Move(m, c, q, s)
<1>5. t = [m EXCEPT !.slot = MovedTo(r, c, q, s)]
  <2>1. m = [m EXCEPT !.slot = m.slot]
    BY <1>1 DEF Row
  <2>2. QED BY <1>1, <2>1 DEF Move, MovedTo
<1>6. /\ t \in Row /\ t.own = m.own /\ t.box = m.box /\ t.item = m.item /\ t.peer = m.peer
      /\ t.sent = m.sent /\ t.received = m.received /\ t.slot = MovedTo(r, c, q, s)
  BY <1>1, <1>4, <1>5 DEF Row
<1>7. t = Turned(r, told, c, q, s)
  BY DEF Turned, m
<1> HIDE DEF t
<1>8. QED BY <1>1, <1>2, <1>6, <1>7

(* Slots that were apart stay apart if no row is in the way.               *)
LEMMA MovedApart ==
    ASSUME NEW r \in Row, NEW x \in Row, NEW c, NEW q \in Nat, q >= Cells, q <= Cells + MaxMails, NEW s \in Cell,
           r.own = x.own, r.box = x.box, r.slot # x.slot,
           r.own = c /\ r.box = 1 => ~(r.slot = q /\ x.slot = Way(q, s)) /\ ~(x.slot = q /\ r.slot = Way(q, s))
    PROVE  MovedTo(r, c, q, s) # MovedTo(x, c, q, s)
<1>1. r.slot \in Nat /\ x.slot \in Nat /\ s \in Nat /\ s <= Cells /\ Cells \in Nat
  BY RowFields, Sizes
<1>2. QED BY <1>1 DEF MovedTo, Way

(* The table after a parcel was received.                                  *)
LEMMA PlacedReceived ==
    ASSUME Boxed, NEW c \in Chars, NEW q \in Nat, q >= Cells, q <= Cells + MaxMails, NEW s \in Cell,
           ~InTheWay(c, q, s), NEW told \in SUBSET rows, \A r \in told : r.sent /\ r.box = 2
    PROVE  PlacedIn(MoveUp(MarkReceived(rows, told), c, q, s), mails)
<1> DEFINE F(r) == Turned(r, told, c, q, s)
           table == {F(r) : r \in rows}
<1>1. PlacedIn(rows, mails) /\ mails \in Nat
  BY BoxedParts DEF RestOK
<1>2. ASSUME NEW r \in rows
      PROVE  /\ r \in Row /\ F(r) \in Row /\ F(r).own = r.own /\ F(r).box = r.box
             /\ F(r).peer = r.peer /\ F(r).sent = r.sent
             /\ F(r).received = (r.received \/ r \in told)
             /\ F(r).slot = MovedTo(r, c, q, s)
  <2>1. r \in Row
    BY <1>1 DEF PlacedIn
  <2>2. QED BY <2>1, TurnedFields
<1> HIDE DEF F
<1>3. table \subseteq Row
  BY <1>2
<1>4. Unique(table)
  <2>1. SUFFICES ASSUME NEW r \in rows, NEW x \in rows, F(r).own = F(x).own, F(r).box = F(x).box,
                        F(r).slot = F(x).slot
                 PROVE  F(r) = F(x)
    BY DEF Unique
  <2>2. r.own = x.own /\ r.box = x.box /\ MovedTo(r, c, q, s) = MovedTo(x, c, q, s)
    BY <1>2, <2>1
  <2>3. r.own = c /\ r.box = 1 => ~(r.slot = q /\ x.slot = Way(q, s)) /\ ~(x.slot = q /\ r.slot = Way(q, s))
    BY <2>2 DEF InTheWay, Way, At, In
  <2>4. r.slot = x.slot
    BY <1>2, <2>2, <2>3, MovedApart
  <2>5. QED BY <1>1, <2>2, <2>4 DEF PlacedIn, Unique
<1>5. ASSUME NEW r \in rows PROVE F(r).box = 1 => F(r).slot < Cells + mails
  <2>1. r.box = 1 => r.slot < Cells + mails
    BY <1>1 DEF PlacedIn
  <2>2. r.slot \in Nat /\ s \in Nat /\ s <= Cells /\ Cells \in Nat
    BY <1>2, RowFields, Sizes
  <2>3. r.box = 1 => MovedTo(r, c, q, s) < Cells + mails
    BY <1>1, <2>1, <2>2 DEF MovedTo
  <2>4. QED BY <1>2, <2>3
<1>6. ASSUME NEW r \in rows, F(r).box = 2
      PROVE  F(r).slot \in Cell /\ F(r).peer \in Chars /\ (F(r).received => F(r).sent)
  <2>1. r.box = 2 /\ r.slot \in Cell /\ r.peer \in Chars /\ (r.received => r.sent)
    BY <1>1, <1>2, <1>6 DEF PlacedIn
  <2>2. MovedTo(r, c, q, s) = r.slot
    BY <2>1 DEF MovedTo
  <2>3. QED BY <1>2, <2>1, <2>2
<1>7. PlacedIn(table, mails)
  BY <1>3, <1>4, <1>5, <1>6 DEF PlacedIn
<1>8. QED BY <1>7, ReceivedRows DEF F

-----------------------------------------------------------------------------
LEMMA PutType ==
    ASSUME RestOK, NEW c \in Chars, NEW s \in Cell, NEW v \in Shown \cup {Empty}, Put(c, s, v)
    PROVE  view' \in [Chars -> [Cell -> Shown \cup {Empty}]]
BY DEF RestOK, Put

LEMMA MoreType ==
    ASSUME NEW f \in [Items -> Nat], NEW i \in Items
    PROVE  /\ More(f, i) \in [Items -> Nat]
           /\ f[i] > 0 => Less(f, i) \in [Items -> Nat]
<1>1. f[i] > 0 => f[i] - 1 \in Nat
  OBVIOUS
<1>2. QED BY <1>1 DEF More, Less

LEMMA ViewFields ==
    ASSUME RestOK, NEW c \in Chars, NEW s \in Cell, view[c][s] # Empty
    PROVE  /\ view[c][s] \in Shown /\ view[c][s].item \in Items
           /\ view[c][s].to \in Chars /\ view[c][s].sent \in BOOLEAN
BY DEF RestOK, Shown

(* Windows open and close, and the cells of one are read.                  *)
LEMMA WindowBoxed ==
    ASSUME Boxed, NEW c \in Chars,
           (\E which \in {"send", "recv"} : OpenBox(c, which)) \/ CloseMailWindow(c) \/ (\E b \in {1, 2} : SendOldItems(c, b))
    PROVE  Boxed'
<1>1. PlacedIn(rows, mails) /\ RestOK /\ ReadsQueue
  BY BoxedParts
<1>2. UNCHANGED <<rows, bag, stock, thrown, reading, mails>>
  BY DEF OpenBox, CloseMailWindow, SendOldItems, itemVars
<1>3. open' \in [Chars -> {"none", "send", "recv"}]
  BY <1>1 DEF OpenBox, CloseMailWindow, SendOldItems, RestOK
<1>4. view' \in [Chars -> [Cell -> Shown \cup {Empty}]]
  <2>1. NoCells \in [Cell -> Shown \cup {Empty}]
    BY DEF NoCells
  <2>2. CASE ~\E b \in {1, 2} : SendOldItems(c, b)
    BY <1>1, <2>1, <2>2 DEF OpenBox, CloseMailWindow, RestOK
  <2>3. CASE \E b \in {1, 2} : SendOldItems(c, b)
    <3>0. PICK b \in {1, 2} : SendOldItems(c, b)
      BY <2>3
    <3> DEFINE box == Box(c, b)
               shown(r) == [item |-> r.item, to |-> IF b = 1 THEN c ELSE r.peer, sent |-> r.sent]
               cells == [s \in Cell |-> IF s = Cells \/ At(box, s) = {} THEN view[c][s]
                                        ELSE shown(First(At(box, s)))]
    <3>1. view' = [view EXCEPT ![c] = cells]
      BY <3>0 DEF SendOldItems
    <3>2. box \subseteq Row /\ \A r \in box : b = 2 => r.peer \in Chars
      BY <1>1 DEF Box, Out, In, PlacedIn
    <3> HIDE DEF box
    <3>3. ASSUME NEW s \in Cell, At(box, s) # {}
          PROVE  shown(First(At(box, s))) \in Shown
      <4>1. At(box, s) \in SUBSET Row /\ At(box, s) \subseteq box
        BY <3>2 DEF At
      <4>2. First(At(box, s)) \in Row /\ First(At(box, s)) \in box
        BY <3>3, <4>1, FirstExists
      <4>3. b # 1 => First(At(box, s)).peer \in Chars
        BY <3>2, <4>2
      <4>4. QED BY <4>2, <4>3, RowFields DEF Shown
    <3> HIDE DEF shown
    <3>4. cells \in [Cell -> Shown \cup {Empty}]
      BY <1>1, <3>3 DEF RestOK
    <3> HIDE DEF cells
    <3>5. QED BY <1>1, <3>1, <3>4 DEF RestOK
  <2>4. QED BY <2>2, <2>3
<1>5. RestOK' /\ ReadsQueue' /\ PlacedIn(rows', mails')
  BY <1>1, <1>2, <1>3, <1>4 DEF RestOK, ReadsQueue
<1>6. QED BY <1>5, BoxedPartsNext

LEMMA AddBoxed ==
    ASSUME Boxed, NEW c \in Chars, NEW s \in Cell, NEW i \in Items, NEW to \in Chars,
           AddItemsToBeSent(c, i, s, to)
    PROVE  Boxed'
<1>1. PlacedIn(rows, mails) /\ RestOK /\ ReadsQueue
  BY BoxedParts
<1> DEFINE new == [own |-> c, box |-> 2, slot |-> s, item |-> i, peer |-> to,
                   sent |-> FALSE, received |-> FALSE]
<1>2. /\ UNCHANGED <<stock, thrown, open, reading, mails>> /\ At(Out(c), s) = {}
      /\ rows' = rows \cup {new} /\ bag' = [bag EXCEPT ![c] = Less(bag[c], i)] /\ bag[c][i] > 0
      /\ Put(c, s, [item |-> i, to |-> to, sent |-> FALSE])
  BY DEF AddItemsToBeSent
<1>3. s \in 0..(Cells + MaxMails)
  BY Sizes
<1>4. /\ new \in Row /\ new.own = c /\ new.box = 2 /\ new.slot = s /\ new.peer = to
      /\ ~new.sent /\ ~new.received
  BY <1>3 DEF Row
<1> HIDE DEF new
<1>5. PlacedIn(rows', mails')
  <2>1. \A r \in rows : r.own = new.own /\ r.box = new.box => r.slot # new.slot
    BY <1>2, <1>4 DEF At, Out
  <2>2. QED BY <1>1, <1>2, <1>4, <2>1, PlacedMore
<1>6. bag' \in [Chars -> [Items -> Nat]]
  <2>1. bag[c] \in [Items -> Nat]
    BY <1>1 DEF RestOK
  <2>2. Less(bag[c], i) \in [Items -> Nat]
    BY <1>2, <2>1, MoreType
  <2>3. QED BY <1>1, <1>2, <2>2 DEF RestOK
<1>7. view' \in [Chars -> [Cell -> Shown \cup {Empty}]]
  <2>1. [item |-> i, to |-> to, sent |-> FALSE] \in Shown
    BY DEF Shown
  <2>2. QED BY <1>1, <1>2, <2>1, PutType
<1>8. RestOK' /\ ReadsQueue'
  BY <1>1, <1>2, <1>6, <1>7 DEF RestOK, ReadsQueue
<1>9. QED BY <1>5, <1>8, BoxedPartsNext

(* What the row of a record becomes when it is sent, or unsent again.      *)
LEMMA SentRow ==
    ASSUME NEW r \in Row, NEW b \in BOOLEAN
    PROVE  LET x == [r EXCEPT !.sent = b]
           IN /\ x \in Row /\ x.own = r.own /\ x.box = r.box /\ x.slot = r.slot /\ x.item = r.item
              /\ x.peer = r.peer /\ x.sent = b /\ x.received = r.received
BY DEF Row

LEMMA ConfirmBoxed ==
    ASSUME Boxed, NEW c \in Chars, NEW s \in Cell, SendConfirmation(c, s)
    PROVE  Boxed'
<1>1. PlacedIn(rows, mails) /\ RestOK /\ ReadsQueue
  BY BoxedParts
<1> DEFINE v == view[c][s]
<1>2. /\ UNCHANGED <<bag, stock, thrown, open, reading>> /\ mails < MaxMails /\ mails' = mails + 1
      /\ view[c][s] # Empty
      /\ Put(c, s, [v EXCEPT !.sent = TRUE])
  BY DEF SendConfirmation, Mailed
<1>3. PICK r \in At(Out(c), s) :
          r.peer = v.to /\ rows' = (rows \ {r}) \cup {[r EXCEPT !.sent = TRUE], Incoming(v.to, v.item, c)}
  BY DEF SendConfirmation
<1>4. v \in Shown /\ v.item \in Items
  BY <1>1, <1>2, ViewFields
<1> HIDE DEF v
<1>5. r \in rows /\ r.box = 2 /\ r \in Row /\ v.to \in Chars /\ (r.received => r.sent)
  BY <1>1, <1>3 DEF At, Out, PlacedIn
<1> DEFINE x == [r EXCEPT !.sent = TRUE]
           new == Incoming(v.to, v.item, c)
<1>6. x \in Row /\ x.own = r.own /\ x.box = r.box /\ x.slot = r.slot /\ x.peer = r.peer /\ x.sent
  BY <1>5, SentRow
<1>7. rows' = ((rows \ {r}) \cup {x}) \cup {new}
  BY <1>3
<1> HIDE DEF x
<1>8. PlacedIn((rows \ {r}) \cup {x}, mails)
  BY <1>1, <1>5, <1>6, PlacedInstead
<1>9. /\ \A y \in In(v.to) : y.slot < NextSlot(v.to)
      /\ \A S : PlacedIn(S, mails) /\ (\A y \in S : y.own = v.to /\ y.box = 1 => y.slot < NextSlot(v.to))
                  => PlacedIn(S \cup {new}, mails + 1)
  BY <1>2, <1>4, <1>5, PlacedIncoming
<1> HIDE DEF new
<1>10. \A y \in (rows \ {r}) \cup {x} : y.own = v.to /\ y.box = 1 => y.slot < NextSlot(v.to)
  BY <1>5, <1>6, <1>9 DEF In
<1>11. PlacedIn(rows', mails')
  BY <1>2, <1>7, <1>8, <1>9, <1>10
<1>12. view' \in [Chars -> [Cell -> Shown \cup {Empty}]]
  <2>1. [v EXCEPT !.sent = TRUE] \in Shown
    BY <1>4 DEF Shown
  <2>2. QED BY <1>1, <1>2, <2>1, PutType
<1>13. mails' \in 0..MaxMails
  BY <1>1, <1>2, Sizes DEF RestOK
<1>14. RestOK' /\ ReadsQueue'
  BY <1>1, <1>2, <1>12, <1>13 DEF RestOK, ReadsQueue
<1>15. QED BY <1>11, <1>14, BoxedPartsNext

LEMMA CancelBoxed ==
    ASSUME Boxed, NEW c \in Chars, NEW s \in Cell, CancelSendingItem(c, s)
    PROVE  Boxed'
<1>1. PlacedIn(rows, mails) /\ RestOK /\ ReadsQueue
  BY BoxedParts
<1>2. /\ UNCHANGED <<bag, stock, thrown, open, reading, mails>> /\ view[c][s] # Empty
      /\ CancelCommits(c, s) \/ CancelFails(c, s)
  BY DEF CancelSendingItem
<1>3. PlacedIn(rows', mails') /\ view' \in [Chars -> [Cell -> Shown \cup {Empty}]]
  <2>1. CASE CancelFails(c, s)
    <3>1. rows' \in SUBSET rows /\ UNCHANGED view
      BY <2>1 DEF CancelFails, At, Out
    <3>2. QED BY <1>1, <1>2, <3>1, PlacedFewer DEF RestOK
  <2>2. CASE CancelCommits(c, s)
    <3>1. PICK r \in At(Out(c), s), gone \in LimitOne(Withdrawable(c, view[c][s])) :
             /\ r.sent /\ ~r.received
             /\ rows' = (rows \ ({r} \cup gone)) \cup {[r EXCEPT !.sent = FALSE]}
             /\ Put(c, s, [view[c][s] EXCEPT !.sent = FALSE])
      BY <2>2 DEF CancelCommits
    <3>2. r \in rows /\ r.box = 2 /\ r \in Row
      BY <1>1 DEF At, Out, PlacedIn
    <3>3. gone \subseteq Withdrawable(c, view[c][s])
      BY DEF LimitOne
    <3>4. \A q \in gone : q.box = 1
      BY <3>3 DEF Withdrawable, Queue, In
    <3> DEFINE x == [r EXCEPT !.sent = FALSE]
    <3>5. /\ x \in Row /\ x.own = r.own /\ x.box = r.box /\ x.slot = r.slot /\ x.peer = r.peer
          /\ x.received = r.received
      BY <3>2, SentRow
    <3>6. rows' = ((rows \ gone) \ {r}) \cup {x} /\ r \in rows \ gone
      BY <3>1, <3>2, <3>4
    <3> HIDE DEF x
    <3>7. PlacedIn(rows \ gone, mails)
      BY <1>1, PlacedFewer
    <3>8. PlacedIn(rows', mails)
      BY <3>1, <3>5, <3>6, <3>7, PlacedInstead
    <3>9. [view[c][s] EXCEPT !.sent = FALSE] \in Shown
      <4>1. view[c][s] \in Shown
        BY <1>1, <1>2, ViewFields
      <4>2. QED BY <4>1 DEF Shown
    <3>10. QED BY <1>1, <1>2, <3>1, <3>8, <3>9, PutType
  <2>3. QED BY <1>2, <2>1, <2>2
<1>4. RestOK' /\ ReadsQueue'
  BY <1>1, <1>2, <1>3 DEF RestOK, ReadsQueue
<1>5. QED BY <1>3, <1>4, BoxedPartsNext

LEMMA RemoveDeliveredBoxed ==
    ASSUME Boxed, NEW c \in Chars, RemoveDelivered(c)
    PROVE  Boxed'
<1>1. PlacedIn(rows, mails) /\ RestOK /\ ReadsQueue
  BY BoxedParts
<1> DEFINE done == {x \in Out(c) : x.received}
           r == First(done)
<1>2. /\ UNCHANGED <<bag, stock, thrown, open, reading, mails>> /\ done # {}
      /\ rows' = rows \ {r} /\ Put(c, r.slot, Empty)
  BY DEF RemoveDelivered
<1>3. done \in SUBSET Row
  BY <1>1 DEF Out, PlacedIn
<1>4. r \in done
  <2> HIDE DEF done
  <2>1. QED BY <1>2, <1>3, FirstExists
<1>5. r.slot \in Cell
  BY <1>1, <1>4 DEF Out, PlacedIn
<1> HIDE DEF done, r
<1>6. PlacedIn(rows', mails')
  BY <1>1, <1>2, PlacedFewer
<1>7. view' \in [Chars -> [Cell -> Shown \cup {Empty}]]
  BY <1>1, <1>2, <1>5, PutType
<1>8. RestOK' /\ ReadsQueue'
  BY <1>1, <1>2, <1>7 DEF RestOK, ReadsQueue
<1>9. QED BY <1>6, <1>8, BoxedPartsNext

LEMMA ReadBoxed ==
    ASSUME Boxed, NEW c \in Chars, NEW s \in Cell, SendNewItems(c, s)
    PROVE  Boxed'
<1>1. PlacedIn(rows, mails) /\ RestOK /\ ReadsQueue
  BY BoxedParts
<1> DEFINE q == First(Queue(c))
<1>2. /\ UNCHANGED <<rows, bag, stock, thrown, open, view, mails>> /\ Queue(c) # {}
      /\ reading' = [reading EXCEPT ![c] = [cell |-> s, row |-> q]]
  BY DEF SendNewItems, itemVars
<1>3. Queue(c) \in SUBSET Row
  BY <1>1 DEF Queue, In, PlacedIn
<1>4. q \in Queue(c)
  BY <1>2, <1>3, FirstExists
<1>5. q \in Row /\ q.own = c /\ q.box = 1 /\ q.slot >= Cells
  BY <1>3, <1>4 DEF Queue, In
<1> HIDE DEF q
<1>6. reading' \in [Chars -> [cell : Cell, row : Row] \cup {NoRead}]
  BY <1>1, <1>2, <1>5 DEF RestOK
<1>7. ASSUME NEW d \in Chars, reading'[d] # NoRead
      PROVE  reading'[d].row.own = d /\ reading'[d].row.box = 1 /\ reading'[d].row.slot >= Cells
  <2>1. CASE d = c
    <3>1. reading'[d].row = q
      BY <1>1, <1>2, <2>1 DEF RestOK
    <3>2. QED BY <1>5, <2>1, <3>1
  <2>2. CASE d # c
    <3>1. reading'[d] = reading[d]
      BY <1>1, <1>2, <2>2 DEF RestOK
    <3>2. QED BY <1>1, <1>7, <3>1 DEF ReadsQueue
  <2>3. QED BY <2>1, <2>2
<1>8. RestOK' /\ ReadsQueue'
  BY <1>1, <1>2, <1>6, <1>7 DEF RestOK, ReadsQueue
<1>9. QED BY <1>1, <1>2, <1>8, BoxedPartsNext

LEMMA ReceivedBoxed ==
    ASSUME Boxed, NEW c \in Chars, Received(c)
    PROVE  Boxed'
<1>1. PlacedIn(rows, mails) /\ RestOK /\ ReadsQueue
  BY BoxedParts
<1> DEFINE q == reading[c].row
           s == reading[c].cell
<1>2. /\ UNCHANGED <<bag, stock, thrown, open, mails>> /\ reading[c] # NoRead
      /\ reading' = [reading EXCEPT ![c] = NoRead]
      /\ \/ /\ ~InTheWay(c, q.slot, s)
            /\ \E told \in LimitOne(Records(c, q)) :
                  rows' = MoveUp(MarkReceived(rows, told), c, q.slot, s)
            /\ Put(c, s, [item |-> q.item, to |-> c, sent |-> FALSE])
         \/ InTheWay(c, q.slot, s) /\ UNCHANGED <<rows, view>>
  BY DEF Received
<1>3. s \in Cell /\ q \in Row /\ q.slot >= Cells
  BY <1>1, <1>2 DEF RestOK, ReadsQueue
<1> HIDE DEF q, s
<1>4. q.slot \in Nat /\ q.slot <= Cells + MaxMails /\ q.item \in Items
  BY <1>3, RowFields
<1>5. PlacedIn(rows', mails') /\ view' \in [Chars -> [Cell -> Shown \cup {Empty}]]
  <2>1. CASE UNCHANGED <<rows, view>>
    BY <1>1, <1>2, <2>1 DEF RestOK
  <2>2. CASE ~UNCHANGED <<rows, view>>
    <3>1. PICK told \in LimitOne(Records(c, q)) :
             rows' = MoveUp(MarkReceived(rows, told), c, q.slot, s)
      BY <1>2, <2>2
    <3>2. ~InTheWay(c, q.slot, s) /\ Put(c, s, [item |-> q.item, to |-> c, sent |-> FALSE])
      BY <1>2, <2>2
    <3>3. told \in SUBSET rows /\ \A r \in told : r.sent /\ r.box = 2
      BY DEF LimitOne, Records, Out
    <3>4. PlacedIn(rows', mails)
      BY <1>3, <1>4, <3>1, <3>2, <3>3, PlacedReceived
    <3>5. [item |-> q.item, to |-> c, sent |-> FALSE] \in Shown
      BY <1>4 DEF Shown
    <3>6. QED BY <1>1, <1>2, <1>3, <3>2, <3>4, <3>5, PutType
  <2>3. QED BY <2>1, <2>2
<1>6. reading' \in [Chars -> [cell : Cell, row : Row] \cup {NoRead}] /\ ReadsQueue'
  BY <1>1, <1>2 DEF RestOK, ReadsQueue
<1>7. RestOK'
  BY <1>1, <1>2, <1>5, <1>6 DEF RestOK
<1>8. QED BY <1>5, <1>6, <1>7, BoxedPartsNext

LEMMA ReturnBoxed ==
    ASSUME Boxed, NEW c \in Chars, NEW s \in Cell, ReturnToSender(c, s)
    PROVE  Boxed'
<1>1. PlacedIn(rows, mails) /\ RestOK /\ ReadsQueue
  BY BoxedParts
<1> DEFINE i == view[c][s].item
<1>2. /\ UNCHANGED <<bag, stock, thrown, open, reading>> /\ mails < MaxMails /\ mails' = mails + 1
      /\ view[c][s] # Empty /\ Put(c, s, Empty)
  BY DEF ReturnToSender, Mailed
<1>3. PICK r \in At(In(c), s) : r.peer # System /\ rows' = (rows \cup {Incoming(r.peer, i, c)}) \ {r}
  BY DEF ReturnToSender
<1>4. r \in Row /\ r.peer \in Chars
  BY <1>1, <1>3, RowFields DEF At, In, PlacedIn
<1>5. i \in Items
  BY <1>1, <1>2, ViewFields
<1> HIDE DEF i
<1>6. /\ \A x \in In(r.peer) : x.slot < NextSlot(r.peer)
      /\ \A S : PlacedIn(S, mails) /\ (\A x \in S : x.own = r.peer /\ x.box = 1 => x.slot < NextSlot(r.peer))
                  => PlacedIn(S \cup {Incoming(r.peer, i, c)}, mails + 1)
  BY <1>2, <1>4, <1>5, PlacedIncoming
<1>7. PlacedIn(rows \cup {Incoming(r.peer, i, c)}, mails + 1)
  BY <1>1, <1>6 DEF In
<1>8. PlacedIn(rows', mails')
  BY <1>2, <1>3, <1>7, PlacedFewer
<1>9. view' \in [Chars -> [Cell -> Shown \cup {Empty}]]
  BY <1>1, <1>2, PutType
<1>10. mails' \in 0..MaxMails
  BY <1>1, <1>2, Sizes DEF RestOK
<1>11. RestOK' /\ ReadsQueue'
  BY <1>1, <1>2, <1>9, <1>10 DEF RestOK, ReadsQueue
<1>12. QED BY <1>8, <1>11, BoxedPartsNext

LEMMA TakeBoxed ==
    ASSUME Boxed, NEW c \in Chars, NEW s \in Cell, NEW b \in {1, 2}, TakeItemFromCell(c, b, s)
    PROVE  Boxed'
<1>1. PlacedIn(rows, mails) /\ RestOK /\ ReadsQueue
  BY BoxedParts
<1> DEFINE i == view[c][s].item
<1>2. /\ UNCHANGED <<stock, thrown, open, reading, mails>> /\ view[c][s] # Empty /\ Put(c, s, Empty)
      /\ bag' = [bag EXCEPT ![c] = AddItem(c, i)] /\ rows' \in SUBSET rows
  BY DEF TakeItemFromCell
<1>3. i \in Items
  BY <1>1, <1>2, ViewFields
<1> HIDE DEF i
<1>4. bag[c] \in [Items -> Nat]
  BY <1>1 DEF RestOK
<1>5. AddItem(c, i) \in [Items -> Nat]
  BY <1>3, <1>4, MoreType DEF AddItem
<1>6. bag' \in [Chars -> [Items -> Nat]]
  BY <1>1, <1>2, <1>5 DEF RestOK
<1>7. view' \in [Chars -> [Cell -> Shown \cup {Empty}]]
  BY <1>1, <1>2, PutType
<1>8. RestOK' /\ ReadsQueue'
  BY <1>1, <1>2, <1>6, <1>7 DEF RestOK, ReadsQueue
<1>9. PlacedIn(rows', mails')
  BY <1>1, <1>2, PlacedFewer
<1>10. QED BY <1>8, <1>9, BoxedPartsNext

LEMMA ThrowBoxed ==
    ASSUME Boxed, NEW c \in Chars, NEW s \in Cell, RemoveItemFromCell(c, s)
    PROVE  Boxed'
<1>1. PlacedIn(rows, mails) /\ RestOK /\ ReadsQueue
  BY BoxedParts
<1>2. UNCHANGED <<bag, stock, open, reading, mails>> /\ Put(c, s, Empty)
  BY DEF RemoveItemFromCell
<1>3. PICK r \in At(In(c), s) : rows' = rows \ {r} /\ thrown' = More(thrown, r.item)
  BY DEF RemoveItemFromCell
<1>4. r.item \in Items
  BY <1>1, RowFields DEF At, In, PlacedIn
<1>5. thrown' \in [Items -> Nat]
  BY <1>1, <1>3, <1>4, MoreType DEF RestOK
<1>6. view' \in [Chars -> [Cell -> Shown \cup {Empty}]]
  BY <1>1, <1>2, PutType
<1>7. RestOK' /\ ReadsQueue'
  BY <1>1, <1>2, <1>5, <1>6 DEF RestOK, ReadsQueue
<1>8. PlacedIn(rows', mails')
  BY <1>1, <1>2, <1>3, PlacedFewer
<1>9. QED BY <1>7, <1>8, BoxedPartsNext

LEMMA SystemBoxed ==
    ASSUME Boxed, NEW c \in Chars, NEW i \in Items, NEW from \in {System, c}, SystemMail(c, i, from)
    PROVE  Boxed'
<1>1. PlacedIn(rows, mails) /\ RestOK /\ ReadsQueue
  BY BoxedParts
<1>2. /\ UNCHANGED <<bag, thrown, open, view, reading>> /\ mails < MaxMails /\ mails' = mails + 1
      /\ rows' = rows \cup {Incoming(c, i, from)} /\ stock' = Less(stock, i) /\ stock[i] > 0
  BY DEF SystemMail, Mailed
<1>3. from \in Chars \cup {System}
  OBVIOUS
<1>4. /\ \A x \in In(c) : x.slot < NextSlot(c)
      /\ \A S : PlacedIn(S, mails) /\ (\A x \in S : x.own = c /\ x.box = 1 => x.slot < NextSlot(c))
                  => PlacedIn(S \cup {Incoming(c, i, from)}, mails + 1)
  BY <1>2, <1>3, PlacedIncoming
<1>5. PlacedIn(rows', mails')
  BY <1>1, <1>2, <1>4 DEF In
<1>6. stock' \in [Items -> Nat]
  BY <1>1, <1>2, MoreType DEF RestOK
<1>7. mails' \in 0..MaxMails
  BY <1>1, <1>2, Sizes DEF RestOK
<1>8. RestOK' /\ ReadsQueue'
  BY <1>1, <1>2, <1>6, <1>7 DEF RestOK, ReadsQueue
<1>9. QED BY <1>5, <1>8, BoxedPartsNext

LEMMA BoxedStep == Boxed /\ [Next]_vars => Boxed'
<1> SUFFICES ASSUME Boxed, [Next]_vars PROVE Boxed'
  OBVIOUS
<1>1. ASSUME UNCHANGED vars PROVE Boxed'
  <2>1. UNCHANGED <<rows, bag, stock, thrown, open, view, reading, mails>>
    BY <1>1 DEF vars, itemVars
  <2>2. QED BY <2>1, BoxedParts, BoxedPartsNext DEF RestOK, ReadsQueue
<1>2. QED BY <1>1, WindowBoxed, AddBoxed, ConfirmBoxed, CancelBoxed, RemoveDeliveredBoxed, ReadBoxed,
             ReceivedBoxed, ReturnBoxed, TakeBoxed, ThrowBoxed, SystemBoxed DEF Next

LEMMA BoxedInitially == Init => Boxed
<1> SUFFICES ASSUME Init PROVE Boxed
  OBVIOUS
<1>1. PlacedIn(rows, mails) /\ ReadsQueue
  BY DEF Init, PlacedIn, Unique, ReadsQueue
<1>2. /\ bag \in [Chars -> [Items -> Nat]] /\ stock \in [Items -> Nat] /\ thrown \in [Items -> Nat]
      /\ mails \in 0..MaxMails
  BY BoxAssumption DEF Init
<1>3. /\ open \in [Chars -> {"none", "send", "recv"}]
      /\ view \in [Chars -> [Cell -> Shown \cup {Empty}]]
      /\ reading \in [Chars -> [cell : Cell, row : Row] \cup {NoRead}]
  BY DEF Init, NoCells
<1>4. QED BY <1>1, <1>2, <1>3, BoxedParts DEF RestOK

LEMMA AlwaysBoxed == Spec => []Boxed
BY BoxedInitially, BoxedStep, PTL DEF Spec

(* The history of a character never becomes better.                        *)
Grown == raced \subseteq raced' /\ strayed \subseteq strayed'
HistoryOK == orphaned \in [Items -> Nat] /\ raced \subseteq Chars /\ strayed \subseteq Chars

LEMMA HistoryStep ==
    ASSUME Boxed, HistoryOK, [Next]_vars
    PROVE  HistoryOK' /\ Grown
<1>1. ASSUME UNCHANGED history PROVE HistoryOK' /\ Grown
  BY <1>1 DEF history, HistoryOK, Grown
<1>2. ASSUME NEW c \in Chars, NEW b \in {1, 2}, UNCHANGED <<orphaned, raced>>, Strays(c, ~OpenIs(c, b))
      PROVE  HistoryOK' /\ Grown
  BY <1>2 DEF Strays, HistoryOK, Grown
<1>3. ASSUME NEW c \in Chars, Received(c) PROVE HistoryOK' /\ Grown
  <2>1. UNCHANGED orphaned /\ raced' \in {raced, raced \cup {c}} /\ strayed' \in {strayed, strayed \cup {c}}
    BY <1>3 DEF Received, Strays
  <2>2. QED BY <2>1 DEF HistoryOK, Grown
<1>4. ASSUME NEW c \in Chars, NEW s \in Cell, CancelSendingItem(c, s) PROVE HistoryOK' /\ Grown
  <2>1. UNCHANGED <<raced, strayed>> /\ (CancelCommits(c, s) \/ CancelFails(c, s))
    BY <1>4 DEF CancelSendingItem
  <2>2. CASE CancelCommits(c, s)
    BY <2>1, <2>2 DEF CancelCommits, HistoryOK, Grown
  <2>3. CASE CancelFails(c, s)
    <3>1. PICK r \in At(Out(c), s) : orphaned' = IF r.sent THEN orphaned ELSE More(orphaned, r.item)
      BY <2>3 DEF CancelFails
    <3>2. r.item \in Items
      BY BoxedParts, RowFields DEF At, Out, PlacedIn
    <3>3. orphaned' \in [Items -> Nat]
      BY <3>1, <3>2, MoreType DEF HistoryOK
    <3>4. QED BY <2>1, <3>3 DEF HistoryOK, Grown
  <2>4. QED BY <2>1, <2>2, <2>3
<1>5. ASSUME NEW c \in Chars,
             \/ \E which \in {"send", "recv"} : OpenBox(c, which)
             \/ CloseMailWindow(c) \/ RemoveDelivered(c)
             \/ \E s \in Cell, i \in Items, to \in Chars : AddItemsToBeSent(c, i, s, to)
             \/ \E s \in Cell : SendConfirmation(c, s) \/ SendNewItems(c, s)
             \/ \E s \in Cell : ReturnToSender(c, s) \/ RemoveItemFromCell(c, s)
             \/ \E i \in Items, from \in {System, c} : SystemMail(c, i, from)
      PROVE  UNCHANGED history
  BY <1>5 DEF OpenBox, CloseMailWindow, RemoveDelivered, AddItemsToBeSent, SendConfirmation,
              SendNewItems, ReturnToSender, RemoveItemFromCell, SystemMail
<1>6. ASSUME NEW c \in Chars, NEW b \in {1, 2},
             SendOldItems(c, b) \/ \E s \in Cell : TakeItemFromCell(c, b, s)
      PROVE  UNCHANGED <<orphaned, raced>> /\ Strays(c, ~OpenIs(c, b))
  BY <1>6 DEF SendOldItems, TakeItemFromCell
<1>7. ASSUME UNCHANGED vars PROVE UNCHANGED history
  BY <1>7 DEF vars
<1>8. QED BY <1>1, <1>2, <1>3, <1>4, <1>5, <1>6, <1>7 DEF Next

LEMMA AlwaysHistory == Spec => [](Boxed /\ HistoryOK)
<1>1. Init => Boxed /\ HistoryOK
  BY BoxedInitially DEF Init, HistoryOK
<1>2. Boxed /\ HistoryOK /\ [Next]_vars => Boxed' /\ HistoryOK'
  BY BoxedStep, HistoryStep
<1>3. QED BY <1>1, <1>2, PTL DEF Spec

(* TypeOK, whatever comes between the read and the writes of SendNewItems  *)
(* and whichever box and cell a request names: no two rows of a box ever   *)
(* have one slot, moving up and the trigger's numbering included, and no   *)
(* inventory falls below zero.                                             *)
THEOREM BoxTypeCorrect == Spec => []TypeOK
<1>1. Boxed /\ HistoryOK => TypeOK
  BY DEF Boxed, PlacedIn, RestOK, HistoryOK, TypeOK
<1>2. QED BY <1>1, AlwaysHistory, PTL

-----------------------------------------------------------------------------
(* Who is in the middle of SendNewItems has the incoming box open.         *)
ReadsOpen == \A c \in Chars : reading[c] # NoRead => open[c] = "recv"

(* A cell of an open box against the row in its slot.                      *)
SendAt(c, s) ==
    open[c] = "send" /\ view[c][s] # Empty =>
       \A r \in At(Out(c), s) :
          r.item = view[c][s].item /\ r.sent = view[c][s].sent /\ r.peer = view[c][s].to
RecvAt(c, s) ==
    open[c] = "recv" /\ view[c][s] # Empty =>
       s # Cells /\ \A r \in At(In(c), s) : r.item = view[c][s].item
CellsRight ==
    \A c \in Chars, s \in Cell :
       /\ c \notin strayed => SendAt(c, s)
       /\ c \notin raced \cup strayed => RecvAt(c, s)

Right == Boxed /\ HistoryOK /\ ReadsOpen /\ CellsRight

(* Cells of those whose history is still clean are all there is to look at.*)
LEMMA CellsFrom ==
    ASSUME CellsRight, Grown,
           ASSUME NEW d \in Chars, NEW z \in Cell
           PROVE  /\ d \notin strayed' /\ SendAt(d, z) => SendAt(d, z)'
                  /\ d \notin raced' \cup strayed' /\ RecvAt(d, z) => RecvAt(d, z)'
    PROVE  CellsRight'
BY DEF CellsRight, Grown

(* A cell stays right if its rows do, or if it shows nothing.              *)
LEMMA SendAtKept ==
    ASSUME NEW d \in Chars, NEW z \in Cell, SendAt(d, z),
           \/ view'[d][z] = Empty
           \/ /\ open'[d] = open[d] /\ view'[d][z] = view[d][z]
              /\ \A r \in At(Out(d), z)' : \E x \in At(Out(d), z) :
                    x.item = r.item /\ x.sent = r.sent /\ x.peer = r.peer
    PROVE  SendAt(d, z)'
BY DEF SendAt

(* The table loses rows, or queues gain some.                              *)
LEMMA CellsKept ==
    ASSUME NEW d \in Chars, NEW z \in Cell,
           view'[d][z] = Empty \/ (open'[d] = open[d] /\ view'[d][z] = view[d][z]),
           \A r \in rows' : r \in rows \/ r.own # d \/ r.slot # z \/ (r.box = 1 /\ r.slot >= Cells)
    PROVE  (SendAt(d, z) => SendAt(d, z)') /\ (RecvAt(d, z) => RecvAt(d, z)')
<1>1. \A r \in At(Out(d), z)' : r \in At(Out(d), z)
  BY DEF At, Out
<1>2. SendAt(d, z) => SendAt(d, z)'
  BY <1>1, SendAtKept
<1>3. ASSUME RecvAt(d, z), open'[d] = "recv", view'[d][z] # Empty
      PROVE  z # Cells /\ \A r \in At(In(d), z)' : r.item = view'[d][z].item
  <2>1. open[d] = "recv" /\ view[d][z] # Empty /\ view'[d][z] = view[d][z]
    BY <1>3
  <2>2. z # Cells /\ \A r \in At(In(d), z) : r.item = view[d][z].item
    BY <1>3, <2>1 DEF RecvAt
  <2>3. ~(z >= Cells)
    BY <2>2, Sizes
  <2>4. \A r \in At(In(d), z)' : r \in At(In(d), z)
    BY <2>3 DEF At, In
  <2>5. QED BY <2>1, <2>2, <2>4
<1>4. RecvAt(d, z) => RecvAt(d, z)'
  BY <1>3 DEF RecvAt
<1>5. QED BY <1>2, <1>4

LEMMA PutElsewhere ==
    ASSUME RestOK, NEW c \in Chars, NEW s \in Cell, NEW v, Put(c, s, v)
    PROVE  /\ view'[c][s] = v
           /\ \A d \in Chars, z \in Cell : d # c \/ z # s => view'[d][z] = view[d][z]
BY DEF RestOK, Put

LEMMA WindowRight ==
    ASSUME Right, Grown, NEW c \in Chars,
           \/ \E which \in {"send", "recv"} : OpenBox(c, which)
           \/ CloseMailWindow(c)
           \/ \E b \in {1, 2} : SendOldItems(c, b)
    PROVE  CellsRight'
<1>1. PlacedIn(rows, mails) /\ RestOK /\ CellsRight /\ UNCHANGED rows
  BY BoxedParts DEF Right, OpenBox, CloseMailWindow, SendOldItems, itemVars
<1>2. CASE ~\E b \in {1, 2} : SendOldItems(c, b)
  <2>1. view' = [view EXCEPT ![c] = NoCells] /\ \A e \in Chars \ {c} : open'[e] = open[e]
    BY <1>1, <1>2 DEF OpenBox, CloseMailWindow, RestOK
  <2>2. ASSUME NEW d \in Chars, NEW z \in Cell
        PROVE  view'[d][z] = Empty \/ (open'[d] = open[d] /\ view'[d][z] = view[d][z])
    BY <1>1, <2>1 DEF RestOK, NoCells
  <2>3. ASSUME NEW d \in Chars, NEW z \in Cell
        PROVE  (SendAt(d, z) => SendAt(d, z)') /\ (RecvAt(d, z) => RecvAt(d, z)')
    BY <1>1, <2>2, CellsKept
  <2>4. QED BY <1>1, <2>3, CellsFrom
<1>3. CASE \E b \in {1, 2} : SendOldItems(c, b)
  <2>1. PICK b \in {1, 2} : SendOldItems(c, b)
    BY <1>3
  <2> DEFINE box == Box(c, b)
             shown(r) == [item |-> r.item, to |-> IF b = 1 THEN c ELSE r.peer, sent |-> r.sent]
             cells == [s \in Cell |-> IF s = Cells \/ At(box, s) = {} THEN view[c][s]
                                      ELSE shown(First(At(box, s)))]
  <2>2. /\ view' = [view EXCEPT ![c] = cells] /\ UNCHANGED open
        /\ Strays(c, ~OpenIs(c, b))
    BY <2>1 DEF SendOldItems
  <2>3. ASSUME NEW d \in Chars, NEW z \in Cell, d # c \/ z = Cells \/ At(box, z) = {}
        PROVE  (SendAt(d, z) => SendAt(d, z)') /\ (RecvAt(d, z) => RecvAt(d, z)')
    <3>1. view'[d][z] = view[d][z]
      BY <1>1, <2>2, <2>3 DEF RestOK
    <3>2. QED BY <1>1, <2>2, <3>1, CellsKept
  <2>4. ASSUME NEW z \in Cell, z # Cells, At(box, z) # {}, c \notin strayed'
        PROVE  SendAt(c, z)' /\ RecvAt(c, z)'
    <3> DEFINE r == First(At(box, z))
    <3>1. view'[c][z] = shown(r)
      BY <1>1, <2>2, <2>4 DEF RestOK
    <3>2. At(box, z) \in SUBSET Row
      BY <1>1 DEF At, Box, Out, In, PlacedIn
    <3>3. r \in At(box, z)
      <4> HIDE DEF box
      <4>1. QED BY <2>4, <3>2, FirstExists
    <3>4. \A x \in At(box, z) : x = r
      BY <1>1, <3>3 DEF At, Box, Out, In, PlacedIn, Unique
    <3> HIDE DEF r
    <3>5. open'[c] = IF b = 1 THEN "recv" ELSE "send"
      BY <2>2, <2>4 DEF Strays, OpenIs
    <3>6. CASE b = 1
      <4>1. \A x \in At(In(c), z)' : x = r
        BY <1>1, <3>4, <3>6 DEF At, Box, In
      <4>2. QED BY <2>4, <3>1, <3>5, <3>6, <4>1 DEF SendAt, RecvAt
    <3>7. CASE b = 2
      <4>1. \A x \in At(Out(c), z)' : x = r
        BY <1>1, <3>4, <3>7 DEF At, Box, Out
      <4>2. QED BY <3>1, <3>5, <3>7, <4>1 DEF SendAt, RecvAt
    <3>8. QED BY <3>6, <3>7
  <2> HIDE DEF box, cells
  <2>5. ASSUME NEW d \in Chars, NEW z \in Cell
        PROVE  /\ d \notin strayed' /\ SendAt(d, z) => SendAt(d, z)'
               /\ d \notin raced' \cup strayed' /\ RecvAt(d, z) => RecvAt(d, z)'
    BY <2>3, <2>4
  <2>6. QED BY <1>1, <2>5, CellsFrom
<1>4. QED BY <1>2, <1>3

LEMMA AddRight ==
    ASSUME Right, Grown, NEW c \in Chars, NEW s \in Cell, NEW i \in Items, NEW to \in Chars,
           AddItemsToBeSent(c, i, s, to)
    PROVE  CellsRight'
<1>1. RestOK /\ CellsRight
  BY BoxedParts DEF Right
<1> DEFINE new == [own |-> c, box |-> 2, slot |-> s, item |-> i, peer |-> to,
                   sent |-> FALSE, received |-> FALSE]
           v == [item |-> i, to |-> to, sent |-> FALSE]
<1>2. /\ UNCHANGED open /\ At(Out(c), s) = {} /\ open[c] = "send"
      /\ rows' = rows \cup {new} /\ Put(c, s, v)
  BY DEF AddItemsToBeSent
<1>3. /\ new.own = c /\ new.box = 2 /\ new.slot = s /\ new.item = i /\ new.peer = to /\ new.sent = FALSE
      /\ v.item = i /\ v.to = to /\ v.sent = FALSE
  OBVIOUS
<1> HIDE DEF new, v
<1>4. view'[c][s] = v /\ \A d \in Chars, z \in Cell : d # c \/ z # s => view'[d][z] = view[d][z]
  BY <1>1, <1>2, PutElsewhere
<1>5. ASSUME NEW d \in Chars, NEW z \in Cell, d # c \/ z # s
      PROVE  (SendAt(d, z) => SendAt(d, z)') /\ (RecvAt(d, z) => RecvAt(d, z)')
  BY <1>2, <1>3, <1>4, <1>5, CellsKept
<1>6. SendAt(c, s)' /\ RecvAt(c, s)'
  <2>1. \A r \in At(Out(c), s)' : r = new
    BY <1>2 DEF At, Out
  <2>2. QED BY <1>2, <1>3, <1>4, <2>1 DEF SendAt, RecvAt
<1>7. ASSUME NEW d \in Chars, NEW z \in Cell
      PROVE  (SendAt(d, z) => SendAt(d, z)') /\ (RecvAt(d, z) => RecvAt(d, z)')
  BY <1>5, <1>6
<1>8. QED BY <1>1, <1>7, CellsFrom

(* The record in a cell and the cell change alike.                         *)
LEMMA RecordRight ==
    ASSUME Right, Grown, NEW c \in Chars, NEW s \in Cell, NEW r \in At(Out(c), s), NEW b \in BOOLEAN,
           open[c] = "send", view[c][s] # Empty, UNCHANGED open,
           Put(c, s, [view[c][s] EXCEPT !.sent = b]),
           \A y \in rows' : \/ y \in rows \ {r}
                            \/ y = [r EXCEPT !.sent = b]
                            \/ y.box = 1 /\ y.slot \in Nat /\ y.slot >= Cells
    PROVE  CellsRight'
<1>1. PlacedIn(rows, mails) /\ RestOK /\ CellsRight
  BY BoxedParts DEF Right
<1> DEFINE v == [view[c][s] EXCEPT !.sent = b]
           x == [r EXCEPT !.sent = b]
<1>2. r \in rows /\ r \in Row /\ r.own = c /\ r.box = 2 /\ r.slot = s
  BY <1>1 DEF At, Out, PlacedIn
<1>3. /\ x.own = r.own /\ x.box = r.box /\ x.slot = r.slot /\ x.item = r.item
      /\ x.peer = r.peer /\ x.sent = b
  BY <1>2, SentRow
<1>4. view[c][s] \in Shown
  BY <1>1, ViewFields
<1>5. v.item = view[c][s].item /\ v.to = view[c][s].to /\ v.sent = b
  BY <1>4 DEF Shown
<1>6. \A y \in rows' : y \in rows \ {r} \/ y = x \/ (y.box = 1 /\ y.slot >= Cells)
  OBVIOUS
<1> HIDE DEF v, x
<1>7. view'[c][s] = v /\ \A d \in Chars, z \in Cell : d # c \/ z # s => view'[d][z] = view[d][z]
  BY <1>1, PutElsewhere DEF v
<1>8. ASSUME NEW d \in Chars, NEW z \in Cell, d # c \/ z # s
      PROVE  (SendAt(d, z) => SendAt(d, z)') /\ (RecvAt(d, z) => RecvAt(d, z)')
  <2>1. \A y \in rows' : y \in rows \/ y.own # d \/ y.slot # z \/ (y.box = 1 /\ y.slot >= Cells)
    BY <1>2, <1>3, <1>6, <1>8
  <2>2. QED BY <1>7, <1>8, <2>1, CellsKept
<1>9. SendAt(c, s) => SendAt(c, s)'
  <2>1. \A y \in rows \ {r} : ~(y.own = c /\ y.box = 2 /\ y.slot = s)
    BY <1>1, <1>2 DEF PlacedIn, Unique
  <2>2. \A y \in At(Out(c), s)' : y = x
    BY <1>6, <2>1 DEF At, Out
  <2>3. SendAt(c, s) => r.item = view[c][s].item /\ r.peer = view[c][s].to
    BY DEF SendAt
  <2>4. QED BY <1>3, <1>5, <1>7, <2>2, <2>3 DEF SendAt
<1>10. RecvAt(c, s)'
  BY DEF RecvAt
<1>11. ASSUME NEW d \in Chars, NEW z \in Cell
       PROVE  (SendAt(d, z) => SendAt(d, z)') /\ (RecvAt(d, z) => RecvAt(d, z)')
  BY <1>8, <1>9, <1>10
<1>12. QED BY <1>1, <1>11, CellsFrom

LEMMA ConfirmRight ==
    ASSUME Right, Grown, NEW c \in Chars, NEW s \in Cell, SendConfirmation(c, s)
    PROVE  CellsRight'
<1>1. Boxed /\ PlacedIn(rows, mails) /\ RestOK
  BY BoxedParts DEF Right
<1> DEFINE v == view[c][s]
<1>2. /\ UNCHANGED open /\ mails < MaxMails /\ open[c] = "send" /\ view[c][s] # Empty
      /\ Put(c, s, [view[c][s] EXCEPT !.sent = TRUE])
  BY DEF SendConfirmation, Mailed
<1>3. PICK r \in At(Out(c), s) :
          r.peer = v.to /\ rows' = (rows \ {r}) \cup {[r EXCEPT !.sent = TRUE], Incoming(v.to, v.item, c)}
  BY DEF SendConfirmation
<1>4. v.item \in Items /\ v.to \in Chars
  BY <1>1, <1>2, <1>3, ViewFields DEF At, Out, PlacedIn
<1>5. /\ Incoming(v.to, v.item, c).slot = NextSlot(v.to) /\ Incoming(v.to, v.item, c).box = 1
      /\ NextSlot(v.to) \in Nat /\ NextSlot(v.to) >= Cells
  BY <1>1, <1>2, <1>4, PlacedIncoming
<1> HIDE DEF v
<1>6. \A y \in rows' : \/ y \in rows \ {r}
                       \/ y = [r EXCEPT !.sent = TRUE]
                       \/ y.box = 1 /\ y.slot \in Nat /\ y.slot >= Cells
  BY <1>3, <1>5
<1>7. QED BY <1>2, <1>6, RecordRight

LEMMA CancelRight ==
    ASSUME Right, Grown, NEW c \in Chars, NEW s \in Cell, CancelSendingItem(c, s)
    PROVE  CellsRight'
<1>1. /\ UNCHANGED open /\ view[c][s] # Empty /\ open[c] = "send"
      /\ CancelCommits(c, s) \/ CancelFails(c, s)
  BY DEF CancelSendingItem
<1>2. CASE CancelFails(c, s)
  <2>1. rows' \subseteq rows /\ UNCHANGED view
    BY <1>2 DEF CancelFails
  <2>2. ASSUME NEW d \in Chars, NEW z \in Cell
        PROVE  (SendAt(d, z) => SendAt(d, z)') /\ (RecvAt(d, z) => RecvAt(d, z)')
    BY <1>1, <2>1, CellsKept
  <2>3. QED BY <2>2, CellsFrom DEF Right
<1>3. CASE CancelCommits(c, s)
  <2>1. PICK r \in At(Out(c), s), gone \in LimitOne(Withdrawable(c, view[c][s])) :
           /\ rows' = (rows \ ({r} \cup gone)) \cup {[r EXCEPT !.sent = FALSE]}
           /\ Put(c, s, [view[c][s] EXCEPT !.sent = FALSE])
    BY <1>3 DEF CancelCommits
  <2>2. QED BY <1>1, <2>1, RecordRight
<1>4. QED BY <1>1, <1>2, <1>3

(* The row of a cell goes, and the cell is emptied.                        *)
LEMMA EmptiedRight ==
    ASSUME Right, Grown, NEW c \in Chars, NEW s \in Cell, UNCHANGED open, Put(c, s, Empty),
           \A r \in rows' : r \in rows \/ (r.box = 1 /\ r.slot >= Cells)
    PROVE  CellsRight'
<1>1. RestOK /\ CellsRight
  BY BoxedParts DEF Right
<1>2. ASSUME NEW d \in Chars, NEW z \in Cell
      PROVE  (SendAt(d, z) => SendAt(d, z)') /\ (RecvAt(d, z) => RecvAt(d, z)')
  <2>1. view'[d][z] = Empty \/ view'[d][z] = view[d][z]
    BY <1>1, PutElsewhere
  <2>2. QED BY <2>1, CellsKept
<1>3. QED BY <1>1, <1>2, CellsFrom

LEMMA RemoveDeliveredRight ==
    ASSUME Right, Grown, NEW c \in Chars, RemoveDelivered(c)
    PROVE  CellsRight'
<1>1. PlacedIn(rows, mails)
  BY BoxedParts DEF Right
<1> DEFINE done == {x \in Out(c) : x.received}
           r == First(done)
<1>2. UNCHANGED open /\ done # {} /\ rows' = rows \ {r} /\ Put(c, r.slot, Empty)
  BY DEF RemoveDelivered
<1>3. done \in SUBSET Row
  BY <1>1 DEF Out, PlacedIn
<1>4. r \in done
  <2> HIDE DEF done
  <2>1. QED BY <1>2, <1>3, FirstExists
<1>5. r.slot \in Cell
  BY <1>1, <1>4 DEF Out, PlacedIn
<1> HIDE DEF done, r
<1>6. QED BY <1>2, <1>5, EmptiedRight

LEMMA ReturnRight ==
    ASSUME Right, Grown, NEW c \in Chars, NEW s \in Cell, ReturnToSender(c, s)
    PROVE  CellsRight'
<1>1. Boxed /\ PlacedIn(rows, mails) /\ RestOK
  BY BoxedParts DEF Right
<1> DEFINE i == view[c][s].item
<1>2. UNCHANGED open /\ mails < MaxMails /\ view[c][s] # Empty /\ Put(c, s, Empty)
  BY DEF ReturnToSender, Mailed
<1>3. PICK r \in At(In(c), s) : r.peer # System /\ rows' = (rows \cup {Incoming(r.peer, i, c)}) \ {r}
  BY DEF ReturnToSender
<1>4. r.peer \in Chars /\ i \in Items
  BY <1>1, <1>2, <1>3, RowFields, ViewFields DEF At, In, PlacedIn
<1>5. /\ Incoming(r.peer, i, c).slot = NextSlot(r.peer) /\ Incoming(r.peer, i, c).box = 1
      /\ NextSlot(r.peer) \in Nat /\ NextSlot(r.peer) >= Cells
  BY <1>1, <1>2, <1>4, PlacedIncoming
<1>6. QED BY <1>2, <1>3, <1>5, EmptiedRight

LEMMA SystemRight ==
    ASSUME Right, Grown, NEW c \in Chars, NEW i \in Items, NEW from \in {System, c}, SystemMail(c, i, from)
    PROVE  CellsRight'
<1>1. /\ UNCHANGED <<open, view>> /\ mails < MaxMails /\ rows' = rows \cup {Incoming(c, i, from)}
      /\ Boxed /\ CellsRight /\ from \in Chars \cup {System}
  BY DEF SystemMail, Mailed, Right
<1>2. /\ Incoming(c, i, from).slot = NextSlot(c) /\ Incoming(c, i, from).box = 1
      /\ NextSlot(c) \in Nat /\ NextSlot(c) >= Cells
  BY <1>1, PlacedIncoming
<1>3. ASSUME NEW d \in Chars, NEW z \in Cell
      PROVE  (SendAt(d, z) => SendAt(d, z)') /\ (RecvAt(d, z) => RecvAt(d, z)')
  BY <1>1, <1>2, CellsKept
<1>4. QED BY <1>1, <1>3, CellsFrom

LEMMA ReceivedRight ==
    ASSUME Right, Grown, NEW c \in Chars, Received(c)
    PROVE  CellsRight'
<1>1. PlacedIn(rows, mails) /\ RestOK /\ ReadsQueue /\ CellsRight
  BY BoxedParts DEF Right
<1> DEFINE q == reading[c].row
           s == reading[c].cell
           v == [item |-> q.item, to |-> c, sent |-> FALSE]
<1>2. /\ UNCHANGED open /\ reading[c] # NoRead
      /\ \/ /\ ~InTheWay(c, q.slot, s)
            /\ \E told \in LimitOne(Records(c, q)) :
                  rows' = MoveUp(MarkReceived(rows, told), c, q.slot, s)
            /\ Put(c, s, v)
         \/ InTheWay(c, q.slot, s) /\ UNCHANGED <<rows, view>>
      /\ c \notin raced' \cup strayed' => q \in rows /\ s # Cells
  BY DEF Received, Strays
<1>3. /\ s \in Cell /\ q \in Row /\ q.slot >= Cells /\ q.own = c /\ q.box = 1
      /\ open[c] = "recv"
  BY <1>1, <1>2 DEF RestOK, ReadsQueue, Right, ReadsOpen
<1>4. v.item = q.item
  OBVIOUS
<1> HIDE DEF q, s, v
<1>5. q.slot \in Nat /\ q.slot <= Cells + MaxMails
  BY <1>3, RowFields
<1>6. CASE UNCHANGED <<rows, view>>
  <2>1. ASSUME NEW d \in Chars, NEW z \in Cell
        PROVE  (SendAt(d, z) => SendAt(d, z)') /\ (RecvAt(d, z) => RecvAt(d, z)')
    BY <1>2, <1>6, CellsKept
  <2>2. QED BY <1>1, <2>1, CellsFrom
<1>7. CASE ~UNCHANGED <<rows, view>>
  <2>1. PICK told \in LimitOne(Records(c, q)) :
           rows' = MoveUp(MarkReceived(rows, told), c, q.slot, s)
    BY <1>2, <1>7
  <2>2. ~InTheWay(c, q.slot, s) /\ Put(c, s, v)
    BY <1>2, <1>7
  <2>3. told \in SUBSET rows
    BY DEF LimitOne, Records, Out
  <2> DEFINE F(r) == Turned(r, told, c, q.slot, s)
  <2>4. rows' = {F(r) : r \in rows}
    BY <2>1, <2>3, ReceivedRows
  <2>5. ASSUME NEW r \in rows
        PROVE  /\ r \in Row /\ F(r).own = r.own /\ F(r).box = r.box /\ F(r).item = r.item
               /\ F(r).peer = r.peer /\ F(r).sent = r.sent
               /\ F(r).slot = MovedTo(r, c, q.slot, s)
    <3>1. r \in Row
      BY <1>1 DEF PlacedIn
    <3>2. QED BY <1>3, <1>5, <3>1, TurnedFields
  <2> HIDE DEF F
  <2>6. view'[c][s] = v /\ \A e \in Chars, y \in Cell : e # c \/ y # s => view'[e][y] = view[e][y]
    BY <1>1, <1>3, <2>2, PutElsewhere
  <2>7. ASSUME NEW r \in rows, r.box = 2 \/ r.own # c PROVE F(r).slot = r.slot
    BY <2>5, <2>7 DEF MovedTo
  <2>8. ASSUME NEW z \in Cell, z # Cells, NEW r \in rows, F(r).slot = z, r.own = c, r.box = 1
        PROVE  r.slot = z \/ (r.slot = q.slot /\ z = s)
    <3>1. r.slot \in Nat /\ z \in Nat /\ z < Cells /\ Cells \in Nat
      BY <2>5, <2>8, RowFields, Sizes
    <3>2. MovedTo(r, c, q.slot, s) = z
      BY <2>5, <2>8
    <3>3. QED BY <1>3, <1>5, <2>8, <3>1, <3>2 DEF MovedTo
  <2>9. ASSUME NEW d \in Chars, NEW z \in Cell, SendAt(d, z)
        PROVE  SendAt(d, z)'
    <3>1. \A r \in At(Out(d), z)' : \E x \in At(Out(d), z) :
             x.item = r.item /\ x.sent = r.sent /\ x.peer = r.peer
      <4>1. SUFFICES ASSUME NEW r \in rows, F(r).own = d, F(r).box = 2, F(r).slot = z
                     PROVE  \E x \in At(Out(d), z) :
                               x.item = F(r).item /\ x.sent = F(r).sent /\ x.peer = F(r).peer
        BY <2>4 DEF At, Out
      <4>2. r.own = d /\ r.box = 2 /\ r.slot = z
        BY <2>5, <2>7, <4>1
      <4>3. QED BY <2>5, <4>2 DEF At, Out
    <3>2. CASE d = c
      BY <1>2, <1>3, <3>2 DEF SendAt
    <3>3. CASE d # c
      <4>1. view'[d][z] = view[d][z]
        BY <2>6, <3>3
      <4>2. QED BY <1>2, <2>9, <3>1, <4>1, SendAtKept
    <3>4. QED BY <3>2, <3>3
  <2>10. ASSUME NEW z \in Cell, z = s, c \notin raced' \cup strayed' PROVE RecvAt(c, z)'
    <3>1. q \in rows /\ z # Cells
      BY <1>2, <2>10
    <3>2. At(In(c), z) = {}
      <4>1. z # q.slot
        BY <1>3, <1>5, <2>10, <3>1, Sizes
      <4>2. QED BY <1>3, <2>2, <2>10, <3>1, <4>1 DEF InTheWay, At, In
    <3>3. ASSUME NEW r \in At(In(c), z)' PROVE r.item = q.item
      <4>1. PICK x \in rows : r = F(x)
        BY <2>4 DEF At, In
      <4>2. x.own = c /\ x.box = 1 /\ F(x).slot = z
        BY <2>5, <4>1 DEF At, In
      <4>3. x.slot = z \/ x.slot = q.slot
        BY <1>3, <2>8, <3>1, <4>2
      <4>4. x.slot = q.slot
        BY <3>2, <4>2, <4>3 DEF At, In
      <4>5. x = q
        BY <1>1, <1>3, <3>1, <4>2, <4>4 DEF PlacedIn, Unique
      <4>6. QED BY <2>5, <4>1, <4>5
    <3>4. view'[c][z].item = q.item
      BY <1>4, <2>6, <2>10
    <3>5. QED BY <3>1, <3>3, <3>4 DEF RecvAt
  <2>11. ASSUME NEW d \in Chars, NEW z \in Cell, d # c \/ z # s, RecvAt(d, z) PROVE RecvAt(d, z)'
    <3>1. SUFFICES ASSUME open[d] = "recv", view'[d][z] # Empty, view'[d][z] = view[d][z]
                   PROVE  z # Cells /\ \A r \in At(In(d), z)' : r.item = view[d][z].item
      BY <1>2, <2>6, <2>11 DEF RecvAt
    <3>2. z # Cells /\ \A r \in At(In(d), z) : r.item = view[d][z].item
      BY <2>11, <3>1 DEF RecvAt
    <3>3. SUFFICES ASSUME NEW x \in rows, F(x).own = d, F(x).box = 1, F(x).slot = z
                   PROVE  x \in At(In(d), z) /\ x.item = F(x).item
      BY <2>4, <3>2 DEF At, In
    <3>4. x.own = d /\ x.box = 1 /\ x.item = F(x).item
      BY <2>5, <3>3
    <3>5. x.slot = z
      BY <2>7, <2>8, <2>11, <3>2, <3>3, <3>4
    <3>6. QED BY <3>4, <3>5 DEF At, In
  <2>12. ASSUME NEW d \in Chars, NEW z \in Cell
         PROVE  /\ d \notin strayed' /\ SendAt(d, z) => SendAt(d, z)'
                /\ d \notin raced' \cup strayed' /\ RecvAt(d, z) => RecvAt(d, z)'
    BY <1>3, <2>9, <2>10, <2>11
  <2>13. QED BY <1>1, <2>12, CellsFrom
<1>8. QED BY <1>6, <1>7

LEMMA ReadsOpenStep ==
    ASSUME Boxed, ReadsOpen, [Next]_vars
    PROVE  ReadsOpen'
<1>1. RestOK
  BY BoxedParts
<1>2. ASSUME NEW c \in Chars, reading[c] = NoRead,
             UNCHANGED reading, \A d \in Chars \ {c} : open'[d] = open[d]
      PROVE  ReadsOpen'
  BY <1>2 DEF ReadsOpen
<1>3. ASSUME NEW c \in Chars, (\E which \in {"send", "recv"} : OpenBox(c, which)) \/ CloseMailWindow(c)
      PROVE  ReadsOpen'
  <2>1. reading[c] = NoRead /\ UNCHANGED reading /\ \A d \in Chars \ {c} : open'[d] = open[d]
    BY <1>1, <1>3 DEF OpenBox, CloseMailWindow, Free, RestOK
  <2>2. QED BY <1>2, <2>1
<1>4. ASSUME NEW c \in Chars, NEW s \in Cell, SendNewItems(c, s) PROVE ReadsOpen'
  <2>1. open[c] = "recv" /\ UNCHANGED open /\ \A d \in Chars \ {c} : reading'[d] = reading[d]
    BY <1>1, <1>4 DEF SendNewItems, RestOK
  <2>2. QED BY <2>1 DEF ReadsOpen
<1>5. ASSUME NEW c \in Chars, Received(c) PROVE ReadsOpen'
  <2>1. UNCHANGED open /\ reading'[c] = NoRead /\ \A d \in Chars \ {c} : reading'[d] = reading[d]
    BY <1>1, <1>5 DEF Received, RestOK
  <2>2. QED BY <2>1 DEF ReadsOpen
<1>6. ASSUME NEW c \in Chars,
             \/ RemoveDelivered(c) \/ \E b \in {1, 2} : SendOldItems(c, b)
             \/ \E s \in Cell, i \in Items, to \in Chars : AddItemsToBeSent(c, i, s, to)
             \/ \E s \in Cell : SendConfirmation(c, s) \/ CancelSendingItem(c, s)
             \/ \E s \in Cell : ReturnToSender(c, s) \/ RemoveItemFromCell(c, s)
             \/ \E s \in Cell, b \in {1, 2} : TakeItemFromCell(c, b, s)
             \/ \E i \in Items, from \in {System, c} : SystemMail(c, i, from)
      PROVE  UNCHANGED <<open, reading>>
  BY <1>6 DEF RemoveDelivered, SendOldItems, AddItemsToBeSent, SendConfirmation, CancelSendingItem,
              ReturnToSender, RemoveItemFromCell, TakeItemFromCell, SystemMail
<1>7. UNCHANGED vars => UNCHANGED <<open, reading>>
  BY DEF vars
<1>8. UNCHANGED <<open, reading>> => ReadsOpen'
  BY DEF ReadsOpen
<1>9. QED BY <1>3, <1>4, <1>5, <1>6, <1>7, <1>8 DEF Next

LEMMA RightStep == Right /\ [Next]_vars => Right'
<1> SUFFICES ASSUME Right, [Next]_vars PROVE Right'
  OBVIOUS
<1>1. Boxed' /\ HistoryOK' /\ Grown /\ ReadsOpen' /\ CellsRight
  BY BoxedStep, HistoryStep, ReadsOpenStep DEF Right
<1>2. ASSUME UNCHANGED <<rows, open, view>> PROVE CellsRight'
  <2>1. ASSUME NEW d \in Chars, NEW z \in Cell
        PROVE  (SendAt(d, z) => SendAt(d, z)') /\ (RecvAt(d, z) => RecvAt(d, z)')
    BY <1>2, CellsKept
  <2>2. QED BY <1>1, <2>1, CellsFrom
<1>3. ASSUME NEW c \in Chars, NEW s \in Cell,
             (\E b \in {1, 2} : TakeItemFromCell(c, b, s)) \/ RemoveItemFromCell(c, s)
      PROVE  CellsRight'
  <2>1. rows' \subseteq rows /\ UNCHANGED open /\ Put(c, s, Empty)
    BY <1>3 DEF TakeItemFromCell, RemoveItemFromCell
  <2>2. QED BY <1>1, <2>1, EmptiedRight
<1>4. ASSUME NEW c \in Chars, NEW s \in Cell, SendNewItems(c, s) PROVE CellsRight'
  BY <1>2, <1>4 DEF SendNewItems, itemVars
<1>5. ASSUME UNCHANGED vars PROVE CellsRight'
  BY <1>2, <1>5 DEF vars, itemVars
<1>6. CellsRight'
  BY <1>1, <1>3, <1>4, <1>5, WindowRight, AddRight, ConfirmRight, CancelRight, RemoveDeliveredRight,
     ReceivedRight, ReturnRight, SystemRight DEF Next
<1>7. QED BY <1>1, <1>6 DEF Right

LEMMA RightInitially == Init => Right
<1> SUFFICES ASSUME Init PROVE Right
  OBVIOUS
<1>1. ReadsOpen /\ CellsRight /\ HistoryOK
  BY DEF Init, ReadsOpen, CellsRight, SendAt, RecvAt, HistoryOK
<1>2. QED BY <1>1, BoxedInitially DEF Right

LEMMA RightShows == Right => ShownIsHeld
<1> SUFFICES ASSUME Right, NEW c \in Chars, c \notin raced \cup strayed, NEW s \in Cell,
                    open[c] # "none", view[c][s] # Empty,
                    NEW r \in At(IF open[c] = "send" THEN Out(c) ELSE In(c), s)
             PROVE  r.item = view[c][s].item /\ (open[c] = "send" => r.sent = view[c][s].sent)
  BY DEF ShownIsHeld, CellsMatch
<1>1. open[c] = "send" \/ open[c] = "recv"
  BY BoxedParts DEF Right, RestOK
<1>2. SendAt(c, s) /\ RecvAt(c, s)
  BY DEF Right, CellsRight
<1>3. QED BY <1>1, <1>2 DEF SendAt, RecvAt

(* ShownIsHeld, whatever others do: what TakeItemFromCell and              *)
(* ReturnToSender give away is what the row they delete holds, until the   *)
(* player's own request names the wrong box or the cell too many, or the   *)
(* queue changes within the player's own SendNewItems.                     *)
THEOREM CellsShowTheTable == Spec => []ShownIsHeld
BY RightStep, RightInitially, RightShows, PTL DEF Spec

-----------------------------------------------------------------------------
(* Owner, box and slot tell rows apart, so there are finitely many.        *)
LEMMA TableFinite ==
    ASSUME NEW table \in SUBSET Row, Unique(table)
    PROVE  IsFiniteSet(table)
<1> DEFINE Places == Chars \X ({1, 2} \X (0..(Cells + MaxMails)))
           f == [r \in table |-> <<r.own, <<r.box, r.slot>>>>]
<1>1. \A r \in table : f[r] \in Places
  BY DEF Row
<1>2. f \in Injection(table, Places)
  BY <1>1 DEF Injection, IsInjective, Unique
<1>3. 0 \in Int /\ Cells + MaxMails \in Int /\ IsFiniteSet(Chars)
  BY BoxAssumption
<1>4. IsFiniteSet(0..(Cells + MaxMails))
  BY <1>3, FS_Interval
<1>5. IsFiniteSet({1, 2})
  <2>1. IsFiniteSet({1})
    BY FS_Singleton
  <2>2. IsFiniteSet({1} \cup {2})
    BY <2>1, FS_AddElement
  <2>3. {1} \cup {2} = {1, 2}
    OBVIOUS
  <2>4. QED BY <2>2, <2>3
<1>6. IsFiniteSet({1, 2} \X (0..(Cells + MaxMails)))
  BY <1>4, <1>5, FS_Product
<1>7. IsFiniteSet(Places)
  BY <1>3, <1>6, FS_Product
<1> HIDE DEF f, Places
<1>8. QED BY <1>2, <1>7, FS_Injection

LEMMA RowsFinite ==
    ASSUME Boxed
    PROVE  IsFiniteSet(rows)
<1>1. rows \in SUBSET Row /\ Unique(rows)
  BY BoxedParts DEF PlacedIn
<1>2. QED BY <1>1, TableFinite

LEMMA RowsFiniteNext ==
    ASSUME Boxed'
    PROVE  IsFiniteSet(rows')
<1>1. rows' \in SUBSET Row /\ Unique(rows')
  BY BoxedPartsNext DEF PlacedIn
<1>2. QED BY <1>1, TableFinite

LEMMA PendingFinite ==
    ASSUME Boxed, NEW c, NEW d, NEW k
    PROVE  /\ IsFiniteSet(Pending(c, d, k)) /\ IsFiniteSet(Queued(c, d, k))
           /\ Cardinality(Pending(c, d, k)) \in Nat /\ Cardinality(Queued(c, d, k)) \in Nat
<1>1. Pending(c, d, k) \in SUBSET rows /\ Queued(c, d, k) \in SUBSET rows
  BY DEF Pending, Queued, Out, Queue, In
<1>2. QED BY <1>1, RowsFinite, FS_Subset, FS_CardinalityType

(* Neither a record more nor a queued parcel less.                         *)
LEMMA SentNeutral ==
    ASSUME Boxed, Boxed', NEW c, NEW d, NEW k,
           Cardinality(Pending(c, d, k)) <= Cardinality(Queued(c, d, k)),
           Pending(c, d, k)' \subseteq Pending(c, d, k), Queued(c, d, k) \subseteq Queued(c, d, k)'
    PROVE  Cardinality(Pending(c, d, k))' <= Cardinality(Queued(c, d, k))'
<1>2. Queued(c, d, k)' \in SUBSET rows'
  BY DEF Queued, Queue, In
<1>3. IsFiniteSet(Queued(c, d, k)') /\ Cardinality(Queued(c, d, k)') \in Nat
  BY <1>2, RowsFiniteNext, FS_Subset, FS_CardinalityType
<1>4. Cardinality(Queued(c, d, k)) <= Cardinality(Queued(c, d, k)')
  BY <1>3, FS_Subset
<1>5. IsFiniteSet(Pending(c, d, k)) /\ Cardinality(Pending(c, d, k)) \in Nat /\ Cardinality(Queued(c, d, k)) \in Nat
  BY PendingFinite
<1>6. Cardinality(Pending(c, d, k)') <= Cardinality(Pending(c, d, k)) /\ Cardinality(Pending(c, d, k)') \in Nat
  BY <1>5, FS_Subset, FS_CardinalityType
<1>7. QED BY <1>3, <1>4, <1>5, <1>6

(* Whose history is clean after a step was right before it.                *)
LEMMA SentBefore ==
    ASSUME Grown, SentIsQueued, NEW c \in Chars, NEW d \in Chars, NEW k \in Kinds,
           c \notin strayed', d \notin raced' \cup strayed'
    PROVE  Cardinality(Pending(c, d, k)) <= Cardinality(Queued(c, d, k))
BY DEF Grown, SentIsQueued

(* Rows that come are not records of something sent, and rows that go are  *)
(* not queued, or in the queue of somebody for whom nothing is claimed.    *)
LEMMA SentKept ==
    ASSUME Boxed, Boxed', Grown, SentIsQueued,
           \A r \in rows' : r \in rows \/ r.box = 1 \/ ~r.sent,
           \A r \in rows : \/ r \in rows' \/ r.box = 2 \/ ~(r.slot >= Cells)
                           \/ r.own \in raced' \cup strayed'
    PROVE  SentIsQueued'
<1>1. SUFFICES ASSUME NEW c \in Chars, NEW d \in Chars, NEW k \in Kinds,
                      c \notin strayed', d \notin raced' \cup strayed'
               PROVE  Cardinality(Pending(c, d, k))' <= Cardinality(Queued(c, d, k))'
  BY DEF SentIsQueued, Kinds
<1>2. Pending(c, d, k)' \subseteq Pending(c, d, k)
  BY DEF Pending, Out
<1>3. Queued(c, d, k) \subseteq Queued(c, d, k)'
  BY <1>1 DEF Queued, Queue, In
<1>4. QED BY <1>1, <1>2, <1>3, SentBefore, SentNeutral

LEMMA ConfirmSent ==
    ASSUME Right, Boxed', Grown, SentIsQueued, NEW c \in Chars, NEW s \in Cell, SendConfirmation(c, s)
    PROVE  SentIsQueued'
<1>1. Boxed /\ PlacedIn(rows, mails) /\ RestOK
  BY BoxedParts DEF Right
<1> DEFINE v == view[c][s]
<1>2. mails < MaxMails /\ open[c] = "send" /\ view[c][s] # Empty
  BY DEF SendConfirmation, Mailed
<1>3. PICK r \in At(Out(c), s) :
          /\ r.peer = v.to /\ ~r.sent
          /\ rows' = (rows \ {r}) \cup {[r EXCEPT !.sent = TRUE], Incoming(v.to, v.item, c)}
  BY DEF SendConfirmation
<1>4. v.item \in Items /\ v.to \in Chars /\ r \in Row /\ r \in rows /\ r.box = 2 /\ r.own = c
  BY <1>1, <1>2, <1>3, ViewFields DEF At, Out, PlacedIn
<1>5. c \notin strayed' => r.item = v.item
  BY <1>2, <1>3 DEF Right, CellsRight, SendAt, Grown
<1> DEFINE x == [r EXCEPT !.sent = TRUE]
           new == Incoming(v.to, v.item, c)
<1>6. x.own = c /\ x.box = 2 /\ x.item = r.item /\ x.peer = r.peer /\ x.sent = TRUE
  BY <1>4, SentRow
<1>7. /\ new.own = v.to /\ new.box = 1 /\ new.item = v.item /\ new.peer = c
      /\ new.slot = NextSlot(v.to) /\ NextSlot(v.to) \in Nat /\ NextSlot(v.to) >= Cells
      /\ \A y \in In(v.to) : y.slot < NextSlot(v.to)
  BY <1>1, <1>2, <1>4, PlacedIncoming
<1>8. rows' = (rows \ {r}) \cup {x, new}
  BY <1>3
<1> HIDE DEF x, new, v
<1>9. SUFFICES ASSUME NEW e \in Chars, NEW d \in Chars, NEW k \in Kinds,
                      e \notin strayed', d \notin raced' \cup strayed'
               PROVE  Cardinality(Pending(e, d, k))' <= Cardinality(Queued(e, d, k))'
  BY DEF SentIsQueued, Kinds
<1>10. CASE e = c /\ d = v.to /\ k = Kind[v.item]
  <2>1. Pending(e, d, k)' \subseteq Pending(e, d, k) \cup {x}
    BY <1>3, <1>7, <1>8, <1>10 DEF Pending, Out
  <2>2. Queued(e, d, k)' = Queued(e, d, k) \cup {new}
    BY <1>4, <1>6, <1>7, <1>8, <1>10 DEF Queued, Queue, In
  <2>3. new \notin Queued(e, d, k)
    BY <1>7, <1>10 DEF Queued, Queue, In
  <2>4. /\ IsFiniteSet(Pending(e, d, k)) /\ IsFiniteSet(Queued(e, d, k))
        /\ Cardinality(Pending(e, d, k)) \in Nat /\ Cardinality(Queued(e, d, k)) \in Nat
    BY <1>1, PendingFinite
  <2>5. Cardinality(Queued(e, d, k)') = Cardinality(Queued(e, d, k)) + 1
    BY <2>2, <2>3, <2>4, FS_AddElement
  <2>6. /\ IsFiniteSet(Pending(e, d, k) \cup {x})
        /\ Cardinality(Pending(e, d, k) \cup {x}) <= Cardinality(Pending(e, d, k)) + 1
        /\ Cardinality(Pending(e, d, k) \cup {x}) \in Nat
    <3>1. IsFiniteSet(Pending(e, d, k) \cup {x})
      BY <2>4, FS_AddElement
    <3>2. Cardinality(Pending(e, d, k) \cup {x})
            = IF x \in Pending(e, d, k) THEN Cardinality(Pending(e, d, k)) ELSE Cardinality(Pending(e, d, k)) + 1
      BY <2>4, FS_AddElement
    <3>3. QED BY <2>4, <3>1, <3>2
  <2>7. /\ Cardinality(Pending(e, d, k)') <= Cardinality(Pending(e, d, k) \cup {x})
        /\ Cardinality(Pending(e, d, k)') \in Nat
    BY <2>1, <2>6, FS_Subset, FS_CardinalityType
  <2>8. Cardinality(Pending(e, d, k)) <= Cardinality(Queued(e, d, k))
    BY <1>9, SentBefore
  <2>9. QED BY <2>4, <2>5, <2>6, <2>7, <2>8
<1>11. CASE ~(e = c /\ d = v.to /\ k = Kind[v.item])
  <2>1. Pending(e, d, k)' \subseteq Pending(e, d, k)
    BY <1>3, <1>5, <1>6, <1>7, <1>8, <1>9, <1>11 DEF Pending, Out
  <2>2. Queued(e, d, k) \subseteq Queued(e, d, k)'
    BY <1>4, <1>8 DEF Queued, Queue, In
  <2>3. QED BY <1>1, <1>9, <2>1, <2>2, SentBefore, SentNeutral
<1>12. QED BY <1>10, <1>11

LEMMA CancelSent ==
    ASSUME Right, Boxed', Grown, SentIsQueued, NEW c \in Chars, NEW s \in Cell, CancelSendingItem(c, s)
    PROVE  SentIsQueued'
<1>1. Boxed /\ PlacedIn(rows, mails) /\ RestOK
  BY BoxedParts DEF Right
<1>2. /\ view[c][s] # Empty /\ open[c] = "send"
      /\ CancelCommits(c, s) \/ CancelFails(c, s)
  BY DEF CancelSendingItem
<1>3. CASE CancelFails(c, s)
  <2>1. rows' \subseteq rows /\ \A r \in rows : r \in rows' \/ r.box = 2
    BY <1>3 DEF CancelFails, At, Out
  <2>2. QED BY <1>1, <2>1, SentKept
<1>4. CASE CancelCommits(c, s)
  <2> DEFINE v == view[c][s]
  <2>1. PICK r \in At(Out(c), s), gone \in LimitOne(Withdrawable(c, v)) :
           r.sent /\ ~r.received /\ rows' = (rows \ ({r} \cup gone)) \cup {[r EXCEPT !.sent = FALSE]}
    BY <1>4 DEF CancelCommits
  <2>2. r \in Row /\ r \in rows /\ r.box = 2 /\ r.own = c
    BY <1>1, <2>1 DEF At, Out, PlacedIn
  <2>3. c \notin strayed' => r.item = v.item /\ r.peer = v.to
    BY <1>2, <2>1 DEF Right, CellsRight, SendAt, Grown
  <2> DEFINE x == [r EXCEPT !.sent = FALSE]
  <2>4. x.own = c /\ x.box = 2 /\ x.sent = FALSE
    BY <2>2, SentRow
  <2>5. Withdrawable(c, v) = Queued(c, v.to, Kind[v.item])
    BY DEF Withdrawable, Queued
  <2>6. rows' = (rows \ ({r} \cup gone)) \cup {x}
    BY <2>1
  <2> HIDE DEF x, v
  <2>7. gone \subseteq Queued(c, v.to, Kind[v.item])
    BY <2>1, <2>5 DEF LimitOne
  <2>8. SUFFICES ASSUME NEW e \in Chars, NEW d \in Chars, NEW k \in Kinds,
                        e \notin strayed', d \notin raced' \cup strayed'
                 PROVE  Cardinality(Pending(e, d, k))' <= Cardinality(Queued(e, d, k))'
    BY DEF SentIsQueued, Kinds
  <2>9. CASE e = c /\ d = v.to /\ k = Kind[v.item]
    <3>1. Pending(e, d, k)' \subseteq Pending(e, d, k) \ {r}
      BY <2>4, <2>6 DEF Pending, Out
    <3>2. r \in Pending(e, d, k)
      BY <2>1, <2>2, <2>3, <2>8, <2>9 DEF Pending, Out
    <3>3. Queued(e, d, k)' = Queued(e, d, k) \ gone
      BY <2>2, <2>4, <2>6 DEF Queued, Queue, In
    <3>4. /\ IsFiniteSet(Pending(e, d, k)) /\ IsFiniteSet(Queued(e, d, k))
          /\ Cardinality(Pending(e, d, k)) \in Nat /\ Cardinality(Queued(e, d, k)) \in Nat
          /\ Cardinality(Pending(e, d, k)) <= Cardinality(Queued(e, d, k))
      BY <1>1, <2>8, PendingFinite, SentBefore
    <3>5. /\ IsFiniteSet(Pending(e, d, k) \ {r})
          /\ Cardinality(Pending(e, d, k) \ {r}) = Cardinality(Pending(e, d, k)) - 1
      BY <3>2, <3>4, FS_RemoveElement
    <3>6. /\ Cardinality(Pending(e, d, k)') <= Cardinality(Pending(e, d, k) \ {r})
          /\ Cardinality(Pending(e, d, k)') \in Nat
      BY <3>1, <3>5, FS_Subset, FS_CardinalityType
    <3>7. gone = {} \/ \E y \in Queued(e, d, k) : gone = {y}
      BY <2>1, <2>5, <2>9 DEF LimitOne
    <3>8. Cardinality(Queued(e, d, k)') >= Cardinality(Queued(e, d, k)) - 1
      <4>1. CASE gone = {}
        <5>1. Queued(e, d, k)' = Queued(e, d, k)
          BY <3>3, <4>1
        <5>2. QED BY <3>4, <5>1
      <4>2. CASE gone # {}
        <5>1. PICK y \in Queued(e, d, k) : gone = {y}
          BY <3>7, <4>2
        <5>2. Cardinality(Queued(e, d, k) \ {y}) = Cardinality(Queued(e, d, k)) - 1
          BY <3>4, FS_RemoveElement
        <5>3. QED BY <3>3, <3>4, <5>1, <5>2
      <4>3. QED BY <4>1, <4>2
    <3>9. Cardinality(Queued(e, d, k)') \in Nat
      BY <3>3, <3>4, FS_Subset, FS_CardinalityType
    <3>10. QED BY <3>4, <3>5, <3>6, <3>8, <3>9
  <2>10. CASE ~(e = c /\ d = v.to /\ k = Kind[v.item])
    <3>1. Pending(e, d, k)' \subseteq Pending(e, d, k)
      BY <2>4, <2>6 DEF Pending, Out
    <3>2. Queued(e, d, k) \subseteq Queued(e, d, k)'
      BY <2>2, <2>6, <2>7, <2>10 DEF Queued, Queue, In
    <3>3. QED BY <1>1, <2>8, <3>1, <3>2, SentBefore, SentNeutral
  <2>11. QED BY <2>9, <2>10
<1>5. QED BY <1>2, <1>3, <1>4

(* Receiving turns different rows into different rows.                     *)
LEMMA TurnedApart ==
    ASSUME Boxed, NEW c \in Chars, NEW q \in Nat, q >= Cells, q <= Cells + MaxMails, NEW s \in Cell,
           ~InTheWay(c, q, s), NEW told, NEW r \in rows, NEW x \in rows,
           Turned(r, told, c, q, s) = Turned(x, told, c, q, s)
    PROVE  r = x
<1>1. rows \subseteq Row /\ Unique(rows)
  BY BoxedParts DEF PlacedIn
<1>2. r \in Row /\ x \in Row
  BY <1>1
<1>3. /\ Turned(r, told, c, q, s).own = r.own /\ Turned(r, told, c, q, s).box = r.box
      /\ Turned(r, told, c, q, s).slot = MovedTo(r, c, q, s)
  BY <1>2, TurnedFields
<1>4. /\ Turned(x, told, c, q, s).own = x.own /\ Turned(x, told, c, q, s).box = x.box
      /\ Turned(x, told, c, q, s).slot = MovedTo(x, c, q, s)
  BY <1>2, TurnedFields
<1>5. r.own = x.own /\ r.box = x.box /\ MovedTo(r, c, q, s) = MovedTo(x, c, q, s)
  BY <1>3, <1>4
<1>6. r.own = c /\ r.box = 1 => ~(r.slot = q /\ x.slot = Way(q, s)) /\ ~(x.slot = q /\ r.slot = Way(q, s))
  BY <1>5 DEF InTheWay, Way, At, In
<1>7. r.slot = x.slot
  BY <1>2, <1>5, <1>6, MovedApart
<1>8. QED BY <1>1, <1>5, <1>7 DEF Unique

(* So there are as many of them.                                           *)
LEMMA ImageOfRows ==
    ASSUME Boxed, NEW f, \A r, x \in rows : f[r] = f[x] => r = x, NEW S \in SUBSET rows
    PROVE  Cardinality({f[r] : r \in S}) = Cardinality(S) /\ Cardinality(S) \in Nat /\ IsFiniteSet(S)
<1>1. IsFiniteSet(S) /\ Cardinality(S) \in Nat
  BY RowsFinite, FS_Subset, FS_CardinalityType
<1>2. \A r, x \in S : f[r] = f[x] => r = x
  OBVIOUS
<1>3. QED BY <1>1, <1>2, ImageCount

(* What a step that receives a parcel does to the table, row by row.       *)
LEMMA ReceivedStep ==
    ASSUME Right, NEW c \in Chars, Received(c), ~UNCHANGED <<rows, view>>
    PROVE  \E q \in Row, s \in Cell : \E told \in LimitOne(Records(c, q)) :
              /\ q.own = c /\ q.box = 1 /\ q.slot >= Cells
              /\ q.slot \in Nat /\ q.slot <= Cells + MaxMails
              /\ ~InTheWay(c, q.slot, s) /\ told \in SUBSET rows
              /\ rows' = {Turned(r, told, c, q.slot, s) : r \in rows}
              /\ c \notin raced' \cup strayed' => q \in rows /\ s # Cells
<1>1. PlacedIn(rows, mails) /\ RestOK /\ ReadsQueue
  BY BoxedParts DEF Right
<1> DEFINE q == reading[c].row
           s == reading[c].cell
<1>2. /\ reading[c] # NoRead /\ ~InTheWay(c, q.slot, s)
      /\ c \notin raced' \cup strayed' => q \in rows /\ s # Cells
      /\ \E told \in LimitOne(Records(c, q)) : rows' = MoveUp(MarkReceived(rows, told), c, q.slot, s)
  BY DEF Received, Strays
<1>3. s \in Cell /\ q \in Row /\ q.slot >= Cells /\ q.own = c /\ q.box = 1
  BY <1>1, <1>2 DEF RestOK, ReadsQueue
<1>4. q.slot \in Nat /\ q.slot <= Cells + MaxMails
  BY <1>3, RowFields
<1>5. PICK told \in LimitOne(Records(c, q)) : rows' = MoveUp(MarkReceived(rows, told), c, q.slot, s)
  BY <1>2
<1> HIDE DEF q, s
<1>6. told \in SUBSET rows
  BY <1>5 DEF LimitOne, Records, Out
<1>7. rows' = {Turned(r, told, c, q.slot, s) : r \in rows}
  BY <1>5, <1>6, ReceivedRows
<1>8. QED BY <1>2, <1>3, <1>4, <1>5, <1>6, <1>7

LEMMA ReceivedSent ==
    ASSUME Right, Boxed', Grown, SentIsQueued, NEW c \in Chars, Received(c)
    PROVE  SentIsQueued'
<1>1. Boxed /\ rows \subseteq Row
  BY BoxedParts DEF Right, PlacedIn
<1>2. CASE UNCHANGED <<rows, view>>
  BY <1>1, <1>2, SentKept
<1>3. CASE ~UNCHANGED <<rows, view>>
  <2>1. PICK q \in Row, s \in Cell : \E told \in LimitOne(Records(c, q)) :
              /\ q.own = c /\ q.box = 1 /\ q.slot >= Cells
              /\ q.slot \in Nat /\ q.slot <= Cells + MaxMails
              /\ ~InTheWay(c, q.slot, s) /\ told \in SUBSET rows
              /\ rows' = {Turned(r, told, c, q.slot, s) : r \in rows}
              /\ c \notin raced' \cup strayed' => q \in rows /\ s # Cells
    BY <1>3, ReceivedStep
  <2>2. PICK told \in LimitOne(Records(c, q)) :
              told \in SUBSET rows /\ rows' = {Turned(r, told, c, q.slot, s) : r \in rows}
    BY <2>1
  <2> DEFINE F(r) == Turned(r, told, c, q.slot, s)
  <2>3. ASSUME NEW r \in rows
        PROVE  /\ F(r).own = r.own /\ F(r).box = r.box /\ F(r).item = r.item
               /\ F(r).peer = r.peer /\ F(r).sent = r.sent
               /\ F(r).received = (r.received \/ r \in told)
               /\ F(r).slot = MovedTo(r, c, q.slot, s)
    <3>1. r \in Row
      BY <1>1
    <3>2. QED BY <2>1, <3>1, TurnedFields
  <2>4. rows' = {F(r) : r \in rows}
    BY <2>2
  <2>5. ASSUME NEW S \in SUBSET rows
        PROVE  Cardinality({F(r) : r \in S}) = Cardinality(S) /\ Cardinality(S) \in Nat /\ IsFiniteSet(S)
    <3> DEFINE f == [r \in rows |-> F(r)]
    <3>1. PICK n \in Nat : n = q.slot
      BY <2>1
    <3>2. n >= Cells /\ n <= Cells + MaxMails /\ ~InTheWay(c, n, s)
      BY <2>1, <3>1
    <3>3. ASSUME NEW r \in rows, NEW x \in rows, F(r) = F(x) PROVE r = x
      BY <1>1, <3>1, <3>2, <3>3, TurnedApart
    <3>4. {F(r) : r \in S} = {f[r] : r \in S}
      OBVIOUS
    <3>5. \A r, x \in rows : f[r] = f[x] => r = x
      BY <3>3
    <3> HIDE DEF f, F
    <3>6. Cardinality({f[r] : r \in S}) = Cardinality(S) /\ Cardinality(S) \in Nat /\ IsFiniteSet(S)
      BY <1>1, <3>5, ImageOfRows
    <3>7. QED BY <3>4, <3>6
  <2> HIDE DEF F
  <2>6. ASSUME NEW r \in rows, r.box = 1, r.own = c => q \in rows /\ s # Cells
        PROVE  F(r).slot >= Cells <=> r.slot >= Cells /\ r # q
    <3>1. r.slot \in Nat /\ s \in Nat /\ s <= Cells /\ Cells \in Nat /\ r \in Row
      BY <1>1, RowFields, Sizes
    <3>2. CASE r = q
      BY <2>1, <2>3, <2>6, <3>1, <3>2 DEF MovedTo
    <3>3. CASE r # q
      <4>1. r.own = c => r.slot # q.slot
        BY <1>1, <2>1, <2>6, <3>3, BoxedParts DEF PlacedIn, Unique
      <4>2. QED BY <2>1, <2>3, <2>6, <3>1, <3>3, <4>1 DEF MovedTo
    <3>4. QED BY <3>2, <3>3
  <2>7. SUFFICES ASSUME NEW e \in Chars, NEW d \in Chars, NEW k \in Kinds,
                        e \notin strayed', d \notin raced' \cup strayed'
                 PROVE  Cardinality(Pending(e, d, k)') <= Cardinality(Queued(e, d, k)')
    BY DEF SentIsQueued, Kinds
  <2> DEFINE A == Pending(e, d, k)
             B == Queued(e, d, k)
  <2>8. A \in SUBSET rows /\ B \in SUBSET rows
    BY DEF Pending, Queued, Out, Queue, In
  <2>9. Pending(e, d, k)' = {F(r) : r \in A \ told}
    <3>1. ASSUME NEW r \in rows
          PROVE  F(r) \in Pending(e, d, k)' <=> r \in A \ told
      BY <2>3, <2>4 DEF Pending, Out
    <3>2. Pending(e, d, k)' \subseteq {F(r) : r \in rows}
      BY <2>4 DEF Pending, Out
    <3>3. QED BY <2>8, <3>1, <3>2
  <2>10. Queued(e, d, k)' = {F(r) : r \in B \ {q}}
    <3>1. ASSUME NEW r \in rows
          PROVE  F(r) \in Queued(e, d, k)' <=> r \in B \ {q}
      <4>1. r.box = 1 /\ r.own = d => (F(r).slot >= Cells <=> r.slot >= Cells /\ r # q)
        BY <2>1, <2>6, <2>7
      <4>2. QED BY <2>3, <2>4, <4>1 DEF Queued, Queue, In
    <3>2. Queued(e, d, k)' \subseteq {F(r) : r \in rows}
      BY <2>4 DEF Queued, Queue, In
    <3>3. QED BY <2>8, <3>1, <3>2
  <2>11. /\ Cardinality(Pending(e, d, k)') = Cardinality(A \ told)
         /\ Cardinality(Queued(e, d, k)') = Cardinality(B \ {q})
         /\ Cardinality(A \ told) \in Nat /\ Cardinality(B \ {q}) \in Nat
    <3>1. A \ told \in SUBSET rows /\ B \ {q} \in SUBSET rows
      BY <2>8
    <3>2. QED BY <2>5, <2>9, <2>10, <3>1
  <2>12. /\ IsFiniteSet(A) /\ IsFiniteSet(B) /\ Cardinality(A) \in Nat /\ Cardinality(B) \in Nat
         /\ Cardinality(A) <= Cardinality(B)
    BY <2>5, <2>7, <2>8, SentBefore
  <2>13. Records(c, q) = Pending(q.peer, c, Kind[q.item])
    BY DEF Records, Pending
  <2>14. CASE e = q.peer /\ d = c /\ k = Kind[q.item]
    <3>1. q \in B
      BY <2>1, <2>7, <2>14 DEF Queued, Queue, In
    <3>2. Cardinality(B \ {q}) = Cardinality(B) - 1
      BY <2>12, <3>1, FS_RemoveElement
    <3>3. CASE A = {}
      <4>1. A \ told = {}
        BY <3>3
      <4>2. Cardinality(A \ told) = 0
        BY <4>1, FS_EmptySet
      <4>3. QED BY <2>11, <4>2
    <3>4. CASE A # {}
      <4>1. PICK y \in A : told = {y}
        BY <2>2, <2>13, <2>14, <3>4 DEF LimitOne
      <4>2. Cardinality(A \ {y}) = Cardinality(A) - 1
        BY <2>12, FS_RemoveElement
      <4>3. QED BY <2>11, <2>12, <3>2, <4>1, <4>2
    <3>5. QED BY <3>3, <3>4
  <2>15. CASE ~(e = q.peer /\ d = c /\ k = Kind[q.item])
    <3>1. q \notin B
      BY <2>1, <2>15 DEF Queued, Queue, In
    <3>2. B \ {q} = B
      BY <3>1
    <3>3. A \ told \in SUBSET A
      OBVIOUS
    <3>4. Cardinality(A \ told) <= Cardinality(A)
      BY <2>12, <3>3, FS_Subset
    <3>5. QED BY <2>11, <2>12, <3>2, <3>4
  <2>16. QED BY <2>14, <2>15
<1>4. QED BY <1>2, <1>3

(* What is taken from a cell of the incoming box was not in the queue.     *)
LEMMA BeforeTheQueue ==
    ASSUME Right, Grown, NEW c \in Chars, NEW s \in Cell, open[c] = "recv", view[c][s] # Empty
    PROVE  ~(s >= Cells) \/ c \in raced' \cup strayed'
<1>1. c \notin raced' \cup strayed' => s # Cells
  BY DEF Right, CellsRight, RecvAt, Grown
<1>2. QED BY <1>1, Sizes

LEMMA SentStep ==
    ASSUME Right, Boxed', Grown, SentIsQueued, [Next]_vars
    PROVE  SentIsQueued'
<1>1. Boxed /\ PlacedIn(rows, mails)
  BY BoxedParts DEF Right
<1>2. ASSUME UNCHANGED rows PROVE SentIsQueued'
  BY <1>1, <1>2, SentKept
<1>3. ASSUME NEW c \in Chars,
             (\E which \in {"send", "recv"} : OpenBox(c, which)) \/ CloseMailWindow(c) \/ (\E b \in {1, 2} : SendOldItems(c, b))
      PROVE  SentIsQueued'
  BY <1>2, <1>3 DEF OpenBox, CloseMailWindow, SendOldItems, itemVars
<1>4. ASSUME NEW c \in Chars, NEW s \in Cell, NEW i \in Items, NEW to \in Chars,
             AddItemsToBeSent(c, i, s, to)
      PROVE  SentIsQueued'
  <2> DEFINE new == [own |-> c, box |-> 2, slot |-> s, item |-> i, peer |-> to,
                     sent |-> FALSE, received |-> FALSE]
  <2>1. rows' = rows \cup {new} /\ ~new.sent
    BY <1>4 DEF AddItemsToBeSent
  <2> HIDE DEF new
  <2>2. QED BY <1>1, <2>1, SentKept
<1>5. ASSUME NEW c \in Chars, RemoveDelivered(c) PROVE SentIsQueued'
  <2> DEFINE done == {x \in Out(c) : x.received}
             r == First(done)
  <2>1. done # {} /\ rows' = rows \ {r}
    BY <1>5 DEF RemoveDelivered
  <2>2. done \in SUBSET Row
    BY <1>1 DEF Out, PlacedIn
  <2>3. r \in done
    <3> HIDE DEF done
    <3>1. QED BY <2>1, <2>2, FirstExists
  <2>4. r.box = 2
    BY <2>3 DEF Out
  <2> HIDE DEF done, r
  <2>5. QED BY <1>1, <2>1, <2>4, SentKept
<1>6. ASSUME NEW c \in Chars, NEW s \in Cell, SendNewItems(c, s) PROVE SentIsQueued'
  BY <1>2, <1>6 DEF SendNewItems, itemVars
<1>7. ASSUME NEW c \in Chars, NEW s \in Cell, ReturnToSender(c, s) PROVE SentIsQueued'
  <2> DEFINE i == view[c][s].item
  <2>1. open[c] = "recv" /\ view[c][s] # Empty
    BY <1>7 DEF ReturnToSender
  <2>2. PICK r \in At(In(c), s) : r.peer # System /\ rows' = (rows \cup {Incoming(r.peer, i, c)}) \ {r}
    BY <1>7 DEF ReturnToSender
  <2>3. ~(r.slot >= Cells) \/ r.own \in raced' \cup strayed'
    BY <2>1, BeforeTheQueue DEF At, In
  <2>4. Incoming(r.peer, i, c).box = 1
    BY DEF Incoming
  <2>5. QED BY <1>1, <2>2, <2>3, <2>4, SentKept
<1>8. ASSUME NEW c \in Chars, NEW s \in Cell, NEW b \in {1, 2}, TakeItemFromCell(c, b, s) PROVE SentIsQueued'
  <2>1. /\ view[c][s] # Empty /\ open[c] # "none" /\ Strays(c, ~OpenIs(c, b))
        /\ rows' \subseteq rows /\ \A r \in rows : r \in rows' \/ r \in At(Box(c, b), s)
    BY <1>8 DEF TakeItemFromCell
  <2>3. ASSUME b = 1, c \notin strayed' PROVE open[c] = "recv"
    BY <2>1, <2>3 DEF Strays, OpenIs
  <2>4. \A r \in At(Box(c, b), s) : r.box = 2 \/ ~(r.slot >= Cells) \/ r.own \in raced' \cup strayed'
    BY <2>1, <2>3, BeforeTheQueue DEF At, Box, In, Out
  <2>5. QED BY <1>1, <2>1, <2>4, SentKept
<1>9. ASSUME NEW c \in Chars, NEW s \in Cell, RemoveItemFromCell(c, s) PROVE SentIsQueued'
  <2>1. /\ view[c][s] # Empty /\ open[c] = "recv"
        /\ rows' \subseteq rows /\ \A r \in rows : r \in rows' \/ (r.own = c /\ r.slot = s)
    BY <1>9 DEF RemoveItemFromCell, At, In
  <2>2. QED BY <1>1, <2>1, BeforeTheQueue, SentKept
<1>10. ASSUME NEW c \in Chars, NEW i \in Items, NEW from \in {System, c}, SystemMail(c, i, from)
       PROVE  SentIsQueued'
  <2>1. rows' = rows \cup {Incoming(c, i, from)} /\ Incoming(c, i, from).box = 1
    BY <1>10 DEF SystemMail, Incoming
  <2>2. QED BY <1>1, <2>1, SentKept
<1>11. ASSUME UNCHANGED vars PROVE SentIsQueued'
  BY <1>2, <1>11 DEF vars, itemVars
<1>12. QED BY <1>3, <1>4, <1>5, <1>6, <1>7, <1>8, <1>9, <1>10, <1>11, ConfirmSent, CancelSent, ReceivedSent DEF Next

LEMMA SentInitially == Init => SentIsQueued
<1> SUFFICES ASSUME Init, NEW c \in Chars, NEW d \in Chars, NEW k \in Kinds
             PROVE  Cardinality(Pending(c, d, k)) <= Cardinality(Queued(c, d, k))
  BY DEF SentIsQueued
<1>1. Pending(c, d, k) = {} /\ Queued(c, d, k) = {}
  BY DEF Init, Pending, Queued, Out, Queue, In
<1>2. QED BY <1>1, FS_EmptySet

(* SentIsQueued, whatever others do: CancelSendingItem, which does not     *)
(* look whether it deleted a queued row, always finds one to delete, until *)
(* the sender or the recipient strays or the recipient's read is overtaken.*)
THEOREM CancelFindsTheParcel == Spec => []SentIsQueued
<1>1. Right /\ SentIsQueued /\ [Next]_vars => Right' /\ SentIsQueued'
  BY RightStep, HistoryStep, SentStep DEF Right
<1>2. QED BY <1>1, RightInitially, SentInitially, PTL DEF Spec

-----------------------------------------------------------------------------
(* Nothing was overtaken and nobody strayed.                               *)
Calm == raced = {} /\ strayed = {}

(* One parcel of kind k, or none.                                          *)
One(i, k) == IF Kind[i] = k THEN 1 ELSE 0
HeldIn(table, k) == {r \in table : Holds(r) /\ Kind[r.item] = k}

LEMMA OneType ==
    ASSUME NEW i, NEW k
    PROVE  One(i, k) \in {0, 1} /\ One(i, k) \in Nat
BY DEF One

LEMMA HeldIs == ASSUME NEW k PROVE Held(k) = HeldIn(rows, k) /\ Held(k)' = HeldIn(rows', k)
BY DEF Held, HeldIn, Holds

LEMMA OfKindFinite ==
    ASSUME NEW k
    PROVE  IsFiniteSet(OfKind(k)) /\ OfKind(k) \subseteq Items
<1>1. OfKind(k) \subseteq Items
  BY DEF OfKind
<1>2. QED BY <1>1, BoxAssumption, FS_Subset

(* A copy more or less of one item.                                        *)
LEMMA CopiesChange ==
    ASSUME NEW f \in [Items -> Nat], NEW g \in [Items -> Nat], NEW i \in Items, NEW k,
           \A j \in Items \ {i} : g[j] = f[j]
    PROVE  /\ Copies(f, k) \in Nat /\ Copies(g, k) \in Nat
           /\ g[i] = f[i] + 1 => Copies(g, k) = Copies(f, k) + One(i, k)
           /\ f[i] = g[i] + 1 => Copies(f, k) = Copies(g, k) + One(i, k)
<1>1. IsFiniteSet(OfKind(k)) /\ \A j \in OfKind(k) : f[j] \in Nat /\ g[j] \in Nat
  BY OfKindFinite
<1>2. Copies(f, k) \in Nat /\ Copies(g, k) \in Nat
  BY <1>1, UnitsFinite DEF Copies
<1>3. CASE Kind[i] = k
  <2>1. i \in OfKind(k) /\ \A j \in OfKind(k) \ {i} : g[j] = f[j]
    BY <1>3 DEF OfKind
  <2>2. Copies(g, k) = Copies(f, k) + g[i] - f[i]
    BY <1>1, <2>1, TallyChange DEF Copies
  <2>3. One(i, k) = 1
    BY <1>3 DEF One
  <2>4. f[i] \in Nat /\ g[i] \in Nat
    OBVIOUS
  <2>5. QED BY <1>2, <2>2, <2>3, <2>4
<1>4. CASE Kind[i] # k
  <2>1. \A j \in OfKind(k) : f[j] = g[j]
    BY <1>4 DEF OfKind
  <2>2. Copies(f, k) = Copies(g, k)
    BY <2>1, TallyEqual DEF Copies
  <2>3. One(i, k) = 0
    BY <1>4 DEF One
  <2>4. QED BY <1>2, <2>2, <2>3
<1>5. QED BY <1>3, <1>4

LEMMA MoreCopies ==
    ASSUME NEW f \in [Items -> Nat], NEW i \in Items, NEW k
    PROVE  /\ Copies(f, k) \in Nat /\ Copies(More(f, i), k) = Copies(f, k) + One(i, k)
           /\ f[i] > 0 => Copies(f, k) = Copies(Less(f, i), k) + One(i, k) /\ Copies(Less(f, i), k) \in Nat
<1> DEFINE m == More(f, i)
           l == Less(f, i)
<1>1. m \in [Items -> Nat] /\ m[i] = f[i] + 1 /\ \A j \in Items \ {i} : m[j] = f[j]
  BY MoreType DEF More
<1>2. ASSUME f[i] > 0
      PROVE  l \in [Items -> Nat] /\ f[i] = l[i] + 1 /\ \A j \in Items \ {i} : l[j] = f[j]
  <2>1. l \in [Items -> Nat]
    BY <1>2, MoreType
  <2>2. l[i] = f[i] - 1 /\ \A j \in Items \ {i} : l[j] = f[j]
    BY DEF Less
  <2>3. f[i] \in Nat
    OBVIOUS
  <2> HIDE DEF l
  <2>4. QED BY <2>1, <2>2, <2>3
<1> HIDE DEF m, l
<1>3. Copies(f, k) \in Nat /\ Copies(m, k) = Copies(f, k) + One(i, k)
  BY <1>1, CopiesChange
<1>4. f[i] > 0 => Copies(f, k) = Copies(l, k) + One(i, k) /\ Copies(l, k) \in Nat
  BY <1>2, CopiesChange
<1>5. QED BY <1>3, <1>4 DEF m, l

(* One inventory changes.                                                  *)
SameBut(f, g, c) == \A d \in Chars \ {c} : g[d] = f[d]

LEMMA EveryonesChange ==
    ASSUME NEW f \in [Chars -> [Items -> Nat]], NEW g \in [Chars -> [Items -> Nat]],
           NEW c \in Chars, SameBut(f, g, c), NEW k
    PROVE  /\ Everyones(f, k) \in Nat /\ Everyones(g, k) \in Nat
           /\ Copies(f[c], k) \in Nat /\ Copies(g[c], k) \in Nat
           /\ Copies(f[c], k) <= Everyones(f, k)
           /\ Everyones(g, k) = Everyones(f, k) + Copies(g[c], k) - Copies(f[c], k)
<1> DEFINE F == [d \in Chars |-> Copies(f[d], k)]
           G == [d \in Chars |-> Copies(g[d], k)]
<1>1. ASSUME NEW h \in [Items -> Nat] PROVE Copies(h, k) \in Nat
  <2>1. IsFiniteSet(OfKind(k)) /\ \A j \in OfKind(k) : h[j] \in Nat
    BY OfKindFinite
  <2>2. QED BY <2>1, UnitsFinite DEF Copies
<1>2. \A d \in Chars : F[d] \in Nat /\ G[d] \in Nat
  BY <1>1
<1>3. /\ \A d \in Chars \ {c} : G[d] = F[d]
      /\ F[c] = Copies(f[c], k) /\ G[c] = Copies(g[c], k)
  BY DEF SameBut
<1>4. Everyones(f, k) = Tally(F, Chars) /\ Everyones(g, k) = Tally(G, Chars)
  BY DEF Everyones
<1>5. IsFiniteSet(Chars)
  BY BoxAssumption
<1> HIDE DEF F, G
<1>6. Tally(F, Chars) \in Nat /\ Tally(G, Chars) \in Nat
  BY <1>2, <1>5, UnitsFinite
<1>7. F[c] <= Tally(F, Chars)
  BY <1>2, <1>5, TallyTerm
<1>8. Tally(G, Chars) = Tally(F, Chars) + G[c] - F[c]
  BY <1>2, <1>3, <1>5, TallyChange
<1>9. QED BY <1>2, <1>3, <1>4, <1>6, <1>7, <1>8

(* A row that is an item comes, or goes.                                   *)
LEMMA HeldMore ==
    ASSUME NEW table, IsFiniteSet(table), NEW r, r \notin table, NEW k
    PROVE  /\ Cardinality(HeldIn(table, k)) \in Nat
           /\ Holds(r) => Cardinality(HeldIn(table \cup {r}, k)) = Cardinality(HeldIn(table, k)) + One(r.item, k)
           /\ ~Holds(r) => HeldIn(table \cup {r}, k) = HeldIn(table, k)
<1>1. HeldIn(table, k) \subseteq table
  BY DEF HeldIn
<1>2. IsFiniteSet(HeldIn(table, k)) /\ Cardinality(HeldIn(table, k)) \in Nat
  BY <1>1, FS_Subset, FS_CardinalityType
<1>3. ASSUME ~Holds(r) PROVE HeldIn(table \cup {r}, k) = HeldIn(table, k)
  BY <1>3 DEF HeldIn
<1>4. ASSUME Holds(r)
      PROVE  Cardinality(HeldIn(table \cup {r}, k)) = Cardinality(HeldIn(table, k)) + One(r.item, k)
  <2>1. CASE Kind[r.item] = k
    <3>1. HeldIn(table \cup {r}, k) = HeldIn(table, k) \cup {r}
      BY <1>4, <2>1 DEF HeldIn
    <3>2. r \notin HeldIn(table, k)
      BY <1>1
    <3>3. Cardinality(HeldIn(table, k) \cup {r}) = Cardinality(HeldIn(table, k)) + 1
      BY <1>2, <3>2, FS_AddElement
    <3>4. QED BY <2>1, <3>1, <3>3 DEF One
  <2>2. CASE Kind[r.item] # k
    <3>1. HeldIn(table \cup {r}, k) = HeldIn(table, k)
      BY <2>2 DEF HeldIn
    <3>2. One(r.item, k) = 0
      BY <2>2 DEF One
    <3>3. QED BY <1>2, <3>1, <3>2
  <2>3. QED BY <2>1, <2>2
<1>5. QED BY <1>2, <1>3, <1>4

LEMMA HeldLess ==
    ASSUME NEW table, IsFiniteSet(table), NEW r \in table, NEW k
    PROVE  /\ IsFiniteSet(table \ {r})
           /\ Cardinality(HeldIn(table, k)) \in Nat /\ Cardinality(HeldIn(table \ {r}, k)) \in Nat
           /\ Holds(r) => Cardinality(HeldIn(table, k)) = Cardinality(HeldIn(table \ {r}, k)) + One(r.item, k)
           /\ ~Holds(r) => HeldIn(table, k) = HeldIn(table \ {r}, k)
<1> DEFINE rest == table \ {r}
<1>1. IsFiniteSet(rest) /\ r \notin rest /\ rest \cup {r} = table
  BY FS_RemoveElement
<1> HIDE DEF rest
<1>2. /\ Cardinality(HeldIn(rest, k)) \in Nat
      /\ Holds(r) => Cardinality(HeldIn(rest \cup {r}, k)) = Cardinality(HeldIn(rest, k)) + One(r.item, k)
      /\ ~Holds(r) => HeldIn(rest \cup {r}, k) = HeldIn(rest, k)
  BY <1>1, HeldMore
<1>3. IsFiniteSet(HeldIn(table, k))
  <2>1. HeldIn(table, k) \subseteq table
    BY DEF HeldIn
  <2>2. QED BY <2>1, FS_Subset
<1>4. Cardinality(HeldIn(table, k)) \in Nat
  BY <1>3, FS_CardinalityType
<1>5. QED BY <1>1, <1>2, <1>4 DEF rest

(* Count, before and after a step.                                         *)
LEMMA CountIs ==
    ASSUME NEW k
    PROVE  /\ Count(k) = Copies(stock, k) + Copies(thrown, k) + Copies(orphaned, k)
                         + Everyones(bag, k) + Cardinality(HeldIn(rows, k))
           /\ Count(k)' = Copies(stock', k) + Copies(thrown', k) + Copies(orphaned', k)
                          + Everyones(bag', k) + Cardinality(HeldIn(rows', k))
<1>1. Held(k) = HeldIn(rows, k) /\ Held(k)' = HeldIn(rows', k)
  BY HeldIs
<1>2. Count(k) = Copies(stock, k) + Copies(thrown, k) + Copies(orphaned, k) + Everyones(bag, k) + Cardinality(Held(k))
  BY DEF Count
<1>3. Count(k)' = Copies(stock', k) + Copies(thrown', k) + Copies(orphaned', k) + Everyones(bag', k) + Cardinality(Held(k)')
  BY DEF Count, Copies, Everyones, OfKind
<1>4. QED BY <1>1, <1>2, <1>3

LEMMA CountParts ==
    ASSUME Boxed, HistoryOK, NEW k
    PROVE  /\ Copies(stock, k) \in Nat /\ Copies(thrown, k) \in Nat /\ Copies(orphaned, k) \in Nat /\ Everyones(bag, k) \in Nat
           /\ Cardinality(HeldIn(rows, k)) \in Nat
<1>1. /\ stock \in [Items -> Nat] /\ thrown \in [Items -> Nat] /\ orphaned \in [Items -> Nat]
      /\ bag \in [Chars -> [Items -> Nat]]
  BY BoxedParts DEF RestOK, HistoryOK
<1>2. ASSUME NEW h \in [Items -> Nat] PROVE Copies(h, k) \in Nat
  <2>1. IsFiniteSet(OfKind(k)) /\ \A j \in OfKind(k) : h[j] \in Nat
    BY OfKindFinite
  <2>2. QED BY <2>1, UnitsFinite DEF Copies
<1>3. Everyones(bag, k) \in Nat
  <2> DEFINE F == [d \in Chars |-> Copies(bag[d], k)]
  <2>1. \A d \in Chars : F[d] \in Nat
    BY <1>1, <1>2
  <2>2. Everyones(bag, k) = Tally(F, Chars)
    BY DEF Everyones
  <2> HIDE DEF F
  <2>3. QED BY <2>1, <2>2, BoxAssumption, UnitsFinite
<1>4. HeldIn(rows, k) \subseteq rows
  BY DEF HeldIn
<1>5. Cardinality(HeldIn(rows, k)) \in Nat
  BY <1>4, RowsFinite, FS_Subset, FS_CardinalityType
<1>6. QED BY <1>1, <1>2, <1>3, <1>5

(* Only the table changes, and as many of its rows are items.              *)
LEMMA CountKept ==
    ASSUME NEW k, UNCHANGED <<bag, stock, thrown, orphaned>>,
           Cardinality(HeldIn(rows', k)) = Cardinality(HeldIn(rows, k))
    PROVE  Count(k)' = Count(k)
BY CountIs

LEMMA AddCount ==
    ASSUME Right, Calm, NEW c \in Chars, NEW s \in Cell, NEW i \in Items, NEW to \in Chars,
           AddItemsToBeSent(c, i, s, to), NEW k
    PROVE  Count(k)' = Count(k)
<1>1. Boxed /\ HistoryOK /\ RestOK /\ IsFiniteSet(rows)
  BY BoxedParts, RowsFinite DEF Right
<1> DEFINE new == [own |-> c, box |-> 2, slot |-> s, item |-> i, peer |-> to,
                   sent |-> FALSE, received |-> FALSE]
<1>2. rows' = rows \cup {new} /\ new \notin rows /\ Holds(new) /\ new.item = i
  BY DEF AddItemsToBeSent, At, Out, Holds
<1>3. bag[c][i] > 0 /\ bag' = [bag EXCEPT ![c] = Less(bag[c], i)] /\ UNCHANGED <<stock, thrown, orphaned>>
  BY DEF AddItemsToBeSent, history
<1>4. bag \in [Chars -> [Items -> Nat]] /\ bag[c] \in [Items -> Nat]
  BY <1>1 DEF RestOK
<1>5. Less(bag[c], i) \in [Items -> Nat]
  BY <1>3, <1>4, MoreType
<1>6. bag' \in [Chars -> [Items -> Nat]] /\ bag'[c] = Less(bag[c], i) /\ SameBut(bag, bag', c)
  BY <1>3, <1>4, <1>5 DEF SameBut
<1> HIDE DEF new
<1>7. /\ Cardinality(HeldIn(rows, k)) \in Nat
      /\ Cardinality(HeldIn(rows', k)) = Cardinality(HeldIn(rows, k)) + One(i, k)
  BY <1>1, <1>2, HeldMore
<1>8. Copies(bag[c], k) = Copies(bag'[c], k) + One(i, k)
  BY <1>3, <1>4, <1>6, MoreCopies
<1>9. /\ Everyones(bag, k) \in Nat /\ Everyones(bag', k) \in Nat
      /\ Copies(bag[c], k) \in Nat /\ Copies(bag'[c], k) \in Nat
      /\ Everyones(bag', k) = Everyones(bag, k) + Copies(bag'[c], k) - Copies(bag[c], k)
  BY <1>4, <1>6, EveryonesChange
<1>10. One(i, k) \in Nat
  BY OneType
<1>11. Everyones(bag', k) + One(i, k) = Everyones(bag, k)
  BY <1>8, <1>9, <1>10
<1>12. Copies(stock, k) \in Nat /\ Copies(thrown, k) \in Nat /\ Copies(orphaned, k) \in Nat
  BY <1>1, CountParts
<1>13. /\ Count(k) = Copies(stock, k) + Copies(thrown, k) + Copies(orphaned, k)
                     + Everyones(bag, k) + Cardinality(HeldIn(rows, k))
       /\ Count(k)' = Copies(stock, k) + Copies(thrown, k) + Copies(orphaned, k)
                      + Everyones(bag', k) + Cardinality(HeldIn(rows', k))
  BY <1>3, CountIs
<1>14. QED BY <1>7, <1>9, <1>10, <1>11, <1>12, <1>13

LEMMA ConfirmCount ==
    ASSUME Right, Calm, NEW c \in Chars, NEW s \in Cell, SendConfirmation(c, s), NEW k
    PROVE  Count(k)' = Count(k)
<1>1. Boxed /\ HistoryOK /\ PlacedIn(rows, mails) /\ RestOK /\ IsFiniteSet(rows)
  BY BoxedParts, RowsFinite DEF Right
<1> DEFINE v == view[c][s]
<1>2. mails < MaxMails /\ open[c] = "send" /\ view[c][s] # Empty /\ UNCHANGED <<bag, stock, thrown, orphaned>>
  BY DEF SendConfirmation, Mailed, history
<1>3. PICK r \in At(Out(c), s) :
          /\ r.peer = v.to /\ ~r.sent
          /\ rows' = (rows \ {r}) \cup {[r EXCEPT !.sent = TRUE], Incoming(v.to, v.item, c)}
  BY DEF SendConfirmation
<1>4. v.item \in Items /\ v.to \in Chars /\ r \in Row /\ r \in rows /\ r.box = 2 /\ r.own = c
  BY <1>1, <1>2, <1>3, ViewFields DEF At, Out, PlacedIn
<1>5. r.item = v.item
  BY <1>2, <1>3 DEF Right, CellsRight, Calm, SendAt
<1> DEFINE x == [r EXCEPT !.sent = TRUE]
           new == Incoming(v.to, v.item, c)
<1>6. x.own = c /\ x.box = 2 /\ x.sent = TRUE /\ x.slot = r.slot
  BY <1>4, SentRow DEF Row
<1>7. /\ new.own = v.to /\ new.box = 1 /\ new.item = v.item /\ new.slot = NextSlot(v.to)
      /\ NextSlot(v.to) \in Nat /\ \A y \in In(v.to) : y.slot < NextSlot(v.to)
  BY <1>1, <1>2, <1>4, PlacedIncoming
<1>8. rows' = ((rows \ {r}) \cup {x}) \cup {new}
  BY <1>3
<1> HIDE DEF x, new, v
<1>9. new \notin rows /\ new # x /\ Holds(new) /\ ~Holds(x) /\ Holds(r)
  BY <1>3, <1>4, <1>6, <1>7 DEF In, Holds
<1>10. x \notin rows \ {r}
  BY <1>1, <1>4, <1>6 DEF PlacedIn, Unique
<1> DEFINE rest == rows \ {r}
           table == rest \cup {x}
<1>11. /\ IsFiniteSet(rest) /\ Cardinality(HeldIn(rest, k)) \in Nat
       /\ Cardinality(HeldIn(rows, k)) = Cardinality(HeldIn(rest, k)) + One(r.item, k)
  BY <1>1, <1>4, <1>9, HeldLess
<1>12. rows' = table \cup {new} /\ new \notin table /\ x \notin rest
  BY <1>8, <1>9, <1>10
<1> HIDE DEF rest
<1>13. IsFiniteSet(table) /\ HeldIn(table, k) = HeldIn(rest, k)
  BY <1>9, <1>11, <1>12, HeldMore, FS_AddElement
<1> HIDE DEF table
<1>14. Cardinality(HeldIn(rows', k)) = Cardinality(HeldIn(table, k)) + One(new.item, k)
  BY <1>9, <1>12, <1>13, HeldMore
<1>15. Cardinality(HeldIn(rows', k)) = Cardinality(HeldIn(rows, k))
  BY <1>5, <1>7, <1>11, <1>13, <1>14
<1>16. QED BY <1>2, <1>15, CountKept

(* The record becomes an item again, and the parcel that is deleted from   *)
(* the queue is there: SentIsQueued. If the transaction fails, a record    *)
(* goes, which is no item, or an unsent parcel, which is counted.          *)
LEMMA CancelCount ==
    ASSUME Right, Calm, SentIsQueued, NEW c \in Chars, NEW s \in Cell, CancelSendingItem(c, s), NEW k
    PROVE  Count(k)' = Count(k)
<1>1. Boxed /\ HistoryOK /\ PlacedIn(rows, mails) /\ RestOK /\ IsFiniteSet(rows)
  BY BoxedParts, RowsFinite DEF Right
<1>2. /\ view[c][s] # Empty /\ open[c] = "send"
      /\ CancelCommits(c, s) \/ CancelFails(c, s)
  BY DEF CancelSendingItem
<1>3. UNCHANGED <<bag, stock, thrown>>
  BY DEF CancelSendingItem
<1> DEFINE v == view[c][s]
<1>4. v.item \in Items
  BY <1>1, <1>2, ViewFields
<1>5. CASE CancelFails(c, s)
  <2>1. PICK r \in At(Out(c), s) :
           rows' = rows \ {r} /\ orphaned' = IF r.sent THEN orphaned ELSE More(orphaned, r.item)
    BY <1>5 DEF CancelFails
  <2>2. r \in rows /\ r \in Row /\ r.box = 2
    BY <1>1, <2>1 DEF At, Out, PlacedIn
  <2>3. r.item \in Items /\ r.sent \in BOOLEAN
    BY <2>2, RowFields
  <2>4. /\ Cardinality(HeldIn(rows, k)) \in Nat /\ Cardinality(HeldIn(rows', k)) \in Nat
        /\ Holds(r) => Cardinality(HeldIn(rows, k)) = Cardinality(HeldIn(rows', k)) + One(r.item, k)
        /\ ~Holds(r) => HeldIn(rows, k) = HeldIn(rows', k)
    BY <1>1, <2>1, <2>2, HeldLess
  <2>5. CASE r.sent
    <3>1. HeldIn(rows', k) = HeldIn(rows, k) /\ UNCHANGED orphaned
      BY <2>1, <2>2, <2>4, <2>5 DEF Holds
    <3>2. QED BY <1>3, <3>1, CountKept
  <2>6. CASE ~r.sent
    <3>1. Cardinality(HeldIn(rows, k)) = Cardinality(HeldIn(rows', k)) + One(r.item, k)
      BY <2>4, <2>6 DEF Holds
    <3>2. Copies(orphaned', k) = Copies(orphaned, k) + One(r.item, k)
      BY <1>1, <2>1, <2>3, <2>6, MoreCopies DEF HistoryOK
    <3>3. One(r.item, k) \in Nat /\ Copies(stock, k) \in Nat /\ Copies(thrown, k) \in Nat /\ Copies(orphaned, k) \in Nat
      BY <1>1, OneType, CountParts
    <3>4. Everyones(bag, k) \in Nat
      BY <1>1, CountParts
    <3>5. /\ Count(k) = Copies(stock, k) + Copies(thrown, k) + Copies(orphaned, k)
                        + Everyones(bag, k) + Cardinality(HeldIn(rows, k))
          /\ Count(k)' = Copies(stock, k) + Copies(thrown, k) + Copies(orphaned', k)
                         + Everyones(bag, k) + Cardinality(HeldIn(rows', k))
      BY <1>3, CountIs
    <3>6. QED BY <2>4, <3>1, <3>2, <3>3, <3>4, <3>5
  <2>7. QED BY <2>5, <2>6
<1>6. CASE CancelCommits(c, s)
  <2>0. UNCHANGED orphaned
    BY <1>6 DEF CancelCommits
  <2>1. PICK r \in At(Out(c), s), gone \in LimitOne(Withdrawable(c, v)) :
           r.sent /\ ~r.received /\ rows' = (rows \ ({r} \cup gone)) \cup {[r EXCEPT !.sent = FALSE]}
    BY <1>6 DEF CancelCommits
  <2>2. r \in Row /\ r \in rows /\ r.box = 2 /\ r.own = c /\ r.peer \in Chars
    BY <1>1, <2>1 DEF At, Out, PlacedIn
  <2>3. r.item = v.item /\ r.peer = v.to
    BY <1>2, <2>1 DEF Right, CellsRight, Calm, SendAt
  <2> DEFINE x == [r EXCEPT !.sent = FALSE]
             Q == Queued(c, v.to, Kind[v.item])
             A == Pending(c, v.to, Kind[v.item])
  <2>4. x.own = c /\ x.box = 2 /\ x.sent = FALSE /\ x.slot = r.slot /\ x.item = r.item
    BY <2>2, SentRow DEF Row
  <2>5. Withdrawable(c, v) = Q
    BY DEF Withdrawable, Queued
  <2>6. rows' = (rows \ ({r} \cup gone)) \cup {x}
    BY <2>1
  <2>7. r \in A
    BY <2>1, <2>2, <2>3 DEF Pending, Out
  <2>8. Cardinality(A) <= Cardinality(Q)
    BY <1>4, <2>2, <2>3 DEF SentIsQueued, Kinds, Calm
  <2>9. Q \subseteq rows /\ \A y \in Q : y.box = 1 /\ Kind[y.item] = Kind[v.item]
    BY DEF Queued, Queue, In
  <2>10. IsFiniteSet(A) /\ IsFiniteSet(Q) /\ Cardinality(A) \in Nat /\ Cardinality(Q) \in Nat
    BY <1>1, PendingFinite
  <2> HIDE DEF x, v, A, Q
  <2>11. Q # {}
    <3>1. Cardinality(A) # 0
      BY <2>7, <2>10, FS_EmptySet
    <3>2. Cardinality(Q) # 0
      BY <2>8, <2>10, <3>1
    <3>3. QED BY <2>10, <3>2, FS_EmptySet
  <2>12. PICK y \in Q : gone = {y}
    BY <2>1, <2>5, <2>11 DEF LimitOne
  <2>13. y \in rows /\ y.box = 1 /\ y # r /\ Holds(y) /\ Holds(x) /\ ~Holds(r) /\ Kind[y.item] = Kind[x.item]
    BY <2>1, <2>2, <2>3, <2>4, <2>9 DEF Holds
  <2>14. x \notin rows \ {r}
    BY <1>1, <2>2, <2>4 DEF PlacedIn, Unique
  <2> DEFINE rest == rows \ {y}
             less == rest \ {r}
  <2>15. rows' = less \cup {x} /\ r \in rest /\ x \notin less
    BY <2>2, <2>6, <2>12, <2>13, <2>14
  <2>16. /\ IsFiniteSet(rest) /\ Cardinality(HeldIn(rest, k)) \in Nat
         /\ Cardinality(HeldIn(rows, k)) = Cardinality(HeldIn(rest, k)) + One(y.item, k)
    BY <1>1, <2>13, HeldLess
  <2> HIDE DEF rest
  <2>17. IsFiniteSet(less) /\ HeldIn(less, k) = HeldIn(rest, k)
    BY <2>13, <2>15, <2>16, HeldLess
  <2> HIDE DEF less
  <2>18. Cardinality(HeldIn(rows', k)) = Cardinality(HeldIn(less, k)) + One(x.item, k)
    BY <2>13, <2>15, <2>17, HeldMore
  <2>19. One(x.item, k) = One(y.item, k)
    BY <2>13 DEF One
  <2>20. Cardinality(HeldIn(rows', k)) = Cardinality(HeldIn(rows, k))
    BY <2>16, <2>17, <2>18, <2>19
  <2>21. QED BY <1>3, <2>0, <2>20, CountKept
<1>7. QED BY <1>2, <1>5, <1>6

LEMMA DeliveredCount ==
    ASSUME Right, Calm, NEW c \in Chars, RemoveDelivered(c), NEW k
    PROVE  Count(k)' = Count(k)
<1>1. PlacedIn(rows, mails)
  BY BoxedParts DEF Right
<1> DEFINE done == {x \in Out(c) : x.received}
           r == First(done)
<1>2. done # {} /\ rows' = rows \ {r} /\ UNCHANGED <<bag, stock, thrown, orphaned>>
  BY DEF RemoveDelivered, history
<1>3. done \in SUBSET Row
  BY <1>1 DEF Out, PlacedIn
<1>4. r \in done
  <2> HIDE DEF done
  <2>1. QED BY <1>2, <1>3, FirstExists
<1>5. r \in rows /\ r.box = 2 /\ r.sent
  BY <1>1, <1>4 DEF Out, PlacedIn
<1> HIDE DEF done, r
<1>6. HeldIn(rows', k) = HeldIn(rows, k)
  BY <1>2, <1>5 DEF HeldIn, Holds
<1>7. QED BY <1>2, <1>6, CountKept

LEMMA ReceivedCount ==
    ASSUME Right, Calm, NEW c \in Chars, Received(c), NEW k
    PROVE  Count(k)' = Count(k)
<1>1. Boxed /\ rows \subseteq Row /\ UNCHANGED <<bag, stock, thrown, orphaned>>
  BY BoxedParts DEF Right, PlacedIn, Received
<1>2. CASE UNCHANGED <<rows, view>>
  <2>1. HeldIn(rows', k) = HeldIn(rows, k)
    BY <1>2
  <2>2. QED BY <1>1, <2>1, CountKept
<1>3. CASE ~UNCHANGED <<rows, view>>
  <2>1. PICK q \in Row, s \in Cell : \E told \in LimitOne(Records(c, q)) :
              /\ q.own = c /\ q.box = 1 /\ q.slot >= Cells
              /\ q.slot \in Nat /\ q.slot <= Cells + MaxMails
              /\ ~InTheWay(c, q.slot, s) /\ told \in SUBSET rows
              /\ rows' = {Turned(r, told, c, q.slot, s) : r \in rows}
    BY <1>3, ReceivedStep
  <2>2. PICK told \in LimitOne(Records(c, q)) : rows' = {Turned(r, told, c, q.slot, s) : r \in rows}
    BY <2>1
  <2>3. PICK n \in Nat : n = q.slot
    BY <2>1
  <2>4. n >= Cells /\ n <= Cells + MaxMails /\ ~InTheWay(c, n, s)
    BY <2>1, <2>3
  <2> DEFINE F(r) == Turned(r, told, c, n, s)
             f == [r \in rows |-> F(r)]
  <2>5. ASSUME NEW r \in rows
        PROVE  F(r).box = r.box /\ F(r).item = r.item /\ F(r).sent = r.sent
    <3>1. r \in Row
      BY <1>1
    <3>2. QED BY <2>4, <3>1, TurnedFields
  <2>6. ASSUME NEW r \in rows, NEW x \in rows, F(r) = F(x) PROVE r = x
    BY <1>1, <2>4, <2>6, TurnedApart
  <2>7. rows' = {F(r) : r \in rows}
    BY <2>2, <2>3
  <2> HIDE DEF F
  <2>8. rows' = {f[r] : r \in rows}
    BY <2>7
  <2>9. \A r, x \in rows : f[r] = f[x] => r = x
    BY <2>6
  <2>10. \A r \in rows : Holds(f[r]) <=> Holds(r)
    BY <2>5 DEF Holds
  <2>11. \A r \in rows : f[r].item = r.item
    BY <2>5
  <2> HIDE DEF f
  <2>12. HeldIn(rows', k) = {f[r] : r \in HeldIn(rows, k)}
    BY <2>8, <2>10, <2>11 DEF HeldIn
  <2>13. HeldIn(rows, k) \in SUBSET rows
    BY DEF HeldIn
  <2> DEFINE S == HeldIn(rows, k)
  <2>14. Cardinality({f[r] : r \in S}) = Cardinality(S)
    <3> HIDE DEF S
    <3>1. S \in SUBSET rows
      BY <2>13 DEF S
    <3>2. QED BY <1>1, <2>9, <3>1, ImageOfRows
  <2>15. QED BY <1>1, <2>12, <2>14, CountKept
<1>4. QED BY <1>2, <1>3

LEMMA ReturnCount ==
    ASSUME Right, Calm, NEW c \in Chars, NEW s \in Cell, ReturnToSender(c, s), NEW k
    PROVE  Count(k)' = Count(k)
<1>1. Boxed /\ HistoryOK /\ PlacedIn(rows, mails) /\ RestOK /\ IsFiniteSet(rows)
  BY BoxedParts, RowsFinite DEF Right
<1> DEFINE i == view[c][s].item
<1>2. mails < MaxMails /\ open[c] = "recv" /\ view[c][s] # Empty /\ UNCHANGED <<bag, stock, thrown, orphaned>>
  BY DEF ReturnToSender, Mailed, history
<1>3. PICK r \in At(In(c), s) : r.peer # System /\ rows' = (rows \cup {Incoming(r.peer, i, c)}) \ {r}
  BY DEF ReturnToSender
<1>4. i \in Items /\ r \in Row /\ r \in rows /\ r.box = 1 /\ r.slot = s
  BY <1>1, <1>2, <1>3, ViewFields DEF At, In, PlacedIn
<1>5. r.peer \in Chars
  BY <1>3, <1>4, RowFields
<1>6. r.item = i /\ s # Cells
  BY <1>2, <1>3 DEF Right, CellsRight, Calm, RecvAt
<1> DEFINE new == Incoming(r.peer, i, c)
<1>7. /\ new.own = r.peer /\ new.box = 1 /\ new.item = i /\ new.slot = NextSlot(r.peer)
      /\ NextSlot(r.peer) \in Nat /\ NextSlot(r.peer) >= Cells
      /\ \A y \in In(r.peer) : y.slot < NextSlot(r.peer)
  BY <1>1, <1>2, <1>4, <1>5, PlacedIncoming
<1>8. rows' = (rows \cup {new}) \ {r}
  BY <1>3
<1> HIDE DEF new, i
<1>9. new.slot # s
  BY <1>6, <1>7, Sizes
<1>10. new \notin rows /\ new # r /\ Holds(new) /\ Holds(r)
  BY <1>4, <1>7, <1>9 DEF In, Holds
<1> DEFINE rest == rows \ {r}
<1>11. rows' = rest \cup {new} /\ new \notin rest
  BY <1>8, <1>10
<1>12. /\ IsFiniteSet(rest) /\ Cardinality(HeldIn(rest, k)) \in Nat
       /\ Cardinality(HeldIn(rows, k)) = Cardinality(HeldIn(rest, k)) + One(r.item, k)
  BY <1>1, <1>4, <1>10, HeldLess
<1> HIDE DEF rest
<1>13. Cardinality(HeldIn(rows', k)) = Cardinality(HeldIn(rest, k)) + One(new.item, k)
  BY <1>10, <1>11, <1>12, HeldMore
<1>14. Cardinality(HeldIn(rows', k)) = Cardinality(HeldIn(rows, k))
  BY <1>6, <1>7, <1>12, <1>13
<1>15. QED BY <1>2, <1>14, CountKept

LEMMA TakeCount ==
    ASSUME Right, Calm, Calm', KindConserved, Gil \in Items => Initially(Kind[Gil]) <= GilCap,
           NEW c \in Chars, NEW s \in Cell, NEW b \in {1, 2}, TakeItemFromCell(c, b, s), NEW k
    PROVE  Count(k)' = Count(k)
<1>1. Boxed /\ HistoryOK /\ PlacedIn(rows, mails) /\ RestOK /\ IsFiniteSet(rows)
  BY BoxedParts, RowsFinite DEF Right
<1> DEFINE i == view[c][s].item
           box == Box(c, b)
<1>2. /\ OpenIs(c, b) /\ view[c][s] # Empty /\ UNCHANGED <<stock, thrown, orphaned>>
      /\ bag' = [bag EXCEPT ![c] = AddItem(c, i)]
  BY DEF TakeItemFromCell, Strays, Calm
<1>3. PICK r \in At(box, s) : (b = 2 => ~r.sent) /\ rows' = rows \ {r}
  BY DEF TakeItemFromCell
<1>4. i \in Items /\ r \in rows
  BY <1>1, <1>2, <1>3, ViewFields DEF At, Box, In, Out
<1>5. SendAt(c, s) /\ RecvAt(c, s)
  BY DEF Right, CellsRight, Calm
<1>6. r.item = i /\ Holds(r)
  <2>1. CASE b = 2
    BY <1>2, <1>3, <1>5, <2>1 DEF OpenIs, SendAt, Holds, Box
  <2>2. CASE b = 1
    BY <1>2, <1>3, <1>5, <2>2 DEF OpenIs, RecvAt, Holds, At, Box, In
  <2>3. QED BY <2>1, <2>2
<1> HIDE DEF i, box
<1>7. bag \in [Chars -> [Items -> Nat]] /\ bag[c] \in [Items -> Nat]
  BY <1>1 DEF RestOK
<1>8. ASSUME NEW j
      PROVE  /\ Cardinality(HeldIn(rows', j)) \in Nat
             /\ Cardinality(HeldIn(rows, j)) = Cardinality(HeldIn(rows', j)) + One(i, j)
  BY <1>1, <1>3, <1>4, <1>6, HeldLess
<1>9. AddItem(c, i) = More(bag[c], i)
  <2>1. SUFFICES ASSUME i = Gil PROVE bag[c][Gil] < GilCap
    <3>1. bag[c][Gil] < GilCap => ~(bag[c][Gil] >= GilCap) \/ i # Gil
      <4>1. i = Gil => bag[c][Gil] \in Nat
        BY <1>4, <1>7
      <4>2. QED BY <4>1, BoxAssumption
    <3>2. QED BY <3>1 DEF AddItem
  <2> DEFINE g == Kind[Gil]
  <2>2. Count(g) <= GilCap /\ One(i, g) = 1
    BY <1>4, <2>1 DEF KindConserved, Calm, Kinds, One
  <2>3. bag[c][Gil] \in Nat /\ bag[c][Gil] <= Copies(bag[c], g)
    <3>1. IsFiniteSet(OfKind(g)) /\ \A j \in OfKind(g) : bag[c][j] \in Nat
      BY <1>7, OfKindFinite
    <3>2. Gil \in OfKind(g)
      BY <1>4, <2>1 DEF OfKind
    <3>3. QED BY <3>1, <3>2, TallyTerm DEF Copies
  <2> HIDE DEF g
  <2>4. Copies(bag[c], g) \in Nat /\ Copies(bag[c], g) <= Everyones(bag, g)
    BY <1>7, EveryonesChange DEF SameBut
  <2>5. /\ Copies(stock, g) \in Nat /\ Copies(thrown, g) \in Nat /\ Copies(orphaned, g) \in Nat /\ Everyones(bag, g) \in Nat
        /\ Cardinality(HeldIn(rows, g)) \in Nat
    BY <1>1, CountParts
  <2>6. Cardinality(HeldIn(rows', g)) \in Nat /\ Cardinality(HeldIn(rows, g)) >= 1
    BY <1>8, <2>2
  <2>7. Count(g) = Copies(stock, g) + Copies(thrown, g) + Copies(orphaned, g)
                   + Everyones(bag, g) + Cardinality(HeldIn(rows, g))
    BY CountIs
  <2>8. QED BY <2>2, <2>3, <2>4, <2>5, <2>6, <2>7, BoxAssumption
<1>10. More(bag[c], i) \in [Items -> Nat] /\ Copies(More(bag[c], i), k) = Copies(bag[c], k) + One(i, k)
  BY <1>4, <1>7, MoreType, MoreCopies
<1>11. /\ bag' \in [Chars -> [Items -> Nat]] /\ bag'[c] = More(bag[c], i)
       /\ SameBut(bag, bag', c)
  BY <1>2, <1>7, <1>9, <1>10 DEF SameBut
<1>12. /\ Everyones(bag, k) \in Nat /\ Everyones(bag', k) \in Nat
       /\ Copies(bag[c], k) \in Nat /\ Copies(bag'[c], k) \in Nat
       /\ Everyones(bag', k) = Everyones(bag, k) + Copies(bag'[c], k) - Copies(bag[c], k)
  BY <1>7, <1>11, EveryonesChange
<1>13. One(i, k) \in Nat
  BY OneType
<1>14. Everyones(bag', k) = Everyones(bag, k) + One(i, k)
  BY <1>10, <1>11, <1>12, <1>13
<1>15. Copies(stock, k) \in Nat /\ Copies(thrown, k) \in Nat /\ Copies(orphaned, k) \in Nat
  BY <1>1, CountParts
<1>16. /\ Count(k) = Copies(stock, k) + Copies(thrown, k) + Copies(orphaned, k)
                     + Everyones(bag, k) + Cardinality(HeldIn(rows, k))
       /\ Count(k)' = Copies(stock, k) + Copies(thrown, k) + Copies(orphaned, k)
                      + Everyones(bag', k) + Cardinality(HeldIn(rows', k))
  BY <1>2, CountIs
<1>17. QED BY <1>8, <1>12, <1>13, <1>14, <1>15, <1>16

LEMMA ThrowCount ==
    ASSUME Right, Calm, NEW c \in Chars, NEW s \in Cell, RemoveItemFromCell(c, s), NEW k
    PROVE  Count(k)' = Count(k)
<1>1. Boxed /\ HistoryOK /\ PlacedIn(rows, mails) /\ RestOK /\ IsFiniteSet(rows)
  BY BoxedParts, RowsFinite DEF Right
<1>2. UNCHANGED <<bag, stock, orphaned>>
  BY DEF RemoveItemFromCell, history
<1>3. PICK r \in At(In(c), s) : rows' = rows \ {r} /\ thrown' = More(thrown, r.item)
  BY DEF RemoveItemFromCell
<1>4. r \in rows /\ r \in Row /\ Holds(r) /\ thrown \in [Items -> Nat]
  BY <1>1, <1>3 DEF At, In, Holds, PlacedIn, RestOK
<1>5. r.item \in Items
  BY <1>4, RowFields
<1>6. /\ Cardinality(HeldIn(rows', k)) \in Nat
      /\ Cardinality(HeldIn(rows, k)) = Cardinality(HeldIn(rows', k)) + One(r.item, k)
  BY <1>1, <1>3, <1>4, HeldLess
<1>7. Copies(thrown', k) = Copies(thrown, k) + One(r.item, k)
  BY <1>3, <1>4, <1>5, MoreCopies
<1>8. One(r.item, k) \in Nat /\ Copies(stock, k) \in Nat /\ Copies(thrown, k) \in Nat /\ Copies(orphaned, k) \in Nat /\ Everyones(bag, k) \in Nat
  BY <1>1, OneType, CountParts
<1>9. /\ Count(k) = Copies(stock, k) + Copies(thrown, k) + Copies(orphaned, k)
                    + Everyones(bag, k) + Cardinality(HeldIn(rows, k))
      /\ Count(k)' = Copies(stock, k) + Copies(thrown', k) + Copies(orphaned, k)
                     + Everyones(bag, k) + Cardinality(HeldIn(rows', k))
  BY <1>2, CountIs
<1>10. QED BY <1>6, <1>7, <1>8, <1>9

LEMMA SystemCount ==
    ASSUME Right, Calm, NEW c \in Chars, NEW i \in Items, NEW from \in {System, c}, SystemMail(c, i, from), NEW k
    PROVE  Count(k)' = Count(k)
<1>1. Boxed /\ HistoryOK /\ RestOK /\ IsFiniteSet(rows)
  BY BoxedParts, RowsFinite DEF Right
<1> DEFINE new == Incoming(c, i, from)
<1>2. /\ mails < MaxMails /\ stock[i] > 0 /\ rows' = rows \cup {new} /\ stock' = Less(stock, i)
      /\ UNCHANGED <<bag, thrown, orphaned>>
  BY DEF SystemMail, Mailed, history
<1>3. from \in Chars \cup {System} /\ stock \in [Items -> Nat]
  BY <1>1 DEF RestOK
<1>4. /\ new.own = c /\ new.box = 1 /\ new.item = i /\ new.slot = NextSlot(c) /\ NextSlot(c) \in Nat
      /\ \A r \in In(c) : r.slot < NextSlot(c)
  BY <1>1, <1>2, <1>3, PlacedIncoming
<1> HIDE DEF new
<1>5. new \notin rows /\ Holds(new)
  BY <1>4 DEF In, Holds
<1>6. /\ Cardinality(HeldIn(rows, k)) \in Nat
      /\ Cardinality(HeldIn(rows', k)) = Cardinality(HeldIn(rows, k)) + One(i, k)
  BY <1>1, <1>2, <1>4, <1>5, HeldMore
<1>7. Copies(stock, k) = Copies(stock', k) + One(i, k) /\ Copies(stock', k) \in Nat
  BY <1>2, <1>3, MoreCopies
<1>8. One(i, k) \in Nat /\ Copies(thrown, k) \in Nat /\ Copies(orphaned, k) \in Nat /\ Everyones(bag, k) \in Nat
  BY <1>1, OneType, CountParts
<1>9. /\ Count(k) = Copies(stock, k) + Copies(thrown, k) + Copies(orphaned, k)
                    + Everyones(bag, k) + Cardinality(HeldIn(rows, k))
      /\ Count(k)' = Copies(stock', k) + Copies(thrown, k) + Copies(orphaned, k)
                     + Everyones(bag, k) + Cardinality(HeldIn(rows', k))
  BY <1>2, CountIs
<1>10. QED BY <1>6, <1>7, <1>8, <1>9

LEMMA CountStep ==
    ASSUME Right, Calm, Calm', SentIsQueued, KindConserved, Gil \in Items => Initially(Kind[Gil]) <= GilCap,
           [Next]_vars, NEW k
    PROVE  Count(k)' = Count(k)
<1>1. ASSUME UNCHANGED <<itemVars, orphaned>> PROVE Count(k)' = Count(k)
  <2>1. HeldIn(rows', k) = HeldIn(rows, k) /\ UNCHANGED <<bag, stock, thrown, orphaned>>
    BY <1>1 DEF itemVars
  <2>2. QED BY <2>1, CountKept
<1>2. ASSUME NEW c \in Chars,
             \/ \E which \in {"send", "recv"} : OpenBox(c, which)
             \/ CloseMailWindow(c) \/ (\E b \in {1, 2} : SendOldItems(c, b))
             \/ \E s \in Cell : SendNewItems(c, s)
      PROVE  UNCHANGED <<itemVars, orphaned>>
  BY <1>2 DEF OpenBox, CloseMailWindow, SendOldItems, SendNewItems, history
<1>3. ASSUME UNCHANGED vars PROVE UNCHANGED <<itemVars, orphaned>>
  BY <1>3 DEF vars, history
<1>4. QED BY <1>1, <1>2, <1>3, AddCount, ConfirmCount, CancelCount, DeliveredCount, ReceivedCount,
             ReturnCount, TakeCount, ThrowCount, SystemCount DEF Next

LEMMA CountInitially == Init => KindConserved
<1> SUFFICES ASSUME Init, NEW k \in Kinds PROVE Count(k) = Initially(k)
  BY DEF KindConserved
<1>1. rows = {} /\ bag = Owned /\ stock = Stock /\ thrown = [i \in Items |-> 0] /\ orphaned = [i \in Items |-> 0]
  BY DEF Init
<1>2. HeldIn(rows, k) = {}
  BY <1>1 DEF HeldIn
<1>3. Cardinality(HeldIn(rows, k)) = 0
  BY <1>2, FS_EmptySet
<1>4. Copies(thrown, k) = 0 /\ Copies(orphaned, k) = 0
  <2> DEFINE none == [i \in Items |-> 0]
  <2>1. OfKind(k) \subseteq Items
    BY OfKindFinite
  <2>2. \A i \in OfKind(k) : none[i] = 0
    BY <2>1
  <2> HIDE DEF none
  <2>3. Units(none, OfKind(k)) = {}
    BY <2>2, UnitsElement
  <2>4. Copies(none, k) = 0
    BY <2>3, FS_EmptySet DEF Copies, Tally
  <2>5. QED BY <1>1, <2>4 DEF none
<1>5. Boxed /\ HistoryOK
  BY RightInitially DEF Right
<1>6. Copies(stock, k) \in Nat /\ Everyones(bag, k) \in Nat
  BY <1>5, CountParts
<1>7. Count(k) = Copies(stock, k) + Copies(thrown, k) + Copies(orphaned, k)
                 + Everyones(bag, k) + Cardinality(HeldIn(rows, k))
  BY CountIs
<1>8. Initially(k) = Copies(stock, k) + Everyones(bag, k)
  BY <1>1 DEF Initially
<1>9. QED BY <1>3, <1>4, <1>6, <1>7, <1>8

(* KindConserved, if all the gil there is fits into one purse: AddItem     *)
(* does not look whether UpdateItem took the gil (the hypothesis says that *)
(* it never refuses). Adding, confirming, cancelling, receiving,           *)
(* returning, taking and throwing away neither lose nor double an item, in *)
(* any order, but for what a cancel deletes unsent, which is counted.      *)
THEOREM KindsAreConserved ==
    ASSUME Gil \in Items => Initially(Kind[Gil]) <= GilCap
    PROVE  Spec => []KindConserved
<1>1. Right /\ SentIsQueued /\ [Next]_vars => Right' /\ SentIsQueued'
  BY RightStep, HistoryStep, SentStep DEF Right
<1>2. Right /\ SentIsQueued /\ KindConserved /\ [Next]_vars => KindConserved'
  <2> SUFFICES ASSUME Right, SentIsQueued, KindConserved, [Next]_vars, Calm', NEW k \in Kinds
               PROVE  Count(k)' = Initially(k)
    BY DEF KindConserved, Calm, Kinds, Initially, Copies, Everyones, OfKind
  <2>1. Calm
    BY HistoryStep DEF Right, Grown, Calm
  <2>2. Count(k)' = Count(k)
    BY <2>1, CountStep
  <2>3. QED BY <2>1, <2>2 DEF KindConserved, Calm
<1>3. QED BY <1>1, <1>2, RightInitially, SentInitially, CountInitially, PTL DEF Spec
=============================================================================
