---------------------------- MODULE AuctionHouse ----------------------------
(***************************************************************************)
(* The auction house. Listings are rows of the auction_house table, which  *)
(* the players on all maps share with the search server. A map lists,      *)
(* sells and cancels; a trigger pays the seller through the delivery box;  *)
(* the search server mails listings that are too old back to their         *)
(* sellers. A map's handler is one step: after its one statement on a      *)
(* listing it only touches its own player's inventory, which may fail, and *)
(* only a cancellation is a transaction. The search server reads the old   *)
(* listings with one statement and then works through them with two        *)
(* statements each, none of them in a transaction, and may do so in two    *)
(* threads: a worker's at start, the main thread's at intervals and on     *)
(* request.                                                                *)
(*                                                                         *)
(* A listing names its goods by itemid and stack; a good stands for that   *)
(* pair. A cancelled or bought good is made anew from its itemid.          *)
(***************************************************************************)
EXTENDS Naturals, FiniteSets, Counting

CONSTANTS
    Chars, Goods,
    Owned,       \* [Chars -> [Goods -> Nat]]: what everybody has at first
    Purse,       \* [Chars -> Nat]: gil everybody has at first
    Prices,      \* prices asked and bid: never 0 (validate of 0x04e_auc)
    Fee,         \* what listing costs
    ListLimit,   \* AH_LIST_LIMIT; 0: none
    HistorySize, \* listings OpenListOfSales reads
    BagSize,     \* slots of an inventory, that of the gil not counted
    Rare,        \* goods of which a character may have one only
    Threads,     \* of the search server
    Nobody, NoParcel,
    MaxCrashes,  \* bound: crashes of the search server
    MaxFailures, \* bound: purchases that fail after the listing was sold
    MaxListings  \* bound: listings ever made

ASSUME AuctionAssumption ==
    /\ IsFiniteSet(Chars) /\ IsFiniteSet(Goods)
    /\ Owned \in [Chars -> [Goods -> Nat]] /\ Purse \in [Chars -> Nat]
    /\ IsFiniteSet(Prices) /\ Prices \subseteq Nat \ {0}
    /\ Fee \in Nat /\ ListLimit \in Nat /\ HistorySize \in Nat /\ BagSize \in Nat
    /\ Rare \subseteq Goods /\ Nobody \notin Chars
    /\ NoParcel \notin [id : 1..MaxListings, item : Goods, seller : Chars]
    /\ MaxCrashes \in Nat /\ MaxFailures \in Nat /\ MaxListings \in Nat

VARIABLES
    ah,        \* the table auction_house
    nextId,    \* AUTO_INCREMENT of the table
    bag,       \* goods in the inventories
    gil,       \* gil in the inventories
    goodsMail, \* goods that entered the delivery boxes
    gilMail,   \* gil that entered the delivery boxes
    fees,      \* gil paid as fees
    history,   \* m_ah_history: listings the player may cancel
    expiring,  \* listingsToExpire of a thread: still to be mailed
    mailed,    \* what a thread has mailed and not deleted yet
    crashes,   \* of the search server
    unserved,  \* goods sold to buyers who did not get them
    unpaid,    \* gil of those sales: the sellers got it, nobody paid it
    raced      \* somebody bought, cancelled or read the old listings while
               \* a thread was at work on what it had read

gilVars    == <<gil, gilMail, fees>>
searchVars == <<expiring, mailed>>
failures   == <<unserved, unpaid>>
noted      == <<crashes, failures, raced>>
vars == <<ah, nextId, bag, goodsMail, gilVars, history, searchVars, noted>>

Listing == [id : 1..MaxListings, item : Goods, seller : Chars, price : Prices,
            buyer : Chars \cup {Nobody}, sale : Prices \cup {0}, old : BOOLEAN]
Entry   == [item : Goods, price : Prices]
Parcel  == [id : 1..MaxListings, item : Goods, seller : Chars]

Unsold     == {r \in ah : r.buyer = Nobody}
ForSale(c) == {r \in ah : r.seller = c /\ r.sale = 0}
ParcelOf(r) == [id |-> r.id, item |-> r.item, seller |-> r.seller]

Init ==
    /\ ah = {}
    /\ nextId = 1
    /\ bag = Owned
    /\ gil = Purse
    /\ goodsMail = [c \in Chars |-> [g \in Goods |-> 0]]
    /\ gilMail = [c \in Chars |-> 0]
    /\ fees = 0
    /\ history = [c \in Chars |-> {}]
    /\ expiring = [t \in Threads |-> {}]
    /\ mailed = [t \in Threads |-> NoParcel]
    /\ crashes = 0 /\ raced = FALSE
    /\ unserved = [g \in Goods |-> 0] /\ unpaid = 0

Waiting(t) == expiring[t] = {} /\ mailed[t] = NoParcel
NoteRace   == raced' = (raced \/ \E t \in Threads : ~Waiting(t))

-----------------------------------------------------------------------------
FreeSlot(c)   == Tally(bag[c], Goods) < BagSize
MayHave(c, g) == g \in Rare => bag[c][g] = 0

(* Mutant: what is paid is not compared with what there is.                *)
AffordsAnything(c, n) == TRUE

Affords(c, n) == gil[c] >= n

Add(c, g) == bag' = [bag EXCEPT ![c][g] = @ + 1]

(* ProofOfPurchase: the listing, then the inventory, then the fee.         *)
ProofOfPurchase(c, g, price) ==
    /\ bag[c][g] > 0
    /\ Affords(c, Fee)
    /\ ListLimit = 0 \/ Cardinality(ForSale(c)) < ListLimit
    /\ nextId <= MaxListings
    /\ ah' = ah \cup {[id |-> nextId, item |-> g, seller |-> c, price |-> price,
                       buyer |-> Nobody, sale |-> 0, old |-> FALSE]}
    /\ nextId' = nextId + 1
    /\ bag' = [bag EXCEPT ![c][g] = @ - 1]
    /\ gil' = [gil EXCEPT ![c] = @ - Fee]
    /\ fees' = fees + Fee
    /\ UNCHANGED <<goodsMail, gilMail, history, searchVars, noted>>

(* OpenListOfSales: the oldest listings that are not sold. Within five     *)
(* seconds of the last time it does nothing.                               *)
OpenListOfSales(c) ==
    /\ history' = [history EXCEPT ![c] =
         {[item |-> r.item, price |-> r.price] : r \in
            {x \in ForSale(c) : Cardinality({y \in ForSale(c) : y.id < x.id}) < HistorySize}}]
    /\ UNCHANGED <<ah, nextId, bag, goodsMail, gilVars, searchVars, noted>>

(* Mutant: sold listings are offered too.                                  *)
OffersSold(g, bid) == {r \in ah : r.item = g /\ r.price <= bid}

(* The cheapest of the listings of the goods that the bid pays for.        *)
Offers(g, bid) == {r \in Unsold : r.item = g /\ r.price <= bid}
Cheapest(some) == {r \in some : \A x \in some : r.price <= x.price}

(* Mutant: the listing is sold at the price asked.                         *)
SoldAtPrice(r, c, bid) == [r EXCEPT !.buyer = c, !.sale = r.price]

(* What the update makes of a listing: the bid is the sale, not the price. *)
Sold(r, c, bid) == [r EXCEPT !.buyer = c, !.sale = bid]

(* The trigger auction_house_buy mails the bid to the seller.              *)
Pay(c, bid) == gilMail' = [gilMail EXCEPT ![c] = @ + bid]

(* PurchasingItems. The listing is sold and the seller paid whether or not *)
(* AddItem can write the goods to the inventory afterwards; if it cannot,  *)
(* or the map dies first, the buyer gets nothing and keeps the gil.        *)
PurchasingItems(c, g, bid) ==
    /\ NoteRace
    /\ FreeSlot(c) /\ MayHave(c, g)
    /\ Affords(c, bid)
    /\ \E r \in Cheapest(Offers(g, bid)) :
          /\ ah' = (ah \ {r}) \cup {Sold(r, c, bid)}
          /\ Pay(r.seller, bid)
    /\ \/ /\ Add(c, g)
          /\ gil' = [gil EXCEPT ![c] = @ - bid]
          /\ UNCHANGED failures
       \/ /\ Tally(unserved, Goods) < MaxFailures
          /\ unserved' = [unserved EXCEPT ![g] = @ + 1]
          /\ unpaid' = unpaid + bid
          /\ UNCHANGED <<bag, gil>>
    /\ UNCHANGED <<nextId, goodsMail, fees, history, searchVars, crashes>>

(* Listings that an entry of the seller's history may stand for.           *)
Matching(c, e) ==
    {r \in ForSale(c) : r.item = e.item /\ r.price = e.price}

(* CancelSale: one of them is deleted and the goods given back, or both    *)
(* are rolled back. The history is left as it is.                          *)
CancelSale(c, e) ==
    /\ NoteRace
    /\ FreeSlot(c) /\ MayHave(c, e.item)
    /\ \E r \in Matching(c, e) : ah' = ah \ {r}
    /\ Add(c, e.item)
    /\ UNCHANGED <<nextId, goodsMail, gilVars, history, searchVars, crashes, failures>>

-----------------------------------------------------------------------------
(* A listing comes of age: EXPIRE_DAYS have passed.                        *)
GrowOld(r) ==
    /\ ~r.old
    /\ ah' = (ah \ {r}) \cup {[r EXCEPT !.old = TRUE]}
    /\ UNCHANGED <<nextId, bag, goodsMail, gilVars, history, searchVars, noted>>

(* Mutant: the date is compared the wrong way round.                       *)
NotYetOld == {r \in Unsold : ~r.old}

Expired == {r \in Unsold : r.old}

(* ExpireAHItems: the old listings nobody bought are read...               *)
ExpireAHItems(t) ==
    /\ Waiting(t) /\ NoteRace
    /\ Expired # {}
    /\ expiring' = [expiring EXCEPT ![t] = {ParcelOf(r) : r \in Expired}]
    /\ UNCHANGED <<ah, nextId, bag, goodsMail, gilVars, history, mailed, crashes, failures>>

(* ... and of each the goods are mailed to the seller...                   *)
MailBack(t) ==
    /\ mailed[t] = NoParcel
    /\ \E p \in expiring[t] :
          /\ goodsMail' = [goodsMail EXCEPT ![p.seller][p.item] = @ + 1]
          /\ mailed' = [mailed EXCEPT ![t] = p]
          /\ expiring' = [expiring EXCEPT ![t] = @ \ {p}]
    /\ UNCHANGED <<ah, nextId, bag, gilVars, history, noted>>

(* ... and the listing is deleted, by its id alone.                        *)
Delist(t) ==
    /\ mailed[t] # NoParcel
    /\ ah' = {r \in ah : r.id # mailed[t].id}
    /\ mailed' = [mailed EXCEPT ![t] = NoParcel]
    /\ UNCHANGED <<nextId, bag, goodsMail, gilVars, history, expiring, noted>>

(* The search server dies and is started again.                            *)
CrashSearch ==
    /\ crashes < MaxCrashes /\ crashes' = crashes + 1
    /\ \E t \in Threads : ~Waiting(t)
    /\ expiring' = [t \in Threads |-> {}]
    /\ mailed' = [t \in Threads |-> NoParcel]
    /\ UNCHANGED <<ah, nextId, bag, goodsMail, gilVars, history, failures, raced>>

Next ==
    \/ \E c \in Chars, g \in Goods, p \in Prices :
          ProofOfPurchase(c, g, p) \/ PurchasingItems(c, g, p)
    \/ \E c \in Chars : OpenListOfSales(c)
    \/ \E c \in Chars : \E e \in history[c] : CancelSale(c, e)
    \/ \E r \in ah : GrowOld(r)
    \/ \E t \in Threads : ExpireAHItems(t) \/ MailBack(t) \/ Delist(t)
    \/ CrashSearch

Spec == Init /\ [][Next]_vars

(* The search server's task runs at intervals and each run comes to its    *)
(* end; nothing is assumed of the players.                                 *)
Fairness ==
    \A t \in Threads :
       WF_vars(ExpireAHItems(t)) /\ WF_vars(MailBack(t)) /\ WF_vars(Delist(t))

FairSpec == Spec /\ Fairness

-----------------------------------------------------------------------------
TypeOK ==
    /\ ah \subseteq Listing
    /\ \A r, x \in ah : r.id = x.id => r = x
    /\ nextId \in 1..(MaxListings + 1)
    /\ bag \in [Chars -> [Goods -> Nat]] /\ goodsMail \in [Chars -> [Goods -> Nat]]
    /\ gil \in [Chars -> Nat] /\ gilMail \in [Chars -> Nat] /\ fees \in Nat
    /\ history \in [Chars -> SUBSET Entry]
    /\ expiring \in [Threads -> SUBSET Parcel]
    /\ mailed \in [Threads -> Parcel \cup {NoParcel}]
    /\ crashes \in 0..MaxCrashes /\ raced \in BOOLEAN
    /\ unserved \in [Goods -> Nat] /\ unpaid \in Nat

(* A listing whose goods are on their way back is only waiting for its     *)
(* deletion.                                                               *)
Leaving == {mailed[t].id : t \in {u \in Threads : mailed[u] # NoParcel}}

Everyones(f, g) == Tally([c \in Chars |-> f[c][g]], Chars)

(* What there is of a good: in inventories, mailed back to sellers, unsold *)
(* in the auction house, and sold in purchases that failed.                *)
Offered(g) == {r \in Unsold : r.item = g /\ r.id \notin Leaving}
Total(g)   ==
    Everyones(bag, g) + Everyones(goodsMail, g) + Cardinality(Offered(g)) + unserved[g]

(* Nothing is lost but in a purchase that fails after the sale, however    *)
(* listing, buying, cancelling from a stale history, expiring in two       *)
(* threads and crashing follow each other. And nothing is doubled unless   *)
(* somebody raced with the expiry, but for one good at each crash that     *)
(* comes between a parcel and the deletion of its listing.                 *)
GoodsConserved ==
    /\ \A g \in Goods : Total(g) >= Everyones(Owned, g)
    /\ raced \/ Tally([g \in Goods |-> Total(g)], Goods)
                 <= Tally([g \in Goods |-> Everyones(Owned, g)], Goods) + crashes

(* What the table says a seller has sold.                                  *)
SaleOf   == [r \in Listing |-> r.sale]
Shown(c) == Tally(SaleOf, {r \in ah : r.seller = c})

(* Every sale was paid, once and in full: what the trigger mailed to a     *)
(* seller is the sum of the seller's sales that the table shows (the       *)
(* expiry deletes one it raced with). And no gil is made or lost on the    *)
(* way from the buyers, but that of purchases that failed.                 *)
SellersPaid ==
    /\ \A c \in Chars :
          gilMail[c] >= Shown(c) /\ (raced \/ gilMail[c] = Shown(c))
    /\ Tally(gil, Chars) + Tally(gilMail, Chars) + fees
          = Tally(Purse, Chars) + unpaid

(* A listing that is too old does not stay unsold in the auction house     *)
(* for ever.                                                               *)
ExpiryEnds ==
    \A id \in 1..MaxListings :
       LET stays == \E r \in ah : r.id = id /\ r.old /\ r.buyer = Nobody
       IN stays ~> ~stays
============================================================================
