------------------------- MODULE AuctionHouseProofs -------------------------
(***************************************************************************)
(* What the auction house keeps, for any number of characters, goods,      *)
(* listings, threads and crashes: its types, the gil of the sales and the  *)
(* goods of the listings. The inductive invariant is Kept: what the table  *)
(* says of a listing (Booked), what a thread of the search server holds of *)
(* a listing that may have changed since (Labelled), and how much better   *)
(* it knows while nobody raced with it (Alone).                            *)
(***************************************************************************)
EXTENDS AuctionHouse, CountingProofs

(* Parcels in the hands of a thread.                                       *)
Held(t) == expiring[t] \cup ({mailed[t]} \ {NoParcel})

(* Ids are those of the past, and a listing is sold when it has a buyer.   *)
Booked ==
    \A r \in ah : r.id < nextId /\ (r.buyer = Nobody <=> r.sale = 0)

(* A listing does not become one of another good while a thread holds its  *)
(* parcel: ids are not used again.                                         *)
Labelled ==
    \A t \in Threads : \A p \in Held(t) :
       p.id < nextId /\ \A r \in ah : r.id = p.id => r.item = p.item

(* Without a race one thread is at work, on listings that are there and    *)
(* that nobody bought, and each is mailed once.                            *)
OneAtWork == \A t, u \in Threads : ~Waiting(t) /\ ~Waiting(u) => t = u
Present   == \A t \in Threads : \A p \in Held(t) : \E r \in Unsold : r.id = p.id
MailedOnce ==
    \A t \in Threads :
       /\ \A p \in expiring[t] : mailed[t] = NoParcel \/ p.id # mailed[t].id
       /\ \A p, q \in expiring[t] : p.id = q.id => p = q
Alone == raced \/ (OneAtWork /\ Present /\ MailedOnce)

Kept == TypeOK /\ Booked /\ Labelled /\ Alone

-----------------------------------------------------------------------------
(* Ids tell listings apart, so there are finitely many.                    *)
LEMMA FiniteRows ==
    ASSUME NEW T \in SUBSET Listing, \A r, x \in T : r.id = x.id => r = x
    PROVE  IsFiniteSet(T)
<1> DEFINE f == [r \in T |-> r.id]
<1>1. f \in Injection(T, 1..MaxListings)
  BY DEF Listing, Injection, IsInjective
<1>2. 1 \in Int /\ MaxListings \in Int
  BY AuctionAssumption
<1>3. IsFiniteSet(1..MaxListings)
  BY <1>2, FS_Interval
<1> HIDE DEF f
<1>4. QED BY <1>1, <1>3, FS_Injection

LEMMA FiniteTable ==
    ASSUME TypeOK
    PROVE  IsFiniteSet(ah)
BY FiniteRows DEF TypeOK

(* A new listing.                                                          *)
LEMMA ListedTypes ==
    ASSUME Kept, NEW c \in Chars, NEW g \in Goods, NEW price \in Prices, ProofOfPurchase(c, g, price)
    PROVE  TypeOK' /\ Booked' /\ Labelled'
<1> DEFINE new == [id |-> nextId, item |-> g, seller |-> c, price |-> price,
                   buyer |-> Nobody, sale |-> 0, old |-> FALSE]
<1>1. new \in Listing /\ new.id = nextId /\ new.buyer = Nobody /\ new.sale = 0
  BY AuctionAssumption DEF Kept, TypeOK, Listing, ProofOfPurchase
<1> HIDE DEF new
<1>2. ah' = ah \cup {new} /\ nextId' = nextId + 1 /\ nextId \in Nat
  BY DEF ProofOfPurchase, new, Kept, TypeOK
<1>3. ah' \subseteq Listing
  BY <1>1, <1>2 DEF Kept, TypeOK
<1>4. \A r \in ah : r.id < nextId /\ r.id \in Nat
  BY DEF Kept, Booked, TypeOK, Listing
<1>5. \A r, x \in ah' : r.id = x.id => r = x
  BY <1>1, <1>2, <1>4 DEF Kept, TypeOK
<1>6. nextId' \in 1..(MaxListings + 1)
  BY AuctionAssumption DEF ProofOfPurchase, Kept, TypeOK
<1>7. bag' \in [Chars -> [Goods -> Nat]]
  <2>1. bag \in [Chars -> [Goods -> Nat]] /\ bag[c][g] - 1 \in Nat
    BY DEF ProofOfPurchase, Kept, TypeOK
  <2>2. QED BY <2>1 DEF ProofOfPurchase
<1>8. gil' \in [Chars -> Nat] /\ fees' \in Nat
  <2>1. gil \in [Chars -> Nat] /\ gil[c] - Fee \in Nat
    BY AuctionAssumption DEF ProofOfPurchase, Affords, Kept, TypeOK
  <2>2. QED BY <2>1, AuctionAssumption DEF ProofOfPurchase, Kept, TypeOK
<1>9. UNCHANGED <<goodsMail, gilMail, history, expiring, mailed, crashes, unserved, unpaid, raced>>
  BY DEF ProofOfPurchase, searchVars, noted, failures
<1>10. TypeOK'
  BY <1>3, <1>5, <1>6, <1>7, <1>8, <1>9 DEF Kept, TypeOK
<1>11. Booked'
  BY <1>1, <1>2, <1>4 DEF Kept, Booked
<1>12. Labelled'
  <2>1. SUFFICES ASSUME NEW t \in Threads, NEW p \in Held(t)
                 PROVE  p.id < nextId + 1 /\ \A r \in ah' : r.id = p.id => r.item = p.item
    BY <1>2, <1>9 DEF Labelled, Held
  <2>2. p.id < nextId /\ p.id \in Nat
    BY DEF Kept, Labelled, Held, TypeOK, Parcel
  <2>3. QED BY <1>1, <1>2, <2>2 DEF Kept, Labelled
<1>13. QED BY <1>10, <1>11, <1>12

(* A listing gives way to one with its id, good and seller.                *)
LEMMA Replaced ==
    ASSUME Kept, NEW r \in ah, NEW s \in Listing, ah' = (ah \ {r}) \cup {s},
           s.id = r.id, s.item = r.item, s.buyer = Nobody <=> s.sale = 0,
           UNCHANGED <<nextId, expiring, mailed>>
    PROVE  /\ ah' \subseteq Listing /\ \A x, y \in ah' : x.id = y.id => x = y
           /\ Booked' /\ Labelled'
<1>1. ah' \subseteq Listing
  BY DEF Kept, TypeOK
<1>2. \A x, y \in ah' : x.id = y.id => x = y
  BY DEF Kept, TypeOK
<1>3. Booked'
  BY DEF Kept, Booked
<1>4. Labelled'
  BY DEF Kept, Labelled, Held
<1>5. QED BY <1>1, <1>2, <1>3, <1>4

(* Listings go.                                                            *)
LEMMA Gone ==
    ASSUME Kept, ah' \subseteq ah, UNCHANGED nextId,
           \A t \in Threads : Held(t)' \subseteq Held(t)
    PROVE  /\ ah' \subseteq Listing /\ \A x, y \in ah' : x.id = y.id => x = y
           /\ Booked' /\ Labelled'
<1>1. Labelled'
  BY DEF Kept, Labelled
<1>2. QED BY <1>1 DEF Kept, TypeOK, Booked

(* A good enters an inventory or a mailbox.                                *)
LEMMA GoodEnters ==
    ASSUME NEW f \in [Chars -> [Goods -> Nat]], NEW c \in Chars, NEW g \in Goods
    PROVE  [f EXCEPT ![c][g] = @ + 1] \in [Chars -> [Goods -> Nat]]
OBVIOUS

(* A purchase.                                                             *)
LEMMA BoughtTypes ==
    ASSUME Kept, NEW c \in Chars, NEW g \in Goods, NEW bid \in Prices, PurchasingItems(c, g, bid)
    PROVE  TypeOK' /\ Booked' /\ Labelled'
<1>1. PICK r \in Cheapest(Offers(g, bid)) :
          ah' = (ah \ {r}) \cup {Sold(r, c, bid)} /\ Pay(r.seller, bid)
  BY DEF PurchasingItems
<1>2. r \in ah /\ r \in Listing
  BY DEF Cheapest, Offers, Unsold, Kept, TypeOK
<1>3. bid # 0 /\ bid \in Nat /\ c # Nobody
  BY AuctionAssumption
<1>4. /\ Sold(r, c, bid) \in Listing
      /\ Sold(r, c, bid).id = r.id /\ Sold(r, c, bid).item = r.item
      /\ Sold(r, c, bid).buyer = c /\ Sold(r, c, bid).sale = bid
  BY <1>2 DEF Sold, Listing
<1>5. UNCHANGED <<nextId, goodsMail, fees, history, expiring, mailed, crashes>>
  BY DEF PurchasingItems, searchVars
<1>6. /\ ah' \subseteq Listing /\ \A x, y \in ah' : x.id = y.id => x = y
      /\ Booked' /\ Labelled'
  <2>1. Sold(r, c, bid).buyer = Nobody <=> Sold(r, c, bid).sale = 0
    BY <1>3, <1>4
  <2>2. UNCHANGED <<nextId, expiring, mailed>>
    BY <1>5
  <2>3. QED BY <1>1, <1>2, <1>4, <2>1, <2>2, Replaced
<1>7. bag' \in [Chars -> [Goods -> Nat]]
  <2>1. Add(c, g) \/ UNCHANGED bag
    BY DEF PurchasingItems
  <2>2. bag \in [Chars -> [Goods -> Nat]]
    BY DEF Kept, TypeOK
  <2>3. CASE Add(c, g)
    BY <2>2, <2>3, GoodEnters DEF Add
  <2>4. QED BY <2>1, <2>2, <2>3
<1>8. gil' \in [Chars -> Nat]
  <2>1. gil \in [Chars -> Nat] /\ gil[c] - bid \in Nat
    BY <1>3 DEF PurchasingItems, Affords, Kept, TypeOK
  <2>2. gil' = [gil EXCEPT ![c] = @ - bid] \/ UNCHANGED gil
    BY DEF PurchasingItems
  <2>3. QED BY <2>1, <2>2
<1>13. unserved' \in [Goods -> Nat] /\ unpaid' \in Nat
  <2>1. unserved \in [Goods -> Nat] /\ unpaid \in Nat
    BY DEF Kept, TypeOK
  <2>2. \/ UNCHANGED <<unserved, unpaid>>
        \/ unserved' = [unserved EXCEPT ![g] = @ + 1] /\ unpaid' = unpaid + bid
    BY DEF PurchasingItems, failures
  <2>3. QED BY <1>3, <2>1, <2>2
<1>9. gilMail' \in [Chars -> Nat]
  <2>1. gilMail \in [Chars -> Nat] /\ r.seller \in Chars
    BY <1>2 DEF Kept, TypeOK, Listing
  <2>2. gilMail[r.seller] + bid \in Nat
    BY <2>1, <1>3
  <2>3. QED BY <1>1, <2>1, <2>2 DEF Pay
<1>10. raced' \in BOOLEAN
  BY DEF PurchasingItems, NoteRace
<1>11. TypeOK'
  BY <1>5, <1>6, <1>7, <1>8, <1>9, <1>10, <1>13 DEF Kept, TypeOK
<1>12. QED BY <1>6, <1>11

(* A cancellation.                                                         *)
LEMMA CancelledTypes ==
    ASSUME Kept, NEW c \in Chars, NEW e \in history[c], CancelSale(c, e)
    PROVE  TypeOK' /\ Booked' /\ Labelled'
<1>1. ah' \subseteq ah
  BY DEF CancelSale
<1>2. UNCHANGED <<nextId, goodsMail, gil, gilMail, fees, history, expiring, mailed, crashes, unserved, unpaid>>
  BY DEF CancelSale, searchVars, gilVars, failures
<1>3. \A t \in Threads : Held(t)' \subseteq Held(t)
  BY <1>2 DEF Held
<1>4. /\ ah' \subseteq Listing /\ \A x, y \in ah' : x.id = y.id => x = y
      /\ Booked' /\ Labelled'
  BY <1>1, <1>2, <1>3, Gone
<1>5. e.item \in Goods
  BY DEF Kept, TypeOK, Entry
<1>6. bag' \in [Chars -> [Goods -> Nat]]
  BY <1>5, GoodEnters DEF CancelSale, Add, Kept, TypeOK
<1>7. raced' \in BOOLEAN
  BY DEF CancelSale, NoteRace
<1>8. TypeOK'
  BY <1>2, <1>4, <1>6, <1>7 DEF Kept, TypeOK
<1>9. QED BY <1>4, <1>8

(* A listing comes of age.                                                 *)
LEMMA AgedTypes ==
    ASSUME Kept, NEW r \in ah, GrowOld(r)
    PROVE  TypeOK' /\ Booked' /\ Labelled'
<1> DEFINE s == [r EXCEPT !.old = TRUE]
<1>1. r \in Listing
  BY DEF Kept, TypeOK
<1>2. s \in Listing /\ s.id = r.id /\ s.item = r.item /\ s.buyer = r.buyer /\ s.sale = r.sale
  BY <1>1 DEF Listing
<1>3. /\ ah' = (ah \ {r}) \cup {s}
      /\ UNCHANGED <<nextId, bag, goodsMail, gil, gilMail, fees, history, expiring, mailed, crashes, unserved, unpaid, raced>>
  BY DEF GrowOld, gilVars, searchVars, noted, failures
<1> HIDE DEF s
<1>4. s.buyer = Nobody <=> s.sale = 0
  BY <1>2 DEF Kept, Booked
<1>5. /\ ah' \subseteq Listing /\ \A x, y \in ah' : x.id = y.id => x = y
      /\ Booked' /\ Labelled'
  BY <1>2, <1>3, <1>4, Replaced
<1>6. QED BY <1>3, <1>5 DEF Kept, TypeOK

(* What a thread reads.                                                    *)
LEMMA ReadTypes ==
    ASSUME Kept, NEW t \in Threads, ExpireAHItems(t)
    PROVE  TypeOK' /\ Booked' /\ Labelled'
<1>1. UNCHANGED <<ah, nextId, bag, goodsMail, gil, gilMail, fees, history, mailed, crashes, unserved, unpaid>>
  BY DEF ExpireAHItems, gilVars, failures
<1> DEFINE read == {ParcelOf(r) : r \in Expired}
<1>2. Expired \subseteq ah /\ \A r \in Expired : r \in Listing
  BY DEF Expired, Unsold, Kept, TypeOK
<1>3. \A r \in Expired : ParcelOf(r) \in Parcel /\ ParcelOf(r).id = r.id /\ ParcelOf(r).item = r.item
  BY <1>2 DEF ParcelOf, Parcel, Listing
<1>4. /\ read \subseteq Parcel
      /\ \A p \in read : \E r \in ah : p.id = r.id /\ p.item = r.item
  BY <1>2, <1>3
<1>5. expiring' = [expiring EXCEPT ![t] = read]
  BY DEF ExpireAHItems
<1> HIDE DEF read
<1>6. TypeOK'
  BY <1>1, <1>4, <1>5 DEF ExpireAHItems, NoteRace, Kept, TypeOK
<1>7. Labelled'
  <2>1. SUFFICES ASSUME NEW u \in Threads, NEW p \in Held(u)'
                 PROVE  p.id < nextId /\ \A r \in ah : r.id = p.id => r.item = p.item
    BY <1>1 DEF Labelled
  <2>2. CASE p \in read
    <3>1. PICK r \in ah : p.id = r.id /\ p.item = r.item
      BY <1>4, <2>2
    <3>2. QED BY <3>1 DEF Kept, Booked, TypeOK
  <2>3. CASE p \in Held(u)
    BY <2>3 DEF Kept, Labelled
  <2>4. p \in read \/ p \in Held(u)
    BY <1>1, <1>5 DEF Held, Kept, TypeOK
  <2>5. QED BY <2>2, <2>3, <2>4
<1>8. Booked'
  BY <1>1 DEF Kept, Booked
<1>9. QED BY <1>6, <1>7, <1>8

(* A parcel is mailed.                                                     *)
LEMMA MailedTypes ==
    ASSUME Kept, NEW t \in Threads, MailBack(t)
    PROVE  TypeOK' /\ Booked' /\ Labelled'
<1>1. UNCHANGED <<ah, nextId, bag, gil, gilMail, fees, history, crashes, unserved, unpaid, raced>>
  BY DEF MailBack, gilVars, noted, failures
<1>2. PICK p \in expiring[t] :
          /\ goodsMail' = [goodsMail EXCEPT ![p.seller][p.item] = @ + 1]
          /\ mailed' = [mailed EXCEPT ![t] = p]
          /\ expiring' = [expiring EXCEPT ![t] = @ \ {p}]
  BY DEF MailBack
<1>3. p \in Parcel /\ p.seller \in Chars /\ p.item \in Goods
  BY DEF Kept, TypeOK, Parcel
<1>4. goodsMail' \in [Chars -> [Goods -> Nat]]
  BY <1>2, <1>3, GoodEnters DEF Kept, TypeOK
<1>5. TypeOK'
  BY <1>1, <1>2, <1>3, <1>4 DEF Kept, TypeOK
<1>6. \A u \in Threads : Held(u)' \subseteq Held(u)
  BY <1>2 DEF Held, Kept, TypeOK
<1>7. Booked' /\ Labelled'
  BY <1>1, <1>6, Gone
<1>8. QED BY <1>5, <1>7

(* A listing is deleted.                                                   *)
LEMMA DelistedTypes ==
    ASSUME Kept, NEW t \in Threads, Delist(t)
    PROVE  TypeOK' /\ Booked' /\ Labelled'
<1>1. /\ UNCHANGED <<nextId, bag, goodsMail, gil, gilMail, fees, history, expiring, crashes, unserved, unpaid, raced>>
      /\ ah' \subseteq ah /\ mailed' = [mailed EXCEPT ![t] = NoParcel]
  BY DEF Delist, gilVars, noted, failures
<1>2. \A u \in Threads : Held(u)' \subseteq Held(u)
  BY <1>1 DEF Held, Kept, TypeOK
<1>3. /\ ah' \subseteq Listing /\ \A x, y \in ah' : x.id = y.id => x = y
      /\ Booked' /\ Labelled'
  BY <1>1, <1>2, Gone
<1>4. QED BY <1>1, <1>3 DEF Kept, TypeOK

(* The search server is started again.                                     *)
LEMMA CrashTypes ==
    ASSUME Kept, CrashSearch
    PROVE  TypeOK' /\ Booked' /\ Labelled'
<1>1. /\ UNCHANGED <<ah, nextId, bag, goodsMail, gil, gilMail, fees, history, unserved, unpaid, raced>>
      /\ expiring' = [u \in Threads |-> {}] /\ mailed' = [u \in Threads |-> NoParcel]
  BY DEF CrashSearch, gilVars, failures
<1>2. \A u \in Threads : Held(u)' \subseteq Held(u)
  BY <1>1 DEF Held
<1>3. Booked' /\ Labelled'
  BY <1>1, <1>2, Gone
<1>4. crashes' \in 0..MaxCrashes
  BY AuctionAssumption DEF CrashSearch, Kept, TypeOK
<1>5. QED BY <1>1, <1>3, <1>4 DEF Kept, TypeOK

(* A player looks at the own sales.                                        *)
LEMMA LookedTypes ==
    ASSUME Kept, NEW c \in Chars, OpenListOfSales(c)
    PROVE  TypeOK' /\ Booked' /\ Labelled'
<1> DEFINE rows == {x \in ForSale(c) : Cardinality({y \in ForSale(c) : y.id < x.id}) < HistorySize}
           seen == {[item |-> r.item, price |-> r.price] : r \in rows}
<1>1. UNCHANGED <<ah, nextId, bag, goodsMail, gil, gilMail, fees, expiring, mailed, crashes, unserved, unpaid, raced>>
  BY DEF OpenListOfSales, gilVars, searchVars, noted, failures
<1>2. history' = [history EXCEPT ![c] = seen]
  BY DEF OpenListOfSales
<1>3. rows \subseteq Listing
  BY DEF ForSale, Kept, TypeOK
<1> HIDE DEF rows
<1>4. seen \subseteq Entry
  <2>1. SUFFICES ASSUME NEW r \in rows PROVE [item |-> r.item, price |-> r.price] \in Entry
    OBVIOUS
  <2>2. r.item \in Goods /\ r.price \in Prices
    BY <1>3 DEF Listing
  <2>3. QED BY <2>2 DEF Entry
<1> HIDE DEF seen
<1>5. TypeOK'
  BY <1>1, <1>2, <1>4 DEF Kept, TypeOK
<1>6. Booked' /\ Labelled'
  BY <1>1 DEF Kept, Booked, Labelled, Held
<1>7. QED BY <1>5, <1>6

-----------------------------------------------------------------------------
(* While all threads wait, nothing is in their hands.                      *)
LEMMA IdleAlone ==
    ASSUME \A t \in Threads : Waiting(t)
    PROVE  OneAtWork /\ Present /\ MailedOnce
BY DEF Waiting, OneAtWork, Present, MailedOnce, Held

(* A step that notes a race and leaves the threads alone.                  *)
LEMMA PlayerAlone ==
    ASSUME Kept, NoteRace, UNCHANGED <<expiring, mailed>>
    PROVE  Alone'
<1>1. CASE raced'
  BY <1>1 DEF Alone
<1>2. CASE ~raced'
  <2>1. \A t \in Threads : Waiting(t)
    BY <1>2 DEF NoteRace
  <2>2. \A t \in Threads : Waiting(t)'
    BY <2>1 DEF Waiting
  <2>3. QED BY <2>2, IdleAlone DEF Alone, Waiting, OneAtWork, Present, MailedOnce, Held
<1>3. QED BY <1>1, <1>2

(* The listings that were there and unsold still are.                      *)
LEMMA RowsAlone ==
    ASSUME Kept, UNCHANGED <<expiring, mailed, raced>>,
           \A r \in Unsold : \E s \in Unsold' : s.id = r.id
    PROVE  Alone'
<1>1. SUFFICES ASSUME ~raced PROVE (OneAtWork /\ Present /\ MailedOnce)'
  BY DEF Alone
<1>2. OneAtWork /\ Present /\ MailedOnce
  BY <1>1 DEF Kept, Alone
<1>3. OneAtWork'
  BY <1>2 DEF OneAtWork, Waiting
<1>4. MailedOnce'
  BY <1>2 DEF MailedOnce
<1>5. Present'
  <2>1. SUFFICES ASSUME NEW t \in Threads, NEW p \in Held(t) PROVE \E s \in Unsold' : s.id = p.id
    BY DEF Present, Held
  <2>2. PICK r \in Unsold : r.id = p.id
    BY <1>2 DEF Present
  <2>3. QED BY <2>2
<1>6. QED BY <1>3, <1>4, <1>5

(* What a thread reads is there and unsold.                                *)
LEMMA ReadAlone ==
    ASSUME Kept, NEW t \in Threads, ExpireAHItems(t)
    PROVE  Alone'
<1> DEFINE read == {ParcelOf(r) : r \in Expired}
<1>1. /\ UNCHANGED <<ah, mailed>> /\ expiring' = [expiring EXCEPT ![t] = read]
      /\ expiring \in [Threads -> SUBSET Parcel]
  BY DEF ExpireAHItems, Kept, TypeOK
<1>2. SUFFICES ASSUME ~raced' PROVE (OneAtWork /\ Present /\ MailedOnce)'
  BY DEF Alone
<1>3. \A u \in Threads : expiring[u] = {} /\ mailed[u] = NoParcel
  BY <1>2 DEF ExpireAHItems, NoteRace, Waiting
<1>4. \A p \in read : \E r \in Unsold : r.id = p.id
  BY DEF ParcelOf, Expired
<1>5. \A p, q \in read : p.id = q.id => p = q
  <2>1. SUFFICES ASSUME NEW p \in read, NEW q \in read, p.id = q.id PROVE p = q
    OBVIOUS
  <2>2. PICK r \in Expired : p = ParcelOf(r)
    OBVIOUS
  <2>3. PICK s \in Expired : q = ParcelOf(s)
    OBVIOUS
  <2>4. r.id = s.id /\ r \in ah /\ s \in ah
    BY <2>1, <2>2, <2>3 DEF ParcelOf, Expired, Unsold
  <2>5. r = s
    BY <2>4 DEF Kept, TypeOK
  <2>6. QED BY <2>2, <2>3, <2>5
<1> HIDE DEF read
<1>6. /\ expiring'[t] = read /\ \A u \in Threads \ {t} : expiring'[u] = {}
      /\ \A u \in Threads : mailed'[u] = NoParcel
  BY <1>1, <1>3
<1>7. OneAtWork'
  BY <1>6 DEF OneAtWork, Waiting
<1>8. MailedOnce'
  BY <1>5, <1>6 DEF MailedOnce
<1>9. Unsold' = Unsold
  BY <1>1 DEF Unsold
<1>10. \A u \in Threads : \A p \in Held(u)' : p \in read
  BY <1>6 DEF Held
<1>11. Present'
  BY <1>4, <1>9, <1>10 DEF Present
<1>12. QED BY <1>7, <1>8, <1>11

(* What a thread mails it had in its hands, and holds once.                *)
LEMMA MailedAlone ==
    ASSUME Kept, NEW t \in Threads, MailBack(t)
    PROVE  Alone'
<1>1. UNCHANGED <<ah, raced>> /\ mailed[t] = NoParcel
  BY DEF MailBack, noted
<1>2. PICK p \in expiring[t] :
          /\ mailed' = [mailed EXCEPT ![t] = p] /\ expiring' = [expiring EXCEPT ![t] = @ \ {p}]
  BY DEF MailBack
<1>3. expiring \in [Threads -> SUBSET Parcel] /\ mailed \in [Threads -> Parcel \cup {NoParcel}]
  BY DEF Kept, TypeOK
<1>4. SUFFICES ASSUME ~raced PROVE (OneAtWork /\ Present /\ MailedOnce)'
  BY <1>1 DEF Alone
<1>5. OneAtWork /\ Present /\ MailedOnce
  BY <1>4 DEF Kept, Alone
<1>6. \A u \in Threads : Held(u)' \subseteq Held(u)
  BY <1>2, <1>3 DEF Held
<1>7. Unsold' = Unsold
  BY <1>1 DEF Unsold
<1>8. Present'
  BY <1>5, <1>6, <1>7 DEF Present
<1>9. \A u \in Threads : Waiting(u) => Waiting(u)'
  BY <1>2, <1>3 DEF Waiting
<1>10. OneAtWork'
  BY <1>5, <1>9 DEF OneAtWork
<1>11. MailedOnce'
  <2>1. expiring'[t] = expiring[t] \ {p} /\ mailed'[t] = p
    BY <1>2, <1>3
  <2>2. \A u \in Threads \ {t} : expiring'[u] = expiring[u] /\ mailed'[u] = mailed[u]
    BY <1>2, <1>3
  <2>3. \A q, r \in expiring[t] : q.id = r.id => q = r
    BY <1>5 DEF MailedOnce
  <2>4. QED BY <1>5, <2>1, <2>2, <2>3 DEF MailedOnce
<1>12. QED BY <1>8, <1>10, <1>11

(* What a thread deletes it does not hold twice.                           *)
LEMMA DelistedAlone ==
    ASSUME Kept, NEW t \in Threads, Delist(t)
    PROVE  Alone'
<1>1. /\ UNCHANGED <<expiring, raced>> /\ ah' = {r \in ah : r.id # mailed[t].id}
      /\ mailed[t] # NoParcel /\ mailed' = [mailed EXCEPT ![t] = NoParcel]
  BY DEF Delist, noted
<1>2. expiring \in [Threads -> SUBSET Parcel] /\ mailed \in [Threads -> Parcel \cup {NoParcel}]
  BY DEF Kept, TypeOK
<1>3. SUFFICES ASSUME ~raced PROVE (OneAtWork /\ Present /\ MailedOnce)'
  BY <1>1 DEF Alone
<1>4. OneAtWork /\ Present /\ MailedOnce
  BY <1>3 DEF Kept, Alone
<1>5. \A u \in Threads \ {t} : expiring[u] = {} /\ mailed[u] = NoParcel
  BY <1>1, <1>4 DEF OneAtWork, Waiting
<1>6. OneAtWork'
  BY <1>1, <1>2, <1>5 DEF OneAtWork, Waiting
<1>7. MailedOnce'
  BY <1>1, <1>2, <1>4 DEF MailedOnce
<1>8. ASSUME NEW u \in Threads, NEW p \in Held(u)' PROVE \E r \in Unsold' : r.id = p.id
  <2>1. u = t /\ p \in expiring[t]
    BY <1>1, <1>2, <1>5 DEF Held
  <2>2. p.id # mailed[t].id
    BY <1>1, <1>4, <2>1 DEF MailedOnce
  <2>3. PICK r \in Unsold : r.id = p.id
    BY <1>4, <2>1 DEF Present, Held
  <2>4. QED BY <1>1, <2>2, <2>3 DEF Unsold
<1>9. QED BY <1>6, <1>7, <1>8 DEF Present

(* Nothing but a step of the players or of the threads changes what the    *)
(* invariant says.                                                         *)
LEMMA KeptStep == Kept /\ [Next]_vars => Kept'
<1> SUFFICES ASSUME Kept, [Next]_vars PROVE Kept'
  OBVIOUS
<1>1. ASSUME NEW c \in Chars, NEW g \in Goods, NEW p \in Prices, ProofOfPurchase(c, g, p) PROVE Kept'
  <2>1. \A r \in Unsold : r \in Unsold'
    BY <1>1 DEF ProofOfPurchase, Unsold
  <2>2. UNCHANGED <<expiring, mailed, raced>>
    BY <1>1 DEF ProofOfPurchase, searchVars, noted
  <2>3. Alone'
    BY <2>1, <2>2, RowsAlone
  <2>4. QED BY <1>1, <2>3, ListedTypes DEF Kept
<1>2. ASSUME NEW c \in Chars, NEW g \in Goods, NEW p \in Prices, PurchasingItems(c, g, p) PROVE Kept'
  <2>1. Alone'
    BY <1>2, PlayerAlone DEF PurchasingItems, searchVars
  <2>2. QED BY <1>2, <2>1, BoughtTypes DEF Kept
<1>3. ASSUME NEW c \in Chars, OpenListOfSales(c) PROVE Kept'
  <2>1. UNCHANGED <<ah, expiring, mailed, raced>>
    BY <1>3 DEF OpenListOfSales, searchVars, noted
  <2>2. Alone'
    BY <2>1, RowsAlone DEF Unsold
  <2>3. QED BY <1>3, <2>2, LookedTypes DEF Kept
<1>4. ASSUME NEW c \in Chars, NEW e \in history[c], CancelSale(c, e) PROVE Kept'
  <2>1. Alone'
    BY <1>4, PlayerAlone DEF CancelSale, searchVars
  <2>2. QED BY <1>4, <2>1, CancelledTypes DEF Kept
<1>5. ASSUME NEW r \in ah, GrowOld(r) PROVE Kept'
  <2>1. ah' = (ah \ {r}) \cup {[r EXCEPT !.old = TRUE]} /\ UNCHANGED <<expiring, mailed, raced>>
    BY <1>5 DEF GrowOld, searchVars, noted
  <2>2. [r EXCEPT !.old = TRUE].id = r.id /\ [r EXCEPT !.old = TRUE].buyer = r.buyer
    BY DEF Kept, TypeOK, Listing
  <2>3. \A x \in Unsold : \E s \in Unsold' : s.id = x.id
    BY <2>1, <2>2 DEF Unsold
  <2>4. Alone'
    BY <2>1, <2>3, RowsAlone
  <2>5. QED BY <1>5, <2>4, AgedTypes DEF Kept
<1>6. ASSUME NEW t \in Threads, ExpireAHItems(t) PROVE Kept'
  BY <1>6, ReadTypes, ReadAlone DEF Kept
<1>7. ASSUME NEW t \in Threads, MailBack(t) PROVE Kept'
  BY <1>7, MailedTypes, MailedAlone DEF Kept
<1>8. ASSUME NEW t \in Threads, Delist(t) PROVE Kept'
  BY <1>8, DelistedTypes, DelistedAlone DEF Kept
<1>9. ASSUME CrashSearch PROVE Kept'
  <2>1. \A t \in Threads : expiring'[t] = {} /\ mailed'[t] = NoParcel
    BY <1>9 DEF CrashSearch
  <2>2. Alone'
    BY <2>1 DEF Alone, OneAtWork, Present, MailedOnce, Waiting, Held
  <2>3. QED BY <1>9, <2>2, CrashTypes DEF Kept
<1>10. ASSUME UNCHANGED vars PROVE Kept'
  <2>1. UNCHANGED <<ah, nextId, bag, goodsMail, gil, gilMail, fees, history, expiring, mailed,
                    crashes, unserved, unpaid, raced>>
    BY <1>10 DEF vars, gilVars, searchVars, noted, failures
  <2>2. TypeOK'
    BY <2>1 DEF Kept, TypeOK
  <2>3. Booked' /\ Labelled'
    BY <2>1 DEF Kept, Booked, Labelled, Held
  <2>4. Alone'
    BY <2>1, RowsAlone DEF Unsold
  <2>5. QED BY <2>2, <2>3, <2>4 DEF Kept
<1>11. QED BY <1>1, <1>2, <1>3, <1>4, <1>5, <1>6, <1>7, <1>8, <1>9, <1>10 DEF Next

LEMMA KeptInitially == Init => Kept
<1> SUFFICES ASSUME Init PROVE Kept
  OBVIOUS
<1>1. TypeOK
  <2>1. ah \subseteq Listing /\ \A r, x \in ah : r.id = x.id => r = x
    BY DEF Init
  <2>2. nextId \in 1..(MaxListings + 1) /\ crashes \in 0..MaxCrashes
    BY AuctionAssumption DEF Init
  <2>3. bag \in [Chars -> [Goods -> Nat]] /\ gil \in [Chars -> Nat]
    BY AuctionAssumption DEF Init
  <2>4. goodsMail \in [Chars -> [Goods -> Nat]] /\ gilMail \in [Chars -> Nat] /\ fees \in Nat
    BY DEF Init
  <2>5. /\ history \in [Chars -> SUBSET Entry] /\ expiring \in [Threads -> SUBSET Parcel]
        /\ mailed \in [Threads -> Parcel \cup {NoParcel}] /\ raced \in BOOLEAN
        /\ unserved \in [Goods -> Nat] /\ unpaid \in Nat
    BY DEF Init
  <2>6. QED BY <2>1, <2>2, <2>3, <2>4, <2>5 DEF TypeOK
<1>2. Booked
  BY DEF Init, Booked
<1>3. \A t \in Threads : Waiting(t) /\ Held(t) = {}
  BY DEF Init, Waiting, Held
<1>4. Labelled /\ Alone
  BY <1>3, IdleAlone DEF Labelled, Alone
<1>5. QED BY <1>1, <1>2, <1>4 DEF Kept

LEMMA AlwaysKept == Spec => []Kept
BY KeptInitially, KeptStep, PTL DEF Spec

(* TypeOK: no balance falls below zero, an id is given to one listing, and *)
(* an entry of the history or a parcel names goods that exist.             *)
THEOREM AuctionTypeCorrect == Spec => []TypeOK
<1>1. Kept => TypeOK
  BY DEF Kept
<1>2. QED BY <1>1, AlwaysKept, PTL

-----------------------------------------------------------------------------
(* The sum of a seller's sales is over finitely many rows.                 *)
LEMMA ShownFinite ==
    ASSUME TypeOK, NEW c \in Chars
    PROVE  /\ IsFiniteSet({r \in ah : r.seller = c}) /\ Shown(c) \in Nat
           /\ \A r \in Listing : SaleOf[r] = r.sale /\ r.sale \in Nat
<1>1. IsFiniteSet({r \in ah : r.seller = c})
  <2>1. {r \in ah : r.seller = c} \in SUBSET ah
    OBVIOUS
  <2>2. QED BY <2>1, FiniteTable, FS_Subset
<1>2. \A r \in Listing : SaleOf[r] = r.sale /\ r.sale \in Nat
  <2>1. \A r \in Listing : r.sale \in Prices \cup {0}
    BY DEF Listing
  <2>2. Prices \cup {0} \subseteq Nat
    BY AuctionAssumption
  <2>3. \A r \in Listing : r.sale \in Nat
    BY <2>1, <2>2
  <2>4. \A r \in Listing : SaleOf[r] = r.sale
    BY DEF SaleOf
  <2>5. QED BY <2>3, <2>4
<1>3. \A r \in ah : SaleOf[r] \in Nat
  BY <1>2 DEF TypeOK
<1>4. Shown(c) \in Nat
  BY <1>1, <1>3, UnitsFinite DEF Shown
<1>5. QED BY <1>1, <1>2, <1>4

(* Rows that show no sale come and go, or others go.                       *)
LEMMA ShownRest ==
    ASSUME TypeOK, TypeOK', NEW c \in Chars
    PROVE  /\ ah \subseteq ah' /\ (\A r \in ah' \ ah : r.sale = 0) => Shown(c)' = Shown(c)
           /\ ah' \subseteq ah => Shown(c)' <= Shown(c)
           /\ ah' \subseteq ah /\ (\A r \in ah \ ah' : r.sale = 0) => Shown(c)' = Shown(c)
<1> DEFINE S == {r \in ah : r.seller = c}
           T == {r \in ah' : r.seller = c}
<1>1. Shown(c) = Tally(SaleOf, S) /\ Shown(c)' = Tally(SaleOf, T)
  BY DEF Shown, SaleOf
<1>2. \A r \in Listing : SaleOf[r] = r.sale /\ r.sale \in Nat
  BY ShownFinite
<1>3. \A r \in S \cup T : SaleOf[r] = r.sale /\ SaleOf[r] \in Nat
  BY <1>2 DEF TypeOK
<1>4. IsFiniteSet(S)
  BY ShownFinite
<1>5. IsFiniteSet(T)
  <2>1. IsFiniteSet(ah')
    BY FiniteRows DEF TypeOK
  <2>2. T \in SUBSET ah'
    OBVIOUS
  <2>3. QED BY <2>1, <2>2, FS_Subset
<1>6. ASSUME ah \subseteq ah', \A r \in ah' \ ah : r.sale = 0 PROVE Tally(SaleOf, S) = Tally(SaleOf, T)
  <2>1. S \in SUBSET T /\ \A r \in T \ S : SaleOf[r] = 0
    BY <1>3, <1>6
  <2>2. QED BY <1>3, <1>5, <2>1, TallySubset
<1>7. ASSUME ah' \subseteq ah PROVE Tally(SaleOf, T) <= Tally(SaleOf, S)
  <2>1. T \in SUBSET S
    BY <1>7
  <2>2. QED BY <1>3, <1>4, <2>1, TallySubset
<1>8. ASSUME ah' \subseteq ah, \A r \in ah \ ah' : r.sale = 0 PROVE Tally(SaleOf, T) = Tally(SaleOf, S)
  <2>1. T \in SUBSET S /\ \A r \in S \ T : SaleOf[r] = 0
    BY <1>3, <1>8
  <2>2. QED BY <1>3, <1>4, <2>1, TallySubset
<1>9. QED BY <1>1, <1>6, <1>7, <1>8

(* A row gives way to one of the same id and seller.                       *)
LEMMA ShownChange ==
    ASSUME TypeOK, NEW r \in ah, NEW s \in Listing, ah' = (ah \ {r}) \cup {s},
           s.id = r.id, s.seller = r.seller, NEW c \in Chars
    PROVE  Shown(c)' = IF c = r.seller THEN Shown(c) + s.sale - r.sale ELSE Shown(c)
<1> DEFINE S == {x \in ah : x.seller = c}
           T == {x \in ah' : x.seller = c}
<1>1. Shown(c) = Tally(SaleOf, S) /\ Shown(c)' = Tally(SaleOf, T)
  BY DEF Shown, SaleOf
<1>2. \A x \in Listing : SaleOf[x] = x.sale /\ x.sale \in Nat
  BY ShownFinite
<1>3. IsFiniteSet(S) /\ Tally(SaleOf, S) \in Nat
  BY ShownFinite, <1>1
<1>4. r \in Listing /\ s \in Listing
  BY DEF TypeOK
<1>5. CASE c # r.seller
  <2>1. S = T
    BY <1>5
  <2>2. QED BY <1>1, <1>5, <2>1
<1>6. CASE c = r.seller
  <2>1. T = (S \ {r}) \cup {s} /\ r \in S
    BY <1>6
  <2>2. s \notin S \ {r}
    BY DEF TypeOK
  <2>3. \A x \in S \cup {s} : SaleOf[x] \in Nat
    BY <1>2, <1>4 DEF TypeOK
  <2>4. IsFiniteSet(S \ {r})
    BY <1>3, FS_RemoveElement
  <2> HIDE DEF S, T
  <2>5. Tally(SaleOf, S) = Tally(SaleOf, S \ {r}) + SaleOf[r]
    BY <1>3, <2>1, <2>3, TallyRemove
  <2>6. Tally(SaleOf, (S \ {r}) \cup {s}) = Tally(SaleOf, S \ {r}) + SaleOf[s]
    <3>1. \A x \in (S \ {r}) \cup {s} : SaleOf[x] \in Nat
      BY <2>3
    <3>2. QED BY <2>2, <2>4, <3>1, TallyAdd
  <2>7. Tally(SaleOf, S \ {r}) \in Nat
    <3>1. \A x \in S \ {r} : SaleOf[x] \in Nat
      BY <2>3
    <3>2. QED BY <2>4, <3>1, UnitsFinite
  <2>8. QED BY <1>1, <1>2, <1>4, <1>6, <2>1, <2>5, <2>6, <2>7
<1>7. QED BY <1>5, <1>6

(* The gil of one changes.                                                 *)
LEMMA GilChange ==
    ASSUME NEW f \in [Chars -> Nat], NEW c \in Chars, NEW k \in Nat
    PROVE  /\ Tally([f EXCEPT ![c] = k], Chars) = Tally(f, Chars) + k - f[c]
           /\ Tally(f, Chars) \in Nat
<1> DEFINE e == [f EXCEPT ![c] = k]
<1>1. e \in [Chars -> Nat] /\ e[c] = k /\ \A x \in Chars \ {c} : e[x] = f[x]
  OBVIOUS
<1>2. IsFiniteSet(Chars)
  BY AuctionAssumption
<1> HIDE DEF e
<1>3. \A x \in Chars : f[x] \in Nat /\ e[x] \in Nat
  BY <1>1
<1>4. Tally(e, Chars) = Tally(f, Chars) + e[c] - f[c]
  BY <1>1, <1>2, <1>3, TallyChange
<1>5. QED BY <1>1, <1>2, <1>3, <1>4, UnitsFinite DEF e

(* Nothing of the gil and the sales changes.                               *)
LEMMA PaidStays ==
    ASSUME SellersPaid, UNCHANGED <<gil, gilMail, fees, unpaid, raced>>,
           \A c \in Chars : Shown(c)' = Shown(c)
    PROVE  SellersPaid'
BY DEF SellersPaid

LEMMA PaidStep == Kept /\ Kept' /\ SellersPaid /\ [Next]_vars => SellersPaid'
<1> SUFFICES ASSUME Kept, Kept', SellersPaid, [Next]_vars PROVE SellersPaid'
  OBVIOUS
<1> TypeOK /\ TypeOK'
  BY DEF Kept
<1>1. ASSUME NEW c \in Chars, NEW g \in Goods, NEW p \in Prices, ProofOfPurchase(c, g, p)
      PROVE  SellersPaid'
  <2>1. /\ UNCHANGED <<gilMail, unpaid, raced>> /\ fees' = fees + Fee
        /\ gil' = [gil EXCEPT ![c] = @ - Fee] /\ gil[c] >= Fee
    BY <1>1 DEF ProofOfPurchase, noted, failures, Affords
  <2>2. ah \subseteq ah' /\ \A r \in ah' \ ah : r.sale = 0
    BY <1>1 DEF ProofOfPurchase
  <2>3. \A d \in Chars : Shown(d)' = Shown(d)
    BY <2>2, ShownRest
  <2>4. gil \in [Chars -> Nat] /\ gil[c] - Fee \in Nat /\ Fee \in Nat /\ fees \in Nat /\ gil[c] \in Nat
    BY <2>1, AuctionAssumption DEF TypeOK
  <2>5. Tally(gil', Chars) = Tally(gil, Chars) - Fee /\ Tally(gil, Chars) \in Nat
    <3>1. Tally([gil EXCEPT ![c] = gil[c] - Fee], Chars) = Tally(gil, Chars) + (gil[c] - Fee) - gil[c]
      BY <2>4, GilChange
    <3>2. Tally(gil, Chars) \in Nat
      BY <2>4, GilChange
    <3>3. QED BY <2>1, <2>4, <3>1, <3>2
  <2>6. Tally(gilMail, Chars) \in Nat
    BY <2>4, GilChange DEF TypeOK
  <2>7. Tally(gil', Chars) + Tally(gilMail', Chars) + fees' = Tally(Purse, Chars) + unpaid'
    BY <2>1, <2>4, <2>5, <2>6 DEF SellersPaid
  <2>8. QED BY <2>1, <2>3, <2>7 DEF SellersPaid
<1>2. ASSUME NEW c \in Chars, NEW g \in Goods, NEW bid \in Prices, PurchasingItems(c, g, bid)
      PROVE  SellersPaid'
  <2>1. PICK r \in Cheapest(Offers(g, bid)) :
            ah' = (ah \ {r}) \cup {Sold(r, c, bid)} /\ Pay(r.seller, bid)
    BY <1>2 DEF PurchasingItems
  <2>2. /\ UNCHANGED fees /\ gil[c] >= bid
        /\ raced => raced'
    BY <1>2 DEF PurchasingItems, Affords, NoteRace
  <2>3. r \in ah /\ r \in Listing /\ r.sale = 0 /\ r.seller \in Chars
    BY DEF Cheapest, Offers, Unsold, Kept, Booked, TypeOK, Listing
  <2>4. /\ Sold(r, c, bid) \in Listing /\ Sold(r, c, bid).id = r.id
        /\ Sold(r, c, bid).seller = r.seller /\ Sold(r, c, bid).sale = bid
    BY <2>3 DEF Sold, Listing
  <2>5. ASSUME NEW d \in Chars PROVE Shown(d)' = IF d = r.seller THEN Shown(d) + bid - 0 ELSE Shown(d)
    BY <2>1, <2>3, <2>4, ShownChange
  <2>6. /\ gil \in [Chars -> Nat] /\ gilMail \in [Chars -> Nat] /\ fees \in Nat /\ bid \in Nat
        /\ gil[c] - bid \in Nat /\ gilMail[r.seller] + bid \in Nat
        /\ gil[c] \in Nat /\ gilMail[r.seller] \in Nat
    BY <2>2, <2>3, AuctionAssumption DEF TypeOK
  <2>7. gilMail' = [gilMail EXCEPT ![r.seller] = gilMail[r.seller] + bid]
    BY <2>1 DEF Pay
  <2>8. gilMail'[r.seller] = gilMail[r.seller] + bid /\ \A d \in Chars \ {r.seller} : gilMail'[d] = gilMail[d]
    BY <2>3, <2>6, <2>7
  <2>9. ASSUME NEW d \in Chars PROVE gilMail'[d] >= Shown(d)' /\ (raced' \/ gilMail'[d] = Shown(d)')
    <3>1. Shown(d) \in Nat /\ gilMail[d] \in Nat
      BY <2>6, ShownFinite
    <3>2. gilMail[d] >= Shown(d) /\ (raced \/ gilMail[d] = Shown(d))
      BY DEF SellersPaid
    <3>3. CASE d = r.seller
      BY <2>2, <2>5, <2>6, <2>8, <3>1, <3>2, <3>3
    <3>4. CASE d # r.seller
      BY <2>2, <2>5, <2>8, <3>1, <3>2, <3>4
    <3>5. QED BY <3>3, <3>4
  <2>10. /\ Tally([gil EXCEPT ![c] = gil[c] - bid], Chars) = Tally(gil, Chars) + (gil[c] - bid) - gil[c]
         /\ Tally(gil, Chars) \in Nat
    BY <2>6, GilChange
  <2>11. /\ Tally(gilMail', Chars) = Tally(gilMail, Chars) + (gilMail[r.seller] + bid) - gilMail[r.seller]
         /\ Tally(gilMail, Chars) \in Nat
    BY <2>3, <2>6, <2>7, GilChange
  <2>12. \/ Tally(gil', Chars) = Tally(gil, Chars) + (gil[c] - bid) - gil[c] /\ unpaid' = unpaid
         \/ Tally(gil', Chars) = Tally(gil, Chars) /\ unpaid' = unpaid + bid
    <3>1. \/ gil' = [gil EXCEPT ![c] = gil[c] - bid] /\ unpaid' = unpaid
          \/ gil' = gil /\ unpaid' = unpaid + bid
      BY <1>2 DEF PurchasingItems, failures
    <3>2. QED BY <2>10, <3>1
  <2>13. unpaid \in Nat /\ Tally(Purse, Chars) \in Nat
    BY AuctionAssumption, GilChange, UnitsFinite DEF TypeOK
  <2>14. Tally(gil', Chars) + Tally(gilMail', Chars) + fees' = Tally(Purse, Chars) + unpaid'
    BY <2>2, <2>6, <2>10, <2>11, <2>12, <2>13 DEF SellersPaid
  <2>15. QED BY <2>9, <2>14 DEF SellersPaid
<1>3. ASSUME NEW c \in Chars, OpenListOfSales(c) PROVE SellersPaid'
  BY <1>3, PaidStays DEF OpenListOfSales, gilVars, noted, failures, Shown, SaleOf
<1>4. ASSUME NEW c \in Chars, NEW e \in history[c], CancelSale(c, e) PROVE SellersPaid'
  <2>1. ah' \subseteq ah /\ \A r \in ah \ ah' : r.sale = 0
    BY <1>4 DEF CancelSale, Matching, ForSale
  <2>2. \A d \in Chars : Shown(d)' = Shown(d)
    BY <2>1, ShownRest
  <2>3. UNCHANGED <<gil, gilMail, fees, unpaid>> /\ (raced => raced')
    BY <1>4 DEF CancelSale, gilVars, failures, NoteRace
  <2>4. QED BY <2>2, <2>3 DEF SellersPaid
<1>5. ASSUME NEW r \in ah, GrowOld(r) PROVE SellersPaid'
  <2> DEFINE s == [r EXCEPT !.old = TRUE]
  <2>1. r \in Listing
    BY DEF TypeOK
  <2>2. s \in Listing /\ s.id = r.id /\ s.seller = r.seller /\ s.sale = r.sale
    BY <2>1 DEF Listing
  <2>3. ah' = (ah \ {r}) \cup {s} /\ UNCHANGED <<gil, gilMail, fees, unpaid, raced>>
    BY <1>5 DEF GrowOld, gilVars, noted, failures
  <2> HIDE DEF s
  <2>4. ASSUME NEW d \in Chars PROVE Shown(d)' = Shown(d)
    <3>1. Shown(d)' = IF d = r.seller THEN Shown(d) + s.sale - r.sale ELSE Shown(d)
      BY <2>2, <2>3, ShownChange
    <3>2. Shown(d) \in Nat /\ r.sale \in Nat
      BY <2>1, ShownFinite
    <3>3. QED BY <2>2, <3>1, <3>2
  <2>5. QED BY <2>3, <2>4, PaidStays
<1>6. ASSUME NEW t \in Threads, ExpireAHItems(t) PROVE SellersPaid'
  <2>1. UNCHANGED <<ah, gil, gilMail, fees, unpaid>> /\ (raced => raced')
    BY <1>6 DEF ExpireAHItems, gilVars, failures, NoteRace
  <2>2. QED BY <2>1 DEF SellersPaid, Shown, SaleOf
<1>7. ASSUME NEW t \in Threads, MailBack(t) PROVE SellersPaid'
  BY <1>7, PaidStays DEF MailBack, gilVars, noted, failures, Shown, SaleOf
<1>8. ASSUME NEW t \in Threads, Delist(t) PROVE SellersPaid'
  <2>1. ah' = {r \in ah : r.id # mailed[t].id} /\ UNCHANGED <<gil, gilMail, fees, unpaid, raced>> /\ mailed[t] # NoParcel
    BY <1>8 DEF Delist, gilVars, noted, failures
  <2>2. ASSUME ~raced PROVE \A r \in ah \ ah' : r.sale = 0
    <3>1. mailed[t] \in Held(t)
      BY <2>1 DEF Held
    <3>2. PICK x \in Unsold : x.id = mailed[t].id
      BY <2>2, <3>1 DEF Kept, Alone, Present
    <3>3. x.sale = 0 /\ x \in ah
      BY DEF Unsold, Kept, Booked
    <3>4. \A r \in ah \ ah' : r = x
      BY <2>1, <3>2, <3>3 DEF TypeOK
    <3>5. QED BY <3>3, <3>4
  <2>3. ASSUME NEW d \in Chars PROVE gilMail[d] >= Shown(d)' /\ (raced \/ gilMail[d] = Shown(d)')
    <3>1. Shown(d)' <= Shown(d) /\ (raced \/ Shown(d)' = Shown(d))
      BY <2>1, <2>2, ShownRest
    <3>2. Shown(d) \in Nat /\ Shown(d)' \in Nat /\ gilMail[d] \in Nat
      <4>1. IsFiniteSet({r \in ah' : r.seller = d})
        <5>1. {r \in ah' : r.seller = d} \in SUBSET ah
          BY <2>1
        <5>2. QED BY <5>1, FiniteTable, FS_Subset
      <4>2. \A r \in ah' : SaleOf[r] \in Nat
        BY ShownFinite DEF TypeOK
      <4>3. Shown(d)' = Tally(SaleOf, {r \in ah' : r.seller = d})
        BY DEF Shown, SaleOf
      <4>4. Shown(d)' \in Nat
        BY <4>1, <4>2, <4>3, UnitsFinite
      <4>5. QED BY <4>4, ShownFinite DEF TypeOK
    <3>3. QED BY <3>1, <3>2 DEF SellersPaid
  <2>4. QED BY <2>1, <2>3 DEF SellersPaid
<1>9. ASSUME CrashSearch PROVE SellersPaid'
  BY <1>9, PaidStays DEF CrashSearch, gilVars, failures, Shown, SaleOf
<1>10. ASSUME UNCHANGED vars PROVE SellersPaid'
  BY <1>10, PaidStays DEF vars, gilVars, noted, failures, Shown, SaleOf
<1>11. QED BY <1>1, <1>2, <1>3, <1>4, <1>5, <1>6, <1>7, <1>8, <1>9, <1>10 DEF Next

LEMMA PaidInitially == Init => SellersPaid
<1> SUFFICES ASSUME Init PROVE SellersPaid
  OBVIOUS
<1>1. ASSUME NEW c \in Chars PROVE Shown(c) = 0 /\ gilMail[c] = 0
  <2>1. {r \in ah : r.seller = c} = {}
    BY DEF Init
  <2>2. QED BY <2>1, TallyEmpty DEF Shown, Init
<1>2. Tally(gilMail, Chars) = 0
  <2>1. {} \in SUBSET Chars /\ \A c \in Chars \ {} : gilMail[c] = 0
    BY DEF Init
  <2>2. IsFiniteSet(Chars) /\ \A c \in Chars : gilMail[c] \in Nat
    BY <2>1, AuctionAssumption
  <2>3. QED BY <2>1, <2>2, TallySubset, TallyEmpty
<1>3. Tally(gil, Chars) \in Nat /\ gil = Purse /\ fees = 0 /\ unpaid = 0
  BY AuctionAssumption, GilChange, UnitsFinite DEF Init
<1>4. QED BY <1>1, <1>2, <1>3 DEF SellersPaid

(* SellersPaid: every purchase pays the seller of the listing once and in  *)
(* full, whatever runs at the same time, and no gil is made or lost.       *)
THEOREM EverySaleIsPaid == Spec => []SellersPaid
BY PaidInitially, PaidStep, AlwaysKept, PTL DEF Spec

-----------------------------------------------------------------------------
(* The goods of one character change.                                      *)
LEMMA EveryonesChange ==
    ASSUME NEW f \in [Chars -> [Goods -> Nat]], NEW e \in [Chars -> [Goods -> Nat]],
           NEW c \in Chars, NEW g \in Goods,
           \A x \in Chars, h \in Goods : x # c \/ h # g => e[x][h] = f[x][h]
    PROVE  /\ Everyones(e, g) = Everyones(f, g) + e[c][g] - f[c][g]
           /\ \A h \in Goods \ {g} : Everyones(e, h) = Everyones(f, h)
<1> DEFINE E(h) == [x \in Chars |-> e[x][h]]
           F(h) == [x \in Chars |-> f[x][h]]
<1>3. \A h \in Goods : Everyones(e, h) = Tally(E(h), Chars) /\ Everyones(f, h) = Tally(F(h), Chars)
  BY DEF Everyones
<1>4. \A h \in Goods : \A x \in Chars : E(h)[x] = e[x][h] /\ F(h)[x] = f[x][h]
  OBVIOUS
<1>5. \A h \in Goods : \A x \in Chars : E(h)[x] \in Nat /\ F(h)[x] \in Nat
  BY <1>4
<1> HIDE DEF E, F
<1>6. IsFiniteSet(Chars)
  BY AuctionAssumption
<1>7. Tally(E(g), Chars) = Tally(F(g), Chars) + E(g)[c] - F(g)[c]
  <2>1. \A x \in Chars \ {c} : E(g)[x] = F(g)[x]
    BY <1>4
  <2>2. QED BY <1>5, <1>6, <2>1, TallyChange
<1>8. ASSUME NEW h \in Goods \ {g} PROVE Tally(E(h), Chars) = Tally(F(h), Chars)
  <2>1. \A x \in Chars : E(h)[x] = F(h)[x]
    BY <1>4
  <2>2. QED BY <2>1, TallyEqual
<1>9. QED BY <1>3, <1>4, <1>7, <1>8

LEMMA EveryonesType ==
    ASSUME NEW f \in [Chars -> [Goods -> Nat]], NEW g \in Goods
    PROVE  Everyones(f, g) \in Nat
<1> DEFINE F == [x \in Chars |-> f[x][g]]
<1>1. \A x \in Chars : F[x] \in Nat
  OBVIOUS
<1> HIDE DEF F
<1>2. Tally(F, Chars) \in Nat
  BY <1>1, UnitsFinite, AuctionAssumption
<1>3. QED BY <1>2 DEF Everyones, F

LEMMA TotalType ==
    ASSUME TypeOK, NEW g \in Goods
    PROVE  /\ Everyones(bag, g) \in Nat /\ Everyones(goodsMail, g) \in Nat
           /\ IsFiniteSet(Offered(g)) /\ Cardinality(Offered(g)) \in Nat
           /\ unserved[g] \in Nat /\ Total(g) \in Nat
<1>1. Everyones(bag, g) \in Nat /\ Everyones(goodsMail, g) \in Nat
  BY EveryonesType DEF TypeOK
<1>2. Offered(g) \in SUBSET ah
  BY DEF Offered, Unsold
<1>3. IsFiniteSet(Offered(g)) /\ Cardinality(Offered(g)) \in Nat
  BY <1>2, FiniteTable, FS_Subset, FS_CardinalityType
<1>4. unserved[g] \in Nat
  BY DEF TypeOK
<1>5. QED BY <1>1, <1>3, <1>4 DEF Total

(* One good enters an inventory: the mail and the other goods stay.        *)
LEMMA BagCounts ==
    ASSUME TypeOK, NEW c \in Chars, NEW g \in Goods, NEW k \in Nat,
           bag' = [bag EXCEPT ![c][g] = k], UNCHANGED goodsMail
    PROVE  /\ Everyones(bag, g)' = Everyones(bag, g) + k - bag[c][g]
           /\ \A h \in Goods \ {g} : Everyones(bag, h)' = Everyones(bag, h)
           /\ \A h \in Goods : Everyones(goodsMail, h)' = Everyones(goodsMail, h)
<1>1. /\ bag \in [Chars -> [Goods -> Nat]] /\ bag' \in [Chars -> [Goods -> Nat]]
      /\ bag'[c][g] = k /\ \A x \in Chars, h \in Goods : x # c \/ h # g => bag'[x][h] = bag[x][h]
  BY DEF TypeOK
<1>2. \A h \in Goods : Everyones(bag, h)' = Everyones(bag', h)
  BY DEF Everyones
<1>3. /\ Everyones(bag', g) = Everyones(bag, g) + bag'[c][g] - bag[c][g]
      /\ \A h \in Goods \ {g} : Everyones(bag', h) = Everyones(bag, h)
  BY <1>1, EveryonesChange
<1>4. \A h \in Goods : Everyones(goodsMail, h)' = Everyones(goodsMail, h)
  BY DEF Everyones
<1>5. QED BY <1>1, <1>2, <1>3, <1>4

(* Neither inventories nor mail nor offers change, and no purchase fails.  *)
LEMMA TotalStays ==
    ASSUME UNCHANGED <<bag, goodsMail, unserved>>, \A g \in Goods : Offered(g)' = Offered(g)
    PROVE  \A g \in Goods : Total(g)' = Total(g)
BY DEF Total, Everyones

(* A listing: from the inventory to the table.                             *)
LEMMA ListedCounts ==
    ASSUME Kept, NEW c \in Chars, NEW g \in Goods, NEW price \in Prices, ProofOfPurchase(c, g, price)
    PROVE  \A h \in Goods : Total(h)' = Total(h)
<1> DEFINE new == [id |-> nextId, item |-> g, seller |-> c, price |-> price,
                   buyer |-> Nobody, sale |-> 0, old |-> FALSE]
<1>1. new.id = nextId /\ new.buyer = Nobody /\ new.item = g
  OBVIOUS
<1>2. ah' = ah \cup {new} /\ UNCHANGED <<goodsMail, mailed, unserved>>
  BY DEF ProofOfPurchase, searchVars, noted, failures
<1> HIDE DEF new
<1>3. TypeOK
  BY DEF Kept
<1>4. \A r \in ah : r.id # nextId
  BY DEF Kept, Booked, TypeOK, Listing
<1>5. nextId \notin Leaving
  <2>1. SUFFICES ASSUME NEW t \in Threads, mailed[t] # NoParcel PROVE mailed[t].id # nextId
    BY DEF Leaving
  <2>2. mailed[t] \in Held(t) /\ mailed[t].id \in Nat
    BY <1>3, <2>1 DEF Held, TypeOK, Parcel
  <2>3. mailed[t].id < nextId
    BY <2>2 DEF Kept, Labelled
  <2>4. QED BY <2>2, <2>3 DEF Kept, TypeOK
<1>6. Leaving' = Leaving
  BY <1>2 DEF Leaving
<1>7. Offered(g)' = Offered(g) \cup {new} /\ new \notin Offered(g)
  BY <1>1, <1>2, <1>4, <1>5, <1>6 DEF Offered, Unsold
<1>8. \A h \in Goods \ {g} : Offered(h)' = Offered(h)
  BY <1>1, <1>2, <1>6 DEF Offered, Unsold
<1>9. Cardinality(Offered(g)') = Cardinality(Offered(g)) + 1
  BY <1>3, <1>7, TotalType, FS_AddElement
<1>10. bag[c][g] - 1 \in Nat /\ bag[c][g] \in Nat /\ bag' = [bag EXCEPT ![c][g] = bag[c][g] - 1]
  BY <1>3 DEF ProofOfPurchase, TypeOK
<1>11. /\ Everyones(bag, g)' = Everyones(bag, g) + (bag[c][g] - 1) - bag[c][g]
       /\ \A h \in Goods \ {g} : Everyones(bag, h)' = Everyones(bag, h)
       /\ \A h \in Goods : Everyones(goodsMail, h)' = Everyones(goodsMail, h)
  BY <1>2, <1>3, <1>10, BagCounts
<1>12. Total(g)' = Total(g)
  BY <1>2, <1>3, <1>9, <1>10, <1>11, TotalType DEF Total
<1>13. \A h \in Goods \ {g} : Total(h)' = Total(h)
  BY <1>2, <1>8, <1>11 DEF Total
<1>14. QED BY <1>12, <1>13

(* A listing is bought or cancelled: from the table to an inventory, or to *)
(* a purchase that failed. Only one whose goods are on their way back      *)
(* already counts twice then.                                              *)
LEMMA TakenCounts ==
    ASSUME Kept, NEW c \in Chars, NEW r \in Unsold, Unsold' = Unsold \ {r},
           \/ Add(c, r.item) /\ UNCHANGED unserved
           \/ UNCHANGED bag /\ unserved' = [unserved EXCEPT ![r.item] = @ + 1],
           NoteRace, UNCHANGED <<goodsMail, expiring, mailed>>
    PROVE  /\ \A h \in Goods : Total(h)' >= Total(h)
           /\ raced' \/ \A h \in Goods : Total(h)' = Total(h)
<1> DEFINE g == r.item
<1>1. TypeOK /\ g \in Goods
  BY DEF Kept, TypeOK, Unsold, Listing
<1>2. bag[c][g] \in Nat /\ bag[c][g] + 1 \in Nat /\ unserved \in [Goods -> Nat]
  BY <1>1 DEF TypeOK
<1>3. Leaving' = Leaving
  BY DEF Leaving
<1>4. Offered(g)' = Offered(g) \ {r} /\ \A h \in Goods \ {g} : Offered(h)' = Offered(h)
  BY <1>3 DEF Offered
<1>12. \/ bag' = [bag EXCEPT ![c][g] = bag[c][g] + 1] /\ unserved' = unserved
       \/ bag' = bag /\ unserved' = [unserved EXCEPT ![g] = unserved[g] + 1]
  BY DEF Add
<1> HIDE DEF g
<1>5. /\ \/ Everyones(bag, g)' = Everyones(bag, g) + 1 /\ unserved'[g] = unserved[g]
         \/ Everyones(bag, g)' = Everyones(bag, g) /\ unserved'[g] = unserved[g] + 1
      /\ \A h \in Goods \ {g} : Everyones(bag, h)' = Everyones(bag, h) /\ unserved'[h] = unserved[h]
      /\ \A h \in Goods : Everyones(goodsMail, h)' = Everyones(goodsMail, h)
  <2>1. CASE bag' = [bag EXCEPT ![c][g] = bag[c][g] + 1] /\ unserved' = unserved
    <3>1. /\ Everyones(bag, g)' = Everyones(bag, g) + (bag[c][g] + 1) - bag[c][g]
          /\ \A h \in Goods \ {g} : Everyones(bag, h)' = Everyones(bag, h)
          /\ \A h \in Goods : Everyones(goodsMail, h)' = Everyones(goodsMail, h)
      BY <1>1, <1>2, <2>1, BagCounts
    <3>2. Everyones(bag, g) \in Nat
      BY <1>1, TotalType
    <3>3. Everyones(bag, g) + (bag[c][g] + 1) - bag[c][g] = Everyones(bag, g) + 1
      BY <1>2, <3>2
    <3>4. QED BY <1>1, <2>1, <3>1, <3>3, Zenon
  <2>2. CASE bag' = bag /\ unserved' = [unserved EXCEPT ![g] = unserved[g] + 1]
    <3>1. \A h \in Goods : /\ Everyones(bag, h)' = Everyones(bag, h)
                           /\ Everyones(goodsMail, h)' = Everyones(goodsMail, h)
      BY <2>2 DEF Everyones
    <3>2. unserved'[g] = unserved[g] + 1 /\ \A h \in Goods \ {g} : unserved'[h] = unserved[h]
      BY <1>1, <1>2, <2>2
    <3>3. QED BY <1>1, <3>1, <3>2
  <2>3. QED BY <1>12, <2>1, <2>2
<1>6. Cardinality(Offered(g)') = IF r \in Offered(g) THEN Cardinality(Offered(g)) - 1 ELSE Cardinality(Offered(g))
  <2>1. IsFiniteSet(Offered(g))
    BY <1>1, TotalType
  <2>2. Cardinality(Offered(g) \ {r}) = IF r \in Offered(g) THEN Cardinality(Offered(g)) - 1 ELSE Cardinality(Offered(g))
    BY <2>1, FS_RemoveElement
  <2>3. QED BY <1>4, <2>2
<1>7. Total(g)' = IF r \in Offered(g) THEN Total(g) ELSE Total(g) + 1
  BY <1>1, <1>5, <1>6, TotalType DEF Total
<1>8. \A h \in Goods \ {g} : Total(h)' = Total(h)
  BY <1>4, <1>5 DEF Total
<1>9. \A h \in Goods : Total(h) \in Nat
  BY <1>1, TotalType
<1>10. raced' \/ r \in Offered(g)
  <2>1. SUFFICES ASSUME ~raced' PROVE r \in Offered(g)
    OBVIOUS
  <2>2. \A t \in Threads : mailed[t] = NoParcel
    BY <2>1 DEF NoteRace, Waiting
  <2>3. QED BY <2>2 DEF Offered, Leaving, g
<1>11. QED BY <1>1, <1>7, <1>8, <1>9, <1>10

(* A listing comes of age.                                                 *)
LEMMA AgedCounts ==
    ASSUME Kept, NEW r \in ah, GrowOld(r)
    PROVE  \A g \in Goods : Total(g)' = Total(g)
<1> DEFINE s == [r EXCEPT !.old = TRUE]
<1>1. TypeOK /\ r \in Listing
  BY DEF Kept, TypeOK
<1>2. s.id = r.id /\ s.item = r.item /\ s.buyer = r.buyer
  BY <1>1 DEF Listing
<1>3. ah' = (ah \ {r}) \cup {s} /\ UNCHANGED <<bag, goodsMail, mailed, unserved>>
  BY DEF GrowOld, searchVars, noted, failures
<1> HIDE DEF s
<1>4. s \notin ah \ {r}
  BY <1>1, <1>2 DEF TypeOK
<1>5. Leaving' = Leaving
  BY <1>3 DEF Leaving
<1>6. ASSUME NEW g \in Goods PROVE Cardinality(Offered(g)') = Cardinality(Offered(g))
  <2>1. CASE r \in Offered(g)
    <3>1. Offered(g)' = (Offered(g) \ {r}) \cup {s} /\ s \notin Offered(g) \ {r}
      BY <1>2, <1>3, <1>4, <1>5, <2>1 DEF Offered, Unsold
    <3>2. IsFiniteSet(Offered(g)) /\ Cardinality(Offered(g)) \in Nat
      BY <1>1, TotalType
    <3>3. IsFiniteSet(Offered(g) \ {r}) /\ Cardinality(Offered(g) \ {r}) = Cardinality(Offered(g)) - 1
      BY <2>1, <3>2, FS_RemoveElement
    <3>4. Cardinality((Offered(g) \ {r}) \cup {s}) = Cardinality(Offered(g) \ {r}) + 1
      BY <3>1, <3>3, FS_AddElement
    <3>5. QED BY <3>1, <3>2, <3>3, <3>4
  <2>2. CASE r \notin Offered(g)
    <3>1. Offered(g)' = Offered(g)
      BY <1>2, <1>3, <1>5, <2>2 DEF Offered, Unsold
    <3>2. QED BY <3>1
  <2>3. QED BY <2>1, <2>2
<1>7. QED BY <1>3, <1>6 DEF Total, Everyones

(* A parcel is mailed: from the table to the mail, unless the listing was  *)
(* sold or went in the meantime.                                           *)
LEMMA MailedCounts ==
    ASSUME Kept, NEW t \in Threads, MailBack(t)
    PROVE  /\ \A h \in Goods : Total(h)' >= Total(h)
           /\ raced' \/ \A h \in Goods : Total(h)' = Total(h)
<1>1. UNCHANGED <<ah, bag, unserved, raced>> /\ mailed[t] = NoParcel
  BY DEF MailBack, noted, failures
<1>2. PICK p \in expiring[t] :
          /\ goodsMail' = [goodsMail EXCEPT ![p.seller][p.item] = @ + 1]
          /\ mailed' = [mailed EXCEPT ![t] = p]
          /\ expiring' = [expiring EXCEPT ![t] = @ \ {p}]
  BY DEF MailBack
<1>3. TypeOK /\ p \in Parcel /\ p.seller \in Chars /\ p.item \in Goods
  BY DEF Kept, TypeOK, Parcel
<1>4. p # NoParcel
  BY <1>3, AuctionAssumption DEF Parcel
<1> DEFINE g == p.item
           n == goodsMail[p.seller][g]
<1>5. Leaving' = Leaving \cup {p.id}
  <2>1. mailed \in [Threads -> Parcel \cup {NoParcel}]
    BY <1>3 DEF TypeOK
  <2>2. mailed'[t] = p /\ \A u \in Threads \ {t} : mailed'[u] = mailed[u]
    BY <1>2, <2>1
  <2>3. QED BY <1>1, <1>4, <2>2 DEF Leaving
<1>6. \A r \in ah : r.id = p.id => r.item = g
  BY DEF Kept, Labelled, Held
<1>7. \A h \in Goods : Offered(h)' = {r \in Offered(h) : r.id # p.id}
  BY <1>1, <1>5 DEF Offered, Unsold
<1>8. \A h \in Goods \ {g} : Offered(h)' = Offered(h)
  BY <1>6, <1>7 DEF Offered, Unsold
<1>9. goodsMail' = [goodsMail EXCEPT ![p.seller][g] = n + 1] /\ n \in Nat /\ n + 1 \in Nat
  BY <1>2, <1>3 DEF TypeOK
<1> HIDE DEF g, n
<1>10. /\ Everyones(goodsMail, g)' = Everyones(goodsMail, g) + 1
       /\ \A h \in Goods \ {g} : Everyones(goodsMail, h)' = Everyones(goodsMail, h)
       /\ \A h \in Goods : Everyones(bag, h)' = Everyones(bag, h)
  <2>1. goodsMail \in [Chars -> [Goods -> Nat]] /\ g \in Goods
    BY <1>3 DEF TypeOK, g
  <2>2. \A h \in Goods : Everyones(goodsMail, h)' = Everyones(goodsMail', h)
    BY DEF Everyones
  <2>3. /\ Everyones(goodsMail', g) = Everyones(goodsMail, g) + goodsMail'[p.seller][g] - goodsMail[p.seller][g]
        /\ \A h \in Goods \ {g} : Everyones(goodsMail', h) = Everyones(goodsMail, h)
    <3>1. /\ goodsMail' \in [Chars -> [Goods -> Nat]]
          /\ \A x \in Chars, h \in Goods : x # p.seller \/ h # g => goodsMail'[x][h] = goodsMail[x][h]
      BY <1>3, <1>9, <2>1
    <3>2. QED BY <1>3, <2>1, <3>1, EveryonesChange, ZenonT(60)
  <2>4. \A h \in Goods : Everyones(bag, h)' = Everyones(bag, h)
    BY <1>1 DEF Everyones
  <2>5. Everyones(goodsMail, g) \in Nat
    BY <2>1, EveryonesType
  <2>6. goodsMail'[p.seller][g] = n + 1 /\ goodsMail[p.seller][g] = n
    BY <1>3, <1>9, <2>1 DEF n
  <2>7. n \in Nat
    BY <1>9
  <2>8. Everyones(goodsMail', g) = Everyones(goodsMail, g) + 1
    BY <2>3, <2>5, <2>6, <2>7
  <2>9. QED BY <2>1, <2>2, <2>3, <2>4, <2>8
<1>11. g \in Goods /\ Total(g) \in Nat /\ Everyones(bag, g) \in Nat /\ Everyones(goodsMail, g) \in Nat
       /\ IsFiniteSet(Offered(g)) /\ Cardinality(Offered(g)) \in Nat /\ unserved[g] \in Nat
  BY <1>3, TotalType DEF g
<1>12. \A h \in Goods \ {g} : Total(h)' = Total(h) /\ Total(h) \in Nat
  BY <1>1, <1>3, <1>8, <1>10, TotalType DEF Total
<1>13. ASSUME NEW x \in Offered(g), x.id = p.id PROVE Total(g)' = Total(g)
  <2>1. Offered(g)' = Offered(g) \ {x}
    BY <1>3, <1>7, <1>11, <1>13 DEF Offered, Unsold, TypeOK
  <2>2. Cardinality(Offered(g)') = Cardinality(Offered(g)) - 1
    BY <1>11, <2>1, FS_RemoveElement
  <2>3. QED BY <1>1, <1>10, <1>11, <2>2 DEF Total
<1>14. ASSUME \A x \in Offered(g) : x.id # p.id PROVE Total(g)' = Total(g) + 1
  <2>1. Offered(g)' = Offered(g)
    BY <1>7, <1>11, <1>14
  <2>2. QED BY <1>1, <1>10, <1>11, <2>1 DEF Total
<1>15. raced \/ \E x \in Offered(g) : x.id = p.id
  <2>1. SUFFICES ASSUME ~raced PROVE \E x \in Offered(g) : x.id = p.id
    OBVIOUS
  <2>2. OneAtWork /\ Present
    BY <2>1 DEF Kept, Alone
  <2>3. \A u \in Threads : mailed[u] = NoParcel
    BY <1>1, <1>2, <2>2 DEF OneAtWork, Waiting
  <2>4. PICK x \in Unsold : x.id = p.id
    BY <2>2 DEF Present, Held
  <2>5. QED BY <1>6, <2>3, <2>4 DEF Offered, Leaving, Unsold
<1>16. Total(g)' >= Total(g)
  BY <1>11, <1>13, <1>14
<1>17. raced \/ Total(g)' = Total(g)
  BY <1>13, <1>15
<1>18. QED BY <1>1, <1>11, <1>12, <1>16, <1>17

(* A listing on its way back is deleted: it was not counted any more.      *)
LEMMA DelistedCounts ==
    ASSUME Kept, NEW t \in Threads, Delist(t)
    PROVE  \A g \in Goods : Total(g)' = Total(g)
<1>1. /\ UNCHANGED <<bag, goodsMail, unserved>> /\ ah' = {r \in ah : r.id # mailed[t].id}
      /\ mailed[t] # NoParcel /\ mailed' = [mailed EXCEPT ![t] = NoParcel]
  BY DEF Delist, noted, failures
<1>2. mailed \in [Threads -> Parcel \cup {NoParcel}]
  BY DEF Kept, TypeOK
<1>3. mailed'[t] = NoParcel /\ \A u \in Threads \ {t} : mailed'[u] = mailed[u]
  BY <1>1, <1>2
<1>4. Leaving = Leaving' \cup {mailed[t].id}
  BY <1>1, <1>3 DEF Leaving
<1>5. \A g \in Goods : Offered(g)' = Offered(g)
  BY <1>1, <1>4 DEF Offered, Unsold
<1>6. QED BY <1>1, <1>5, TotalStays

(* The search server dies: at most one listing, of which the goods were    *)
(* mailed, stays.                                                          *)
LEMMA CrashCounts ==
    ASSUME Kept, CrashSearch
    PROVE  /\ \A g \in Goods : Total(g)' >= Total(g)
           /\ \/ raced
              \/ \A g \in Goods : Total(g)' = Total(g)
              \/ \E h \in Goods : Total(h)' = Total(h) + 1 /\ \A g \in Goods \ {h} : Total(g)' = Total(g)
<1>1. UNCHANGED <<ah, bag, goodsMail, unserved>> /\ mailed' = [t \in Threads |-> NoParcel]
  BY DEF CrashSearch, failures
<1>2. TypeOK
  BY DEF Kept
<1>3. Leaving' = {}
  BY <1>1 DEF Leaving
<1>4. \A g \in Goods : Offered(g)' = {r \in Unsold : r.item = g}
  BY <1>1, <1>3 DEF Offered, Unsold
<1>5. \A g \in Goods : /\ Everyones(bag, g)' = Everyones(bag, g)
                       /\ Everyones(goodsMail, g)' = Everyones(goodsMail, g)
                       /\ unserved'[g] = unserved[g]
  BY <1>1 DEF Everyones
<1>6. ASSUME NEW g \in Goods PROVE Total(g)' >= Total(g)
  <2>1. Offered(g)' \in SUBSET ah /\ Offered(g) \in SUBSET Offered(g)'
    BY <1>4 DEF Offered, Unsold
  <2>2. IsFiniteSet(Offered(g)')
    BY <1>2, <2>1, FiniteTable, FS_Subset
  <2>3. Cardinality(Offered(g)) <= Cardinality(Offered(g)') /\ Cardinality(Offered(g)') \in Nat
    BY <2>1, <2>2, FS_Subset, FS_CardinalityType
  <2>4. /\ Everyones(bag, g) \in Nat /\ Everyones(goodsMail, g) \in Nat
        /\ Cardinality(Offered(g)) \in Nat /\ unserved[g] \in Nat
    BY <1>2, TotalType
  <2>5. QED BY <1>5, <2>3, <2>4 DEF Total
<1>7. CASE Leaving = {}
  <2>1. \A g \in Goods : Offered(g)' = Offered(g)
    BY <1>4, <1>7 DEF Offered
  <2>2. QED BY <1>1, <1>6, <2>1, TotalStays
<1>8. CASE Leaving # {} /\ ~raced
  <2>1. PICK t \in Threads : mailed[t] # NoParcel
    BY <1>8 DEF Leaving
  <2>2. OneAtWork /\ Present
    BY <1>8 DEF Kept, Alone
  <2>3. Leaving = {mailed[t].id}
    BY <2>1, <2>2 DEF Leaving, OneAtWork, Waiting
  <2>4. PICK x \in Unsold : x.id = mailed[t].id
    BY <2>1, <2>2 DEF Present, Held
  <2>5. x.item \in Goods
    BY <1>2 DEF TypeOK, Unsold, Listing
  <2>6. \A r \in Unsold : r.id \in Leaving <=> r = x
    BY <1>2, <2>3, <2>4 DEF TypeOK, Unsold
  <2>7. \A g \in Goods \ {x.item} : Offered(g)' = Offered(g)
    BY <1>4, <2>6 DEF Offered
  <2>8. Offered(x.item)' = Offered(x.item) \cup {x} /\ x \notin Offered(x.item)
    BY <1>4, <2>5, <2>6 DEF Offered
  <2>9. Cardinality(Offered(x.item)') = Cardinality(Offered(x.item)) + 1
    BY <1>2, <2>5, <2>8, TotalType, FS_AddElement
  <2>10. Total(x.item)' = Total(x.item) + 1
    BY <1>2, <1>5, <2>5, <2>9, TotalType DEF Total
  <2>11. \A g \in Goods \ {x.item} : Total(g)' = Total(g)
    BY <1>5, <2>7 DEF Total
  <2>12. QED BY <1>6, <2>5, <2>10, <2>11
<1>9. QED BY <1>6, <1>7, <1>8

(* No step loses a good, and none doubles one but by a race or a crash.    *)
LEMMA GoodsStep ==
    ASSUME Kept, [Next]_vars
    PROVE  /\ \A g \in Goods : Total(g)' >= Total(g)
           /\ \/ raced'
              \/ (\A g \in Goods : Total(g)' = Total(g)) /\ crashes' \in {crashes, crashes + 1}
              \/ /\ crashes' = crashes + 1
                 /\ \E h \in Goods : Total(h)' = Total(h) + 1 /\ \A g \in Goods \ {h} : Total(g)' = Total(g)
           /\ raced => raced'
<1> DEFINE Same == \A g \in Goods : Total(g)' = Total(g)
<1>1. Same => \A g \in Goods : Total(g)' >= Total(g)
  BY TotalType DEF Kept
<1>2. ASSUME NEW c \in Chars, NEW g \in Goods, NEW p \in Prices, ProofOfPurchase(c, g, p)
      PROVE  Same /\ UNCHANGED <<crashes, raced>>
  BY <1>2, ListedCounts DEF ProofOfPurchase, noted
<1>3. ASSUME NEW c \in Chars, NEW g \in Goods, NEW p \in Prices, PurchasingItems(c, g, p)
      PROVE  (\A h \in Goods : Total(h)' >= Total(h)) /\ (raced' \/ Same) /\ UNCHANGED crashes /\ (raced => raced')
  <2>1. PICK r \in Cheapest(Offers(g, p)) : ah' = (ah \ {r}) \cup {Sold(r, c, p)}
    BY <1>3 DEF PurchasingItems
  <2>2. r \in Unsold /\ r.item = g /\ r \in Listing
    BY DEF Cheapest, Offers, Unsold, Kept, TypeOK
  <2>3. Sold(r, c, p).buyer # Nobody
    BY <2>2, AuctionAssumption DEF Sold, Listing
  <2>4. Unsold' = Unsold \ {r}
    BY <2>1, <2>3 DEF Unsold
  <2>5. /\ \/ Add(c, r.item) /\ UNCHANGED unserved
           \/ UNCHANGED bag /\ unserved' = [unserved EXCEPT ![r.item] = @ + 1]
        /\ NoteRace /\ UNCHANGED <<goodsMail, expiring, mailed, crashes>>
        /\ raced => raced'
    BY <1>3, <2>2 DEF PurchasingItems, searchVars, failures, NoteRace
  <2>6. QED BY <2>2, <2>4, <2>5, TakenCounts
<1>4. ASSUME NEW c \in Chars, OpenListOfSales(c) PROVE Same /\ UNCHANGED <<crashes, raced>>
  <2>1. UNCHANGED <<ah, bag, goodsMail, mailed, crashes, unserved, raced>>
    BY <1>4 DEF OpenListOfSales, searchVars, noted, failures
  <2>2. QED BY <2>1, TotalStays DEF Offered, Unsold, Leaving
<1>5. ASSUME NEW c \in Chars, NEW e \in history[c], CancelSale(c, e)
      PROVE  (\A h \in Goods : Total(h)' >= Total(h)) /\ (raced' \/ Same) /\ UNCHANGED crashes /\ (raced => raced')
  <2>1. PICK r \in Matching(c, e) : ah' = ah \ {r}
    BY <1>5 DEF CancelSale
  <2>2. r \in Unsold /\ r.item = e.item
    BY DEF Matching, ForSale, Unsold, Kept, Booked
  <2>3. Unsold' = Unsold \ {r}
    BY <2>1 DEF Unsold
  <2>4. /\ Add(c, r.item) /\ NoteRace
        /\ UNCHANGED <<goodsMail, expiring, mailed, crashes, unserved>>
        /\ raced => raced'
    BY <1>5, <2>2 DEF CancelSale, searchVars, failures, NoteRace
  <2>5. QED BY <2>2, <2>3, <2>4, TakenCounts
<1>6. ASSUME NEW r \in ah, GrowOld(r) PROVE Same /\ UNCHANGED <<crashes, raced>>
  BY <1>6, AgedCounts DEF GrowOld, noted
<1>7. ASSUME NEW t \in Threads, ExpireAHItems(t) PROVE Same /\ UNCHANGED crashes /\ (raced => raced')
  <2>1. UNCHANGED <<ah, bag, goodsMail, mailed, crashes, unserved>> /\ (raced => raced')
    BY <1>7 DEF ExpireAHItems, failures, NoteRace
  <2>2. QED BY <2>1, TotalStays DEF Offered, Unsold, Leaving
<1>8. ASSUME NEW t \in Threads, MailBack(t)
      PROVE  (\A h \in Goods : Total(h)' >= Total(h)) /\ (raced' \/ Same) /\ UNCHANGED <<crashes, raced>>
  BY <1>8, MailedCounts DEF MailBack, noted
<1>9. ASSUME NEW t \in Threads, Delist(t) PROVE Same /\ UNCHANGED <<crashes, raced>>
  BY <1>9, DelistedCounts DEF Delist, noted
<1>10. ASSUME UNCHANGED vars PROVE Same /\ UNCHANGED <<crashes, raced>>
  <2>1. UNCHANGED <<ah, bag, goodsMail, mailed, crashes, unserved, raced>>
    BY <1>10 DEF vars, searchVars, noted, failures
  <2>2. QED BY <2>1, TotalStays DEF Offered, Unsold, Leaving
<1> HIDE DEF Same
<1>11. ASSUME CrashSearch
       PROVE  /\ \A g \in Goods : Total(g)' >= Total(g)
              /\ \/ raced'
                 \/ Same /\ crashes' \in {crashes, crashes + 1}
                 \/ /\ crashes' = crashes + 1
                    /\ \E h \in Goods : Total(h)' = Total(h) + 1 /\ \A g \in Goods \ {h} : Total(g)' = Total(g)
              /\ raced => raced'
  BY <1>11, CrashCounts DEF CrashSearch, Same
<1>12. QED BY <1>1, <1>2, <1>3, <1>4, <1>5, <1>6, <1>7, <1>8, <1>9, <1>10, <1>11 DEF Next, Same

(* The sum over the goods follows.                                         *)
LEMMA ConservedStep == Kept /\ Kept' /\ GoodsConserved /\ [Next]_vars => GoodsConserved'
<1> SUFFICES ASSUME Kept, Kept', GoodsConserved, [Next]_vars PROVE GoodsConserved'
  OBVIOUS
<1> DEFINE T == [g \in Goods |-> Total(g)]
           U == [g \in Goods |-> Total(g)']
           O == [g \in Goods |-> Everyones(Owned, g)]
<1>1. \A g \in Goods : Total(g) \in Nat /\ Everyones(Owned, g) \in Nat
  BY TotalType, EveryonesType, AuctionAssumption DEF Kept
<1>2. ASSUME NEW g \in Goods PROVE Total(g)' \in Nat
  <2>1. /\ ah' \in SUBSET Listing /\ \A r, x \in ah' : r.id = x.id => r = x
        /\ bag' \in [Chars -> [Goods -> Nat]] /\ goodsMail' \in [Chars -> [Goods -> Nat]]
        /\ unserved'[g] \in Nat
    BY DEF Kept, TypeOK
  <2>2. Offered(g)' \in SUBSET ah'
    BY DEF Offered, Unsold
  <2>3. Cardinality(Offered(g)') \in Nat
    BY <2>1, <2>2, FiniteRows, FS_Subset, FS_CardinalityType
  <2>4. Everyones(bag', g) \in Nat /\ Everyones(goodsMail', g) \in Nat
    BY <2>1, EveryonesType
  <2>5. QED BY <2>1, <2>3, <2>4 DEF Total, Everyones
<1>3. \A g \in Goods : Total(g)' >= Everyones(Owned, g)
  BY <1>1, <1>2, GoodsStep DEF GoodsConserved
<1>4. \A g \in Goods : T[g] = Total(g) /\ U[g] = Total(g)' /\ T[g] \in Nat /\ U[g] \in Nat /\ O[g] \in Nat
  BY <1>1, <1>2
<1>5. GoodsConserved <=> /\ \A g \in Goods : Total(g) >= Everyones(Owned, g)
                         /\ raced \/ Tally(T, Goods) <= Tally(O, Goods) + crashes
  BY DEF GoodsConserved
<1>6. GoodsConserved' <=> /\ \A g \in Goods : Total(g)' >= Everyones(Owned, g)
                          /\ raced' \/ Tally(U, Goods) <= Tally(O, Goods) + crashes'
  BY DEF GoodsConserved, Everyones
<1> HIDE DEF T, U, O
<1>7. IsFiniteSet(Goods) /\ crashes \in Nat
  BY AuctionAssumption DEF Kept, TypeOK
<1>8. Tally(T, Goods) \in Nat /\ Tally(U, Goods) \in Nat /\ Tally(O, Goods) \in Nat
  BY <1>4, <1>7, UnitsFinite
<1>9. ASSUME ~raced' PROVE Tally(U, Goods) <= Tally(O, Goods) + crashes'
  <2>1. ~raced
    BY <1>9, GoodsStep
  <2>2. Tally(T, Goods) <= Tally(O, Goods) + crashes
    BY <1>5, <2>1
  <2>3. CASE (\A g \in Goods : Total(g)' = Total(g)) /\ crashes' \in {crashes, crashes + 1}
    <3>1. \A g \in Goods : T[g] = U[g]
      BY <1>4, <2>3
    <3>2. Tally(T, Goods) = Tally(U, Goods)
      BY <3>1, TallyEqual
    <3>3. QED BY <1>7, <1>8, <2>2, <2>3, <3>2
  <2>4. CASE /\ crashes' = crashes + 1
             /\ \E h \in Goods : Total(h)' = Total(h) + 1 /\ \A g \in Goods \ {h} : Total(g)' = Total(g)
    <3>1. PICK h \in Goods : Total(h)' = Total(h) + 1 /\ \A g \in Goods \ {h} : Total(g)' = Total(g)
      BY <2>4
    <3>2. U[h] = T[h] + 1 /\ \A g \in Goods \ {h} : U[g] = T[g]
      BY <1>4, <3>1
    <3>3. Tally(U, Goods) = Tally(T, Goods) + U[h] - T[h]
      BY <1>4, <1>7, <3>2, TallyChange
    <3>4. QED BY <1>4, <1>7, <1>8, <2>2, <2>4, <3>2, <3>3
  <2>5. QED BY <1>9, <2>3, <2>4, GoodsStep
<1>10. QED BY <1>3, <1>6, <1>9

LEMMA ConservedInitially == Init => GoodsConserved
<1> SUFFICES ASSUME Init PROVE GoodsConserved
  OBVIOUS
<1>1. TypeOK
  BY KeptInitially DEF Kept
<1>2. ASSUME NEW g \in Goods PROVE Total(g) = Everyones(Owned, g) /\ Everyones(Owned, g) \in Nat
  <2>1. bag = Owned /\ Everyones(bag, g) \in Nat
    BY <1>1, TotalType DEF Init
  <2>2. Offered(g) = {}
    BY DEF Init, Offered, Unsold
  <2>3. Everyones(goodsMail, g) = 0
    <3> DEFINE F == [c \in Chars |-> goodsMail[c][g]]
    <3>1. \A c \in Chars : F[c] = 0
      BY DEF Init
    <3> HIDE DEF F
    <3>2. {} \in SUBSET Chars /\ (\A c \in Chars \ {} : F[c] = 0) /\ \A c \in Chars : F[c] \in Nat
      BY <3>1
    <3>3. Tally(F, {}) = Tally(F, Chars)
      BY <3>2, TallySubset, AuctionAssumption
    <3>4. QED BY <3>3, TallyEmpty DEF Everyones, F
  <2>4. unserved[g] = 0
    BY DEF Init
  <2>5. QED BY <2>1, <2>2, <2>3, <2>4, FS_EmptySet DEF Total
<1> DEFINE T == [g \in Goods |-> Total(g)]
           O == [g \in Goods |-> Everyones(Owned, g)]
<1>3. Tally(T, Goods) = Tally(O, Goods) /\ Tally(O, Goods) \in Nat
  <2>1. \A g \in Goods : T[g] = O[g] /\ O[g] \in Nat
    BY <1>2
  <2> HIDE DEF T, O
  <2>2. QED BY <2>1, TallyEqual, UnitsFinite, AuctionAssumption
<1>4. crashes = 0
  BY DEF Init
<1>5. QED BY <1>2, <1>3, <1>4 DEF GoodsConserved

(* GoodsConserved: listing, buying, cancelling and expiring never lose a   *)
(* good, and double one only by a race with the expiry or by a crash       *)
(* between a parcel and the deletion of its listing.                       *)
THEOREM GoodsAreConserved == Spec => []GoodsConserved
BY ConservedInitially, ConservedStep, AlwaysKept, PTL DEF Spec
=============================================================================
