------------------------- MODULE MarketplaceProofs -------------------------
(***************************************************************************)
(* Theorems about Marketplace, for any number of accounts and requests,    *)
(* any prices and any number of failures.                                  *)
(***************************************************************************)
EXTENDS Marketplace, FiniteSums

(* The contract: its types, the fee that belongs to each purchase, and the *)
(* listing that each purchase names.                                       *)
ChainTypeOK ==
  /\ token \in [Accounts \cup {Market} -> Nat]
  /\ allowance \in [Accounts -> Nat]
  /\ feePercent \in 0 .. 20
  /\ listings \in Seq(Listing) /\ purchases \in Seq(Purchase)
  /\ reputation \in [Accounts -> Nat]
  /\ fees \in Seq(Nat) /\ withdrawn \in [Accounts -> Nat]

Logged ==
  /\ Len(listings) <= MaxListings /\ Len(fees) = Len(purchases)
  /\ \A k \in DOMAIN purchases : purchases[k].listingId \in DOMAIN listings

ChainInv == ChainTypeOK /\ Logged /\ LedgerExact

(* The requests: from the moment that its transaction is mined, a request  *)
(* knows the listing that it made, and no other request knows that one.    *)
RequestTypeOK ==
  /\ request \in [Requests -> [at : Stages, price : Prices \cup {0},
                               listingId : 0 .. MaxListings]]
  /\ rows \subseteq Requests
  /\ faults \in 0 .. MaxFaults

Stored ==
  \A q \in Requests :
    /\ request[q].at # "idle" => request[q].price \in Prices
    /\ request[q].at \in {"idle", "sent", "orphan"} => request[q].listingId = 0
    /\ request[q].at = "mined" => request[q].listingId # 0
    /\ q \in rows => request[q].at = "done" /\ request[q].listingId # 0

Mirrors(q) ==
  LET i == request[q].listingId IN
  i # 0 => /\ i \in DOMAIN listings
           /\ listings[i].seller = Platform
           /\ listings[i].price = request[q].price

Mirrored ==
  /\ \A q \in Requests : Mirrors(q)
  /\ \A q, r \in Requests :
       request[q].listingId = request[r].listingId /\ request[q].listingId # 0 => q = r

RequestInv == RequestTypeOK /\ Stored /\ Mirrored

IndInv == ChainInv /\ RequestInv
-----------------------------------------------------------------------------
LEMMA ConstantsTyped ==
  /\ IsFiniteSet(Accounts) /\ Platform \in Accounts /\ Market \notin Accounts
  /\ \A p \in Prices : p \in Nat /\ p # 0
  /\ \A f \in Fees : f \in Nat
  /\ Funds \in Nat /\ MaxListings \in Nat /\ MaxPurchases \in Nat /\ MaxFaults \in Nat
BY MarketConstantsOK

(* The log of purchases can be counted and added up. *)
LEMMA LogIsFinite ==
  ASSUME ChainTypeOK, Logged
  PROVE  /\ IsFiniteSet(DOMAIN purchases) /\ DOMAIN fees = DOMAIN purchases
         /\ \A a \in Accounts : Bought(a) \subseteq DOMAIN purchases /\ IsFiniteSet(Bought(a))
         /\ \A a \in Accounts : Sold(a) \subseteq DOMAIN purchases /\ IsFiniteSet(Sold(a))
         /\ \A k \in DOMAIN purchases : /\ purchases[k] \in Purchase
                                        /\ Paid[k] \in Int /\ fees[k] \in Int
                                        /\ Earned[k] \in Int
<1>1. DOMAIN purchases = 1 .. Len(purchases) /\ DOMAIN fees = 1 .. Len(fees)
  BY DEF ChainTypeOK
<1>2. IsFiniteSet(DOMAIN purchases) /\ DOMAIN fees = DOMAIN purchases
  BY <1>1, FS_Interval DEF Logged, ChainTypeOK
<1>3. ASSUME NEW a \in Accounts
      PROVE  /\ Bought(a) \subseteq DOMAIN purchases /\ IsFiniteSet(Bought(a))
             /\ Sold(a) \subseteq DOMAIN purchases /\ IsFiniteSet(Sold(a))
  <2>1. Bought(a) \subseteq DOMAIN purchases /\ Sold(a) \subseteq DOMAIN purchases
    BY DEF Bought, Sold
  <2> QED
    BY <1>2, <2>1, FS_Subset
<1>4. ASSUME NEW k \in DOMAIN purchases
      PROVE  purchases[k] \in Purchase /\ fees[k] \in Int /\ purchases[k].paidAmount \in Int
  <2>1. purchases[k] \in Purchase /\ fees[k] \in Nat
    BY <1>1, <1>2 DEF ChainTypeOK
  <2>2. purchases[k].paidAmount \in Prices
    BY <2>1 DEF Purchase
  <2>3. purchases[k].paidAmount \in Nat
    BY <2>2, ConstantsTyped
  <2> QED
    BY <2>1, <2>3
<1>5. \A k \in DOMAIN purchases : Paid[k] \in Int /\ Earned[k] \in Int
  BY <1>4 DEF Paid, Earned
<1> QED
  BY <1>2, <1>3, <1>4, <1>5

(* A price, and the two parts that it is paid in. *)
LEMMA FeeInPrice ==
  ASSUME ChainTypeOK, NEW p \in Nat
  PROVE  /\ Fee(p) \in Nat /\ SellerShare(p) \in Nat
         /\ SellerShare(p) = p - Fee(p)
<1>1. feePercent \in Nat /\ feePercent <= 20
  BY DEF ChainTypeOK
<1>2. feePercent * p \in Nat /\ feePercent * p <= 20 * p
  <2>1. \A a, b \in Nat : a * b \in Nat
    OBVIOUS
  <2>2. (20 - feePercent) * p \in Nat
    BY <1>1, <2>1
  <2>3. (20 - feePercent) * p = 20 * p - feePercent * p
    BY <1>1
  <2>4. feePercent * p \in Nat
    BY <1>1, <2>1
  <2> QED
    BY <2>2, <2>3, <2>4
<1>3. \A n \in Nat : n <= 20 * p => n \div 100 \in Nat /\ n \div 100 <= p
  OBVIOUS
<1>4. Fee(p) \in Nat /\ Fee(p) <= p
  BY <1>2, <1>3 DEF Fee
<1> QED
  BY <1>4 DEF SellerShare

(* No transaction takes a listing away, or changes who sells what in it.   *)
Lasting ==
  \A i \in DOMAIN listings :
    /\ i \in DOMAIN listings'
    /\ listings'[i].seller = listings[i].seller
    /\ listings'[i].price = listings[i].price

LEMMA SoldKept ==
  ASSUME ChainInv, Lasting, UNCHANGED purchases, NEW a
  PROVE  Sold(a)' = Sold(a)
<1>1. \A k \in DOMAIN purchases :
        listings'[purchases[k].listingId].seller = listings[purchases[k].listingId].seller
  BY DEF ChainInv, Logged, Lasting
<1> QED
  BY <1>1 DEF Sold

(* A step that only changes which listings are on offer. *)
LEMMA LedgerKept ==
  ASSUME ChainInv, Lasting,
         UNCHANGED <<token, purchases, reputation, fees, withdrawn>>,
         \A i \in DOMAIN listings' :
           listings'[i].sales = IF i \in DOMAIN listings THEN listings[i].sales ELSE 0
  PROVE  LedgerExact'
<1> USE DEF ChainInv
<1>1. \A a \in Accounts : Sold(a)' = Sold(a) /\ Bought(a)' = Bought(a)
  BY SoldKept DEF Bought
<1>2. ASSUME NEW i \in DOMAIN listings'
      PROVE  listings'[i].sales =
               Cardinality({k \in DOMAIN purchases : purchases[k].listingId = i})
  <2>1. CASE i \in DOMAIN listings
    BY <2>1 DEF LedgerExact, SalesAgree
  <2>2. CASE i \notin DOMAIN listings
    <3>1. {k \in DOMAIN purchases : purchases[k].listingId = i} = {}
      BY <2>2 DEF Logged
    <3> QED
      BY <2>2, <3>1, FS_EmptySet
  <2> QED
    BY <2>1, <2>2
<1>3. SalesAgree'
  BY <1>1, <1>2 DEF LedgerExact, SalesAgree
<1>4. Paid' = Paid /\ Earned' = Earned
  BY DEF Paid, Earned
<1> QED
  BY <1>1, <1>3, <1>4 DEF LedgerExact

LEMMA ChainKept ==
  ASSUME ChainInv, UNCHANGED chainVars
  PROVE  ChainInv' /\ Lasting
<1> USE DEF ChainInv, chainVars
<1>1. ChainTypeOK' /\ Logged' /\ Lasting
  BY DEF ChainTypeOK, Logged, Lasting
<1> QED
  BY <1>1, LedgerKept

LEMMA CreateKeeps ==
  ASSUME ChainInv, NEW a \in Accounts, NEW p \in Prices, createListing(a, p)
  PROVE  /\ ChainInv' /\ Lasting
         /\ Len(listings') = Len(listings) + 1 /\ Len(listings') <= MaxListings
         /\ listings'[Len(listings')] = NewListing(a, p)
<1> USE DEF ChainInv
<1>1. NewListing(a, p) \in Listing /\ listings \in Seq(Listing)
  BY DEF NewListing, Listing, ChainTypeOK
<1>2. /\ listings' \in Seq(Listing) /\ Len(listings') = Len(listings) + 1
      /\ \A i \in DOMAIN listings : i \in DOMAIN listings' /\ listings'[i] = listings[i]
      /\ DOMAIN listings' = DOMAIN listings \cup {Len(listings')}
      /\ listings'[Len(listings')] = NewListing(a, p)
  BY <1>1 DEF createListing
<1>3. Len(listings') <= MaxListings
  BY <1>1, <1>2, ConstantsTyped DEF createListing
<1>4. ChainTypeOK' /\ Logged' /\ Lasting
  BY <1>2, <1>3 DEF createListing, ChainTypeOK, Logged, Lasting
<1>5. LedgerExact'
  <2>1. \A i \in DOMAIN listings' :
          listings'[i].sales = IF i \in DOMAIN listings THEN listings[i].sales ELSE 0
    BY <1>2 DEF NewListing
  <2> QED
    BY <1>4, <2>1, LedgerKept DEF createListing
<1> QED
  BY <1>2, <1>3, <1>4, <1>5

LEMMA DeactivateKeeps ==
  ASSUME ChainInv, NEW a \in Accounts, NEW i \in DOMAIN listings, deactivateListing(a, i)
  PROVE  ChainInv' /\ Lasting
<1> USE DEF ChainInv
<1>1. listings[i] \in Listing /\ listings \in Seq(Listing)
  BY DEF ChainTypeOK
<1>2. [listings[i] EXCEPT !.active = FALSE] \in Listing
  BY <1>1 DEF Listing
<1>3. /\ listings' \in Seq(Listing) /\ DOMAIN listings' = DOMAIN listings
      /\ Len(listings') = Len(listings)
      /\ \A j \in DOMAIN listings : /\ listings'[j].seller = listings[j].seller
                                    /\ listings'[j].price = listings[j].price
                                    /\ listings'[j].sales = listings[j].sales
  <2>1. listings' = [listings EXCEPT ![i] = [listings[i] EXCEPT !.active = FALSE]]
    BY DEF deactivateListing
  <2>2. \A j \in DOMAIN listings : listings[j] \in Listing
    BY <1>1
  <2> QED
    BY <1>1, <1>2, <2>1, <2>2 DEF Listing
<1>4. ChainTypeOK' /\ Logged' /\ Lasting
  BY <1>3 DEF deactivateListing, ChainTypeOK, Logged, Lasting
<1>5. LedgerExact'
  BY <1>3, <1>4, LedgerKept DEF deactivateListing
<1> QED
  BY <1>4, <1>5

LEMMA SetFeeKeeps ==
  ASSUME ChainInv, NEW f \in Fees, setPlatformFee(f)
  PROVE  ChainInv' /\ Lasting
<1> USE DEF ChainInv
<1>1. feePercent' \in 0 .. 20
  BY ConstantsTyped DEF setPlatformFee
<1>2. ChainTypeOK' /\ Logged' /\ Lasting
  BY <1>1 DEF setPlatformFee, ChainTypeOK, Logged, Lasting
<1> QED
  BY <1>2, LedgerKept DEF setPlatformFee

LEMMA WithdrawKeeps ==
  ASSUME ChainInv, NEW a \in Accounts, withdrawFees(a)
  PROVE  ChainInv' /\ Lasting
<1> USE DEF ChainInv
<1> DEFINE m == token[Market]
<1>1. /\ m \in Nat /\ token[a] \in Nat /\ withdrawn[a] \in Nat /\ a # Market
      /\ token'[Market] = 0 /\ token'[a] = token[a] + m
      /\ withdrawn'[a] = withdrawn[a] + m
      /\ \A b \in Accounts \ {a} : token'[b] = token[b] /\ withdrawn'[b] = withdrawn[b]
      /\ token' \in [Accounts \cup {Market} -> Nat] /\ withdrawn' \in [Accounts -> Nat]
  <2>1. a # Market /\ m \in Nat /\ token[a] \in Nat /\ withdrawn[a] \in Nat
    BY ConstantsTyped DEF ChainTypeOK
  <2> HIDE DEF m
  <2>2. token[a] + m \in Nat /\ withdrawn[a] + m \in Nat
    BY <2>1
  <2>3. token' = [token EXCEPT ![Market] = 0, ![a] = @ + m]
        /\ withdrawn' = [withdrawn EXCEPT ![a] = @ + m]
    BY DEF withdrawFees, m
  <2>4. token'[Market] = 0 /\ token'[a] = token[a] + m
        /\ token' \in [Accounts \cup {Market} -> Nat]
        /\ \A b \in Accounts \ {a} : token'[b] = token[b]
    BY <2>1, <2>2, <2>3, ConstantsTyped DEF ChainTypeOK
  <2>5. withdrawn'[a] = withdrawn[a] + m /\ withdrawn' \in [Accounts -> Nat]
        /\ \A b \in Accounts \ {a} : withdrawn'[b] = withdrawn[b]
    BY <2>2, <2>3 DEF ChainTypeOK
  <2> QED
    BY <2>1, <2>4, <2>5
<1>2. ChainTypeOK' /\ Logged' /\ Lasting
  BY <1>1 DEF withdrawFees, ChainTypeOK, Logged, Lasting
<1>3. /\ Paid' = Paid /\ Earned' = Earned /\ SalesAgree'
      /\ \A b : Bought(b)' = Bought(b) /\ Sold(b)' = Sold(b)
  BY DEF withdrawFees, Paid, Earned, Bought, Sold, LedgerExact, SalesAgree
<1>4. SumFunctionOnSet(withdrawn, Accounts)' = SumFunctionOnSet(withdrawn, Accounts) + m
      /\ SumFunctionOnSet(withdrawn, Accounts) \in Int
  <2>1. IsFiniteSet(Accounts) /\ Numbers(withdrawn, Accounts)
    BY ConstantsTyped DEF Numbers, ChainTypeOK
  <2> DEFINE w == withdrawn'
  <2>2. w[a] \in Int /\ \A b \in Accounts \ {a} : w[b] = withdrawn[b]
    BY <1>1
  <2> HIDE DEF w
  <2>3. SumFunctionOnSet(w, Accounts)
          = SumFunctionOnSet(withdrawn, Accounts) + w[a] - withdrawn[a]
    BY <2>1, <2>2, SumUpdate
  <2>4. SumFunctionOnSet(withdrawn, Accounts) \in Int
    BY <2>1, SumType
  <2> QED
    BY <1>1, <2>3, <2>4 DEF w
<1>5. SumFunctionOnSet(fees, DOMAIN fees) \in Int
  BY LogIsFinite, SumType DEF Numbers
<1>6. token'[Market] = SumFunctionOnSet(fees, DOMAIN fees)
                       - SumFunctionOnSet(withdrawn, Accounts)'
  BY <1>1, <1>4, <1>5 DEF LedgerExact
<1>7. ASSUME NEW b \in Accounts
      PROVE  token'[b] = Funds + withdrawn'[b] - SumFunctionOnSet(Paid, Bought(b))
                                               + SumFunctionOnSet(Earned, Sold(b))
  <2>1. SumFunctionOnSet(Paid, Bought(b)) \in Int /\ SumFunctionOnSet(Earned, Sold(b)) \in Int
    BY LogIsFinite, SumType DEF Numbers
  <2>2. token[b] = Funds + withdrawn[b] - SumFunctionOnSet(Paid, Bought(b))
                                        + SumFunctionOnSet(Earned, Sold(b))
    BY DEF LedgerExact
  <2> QED
    BY <1>1, <2>1, <2>2, ConstantsTyped
<1>8. LedgerExact'
  BY <1>3, <1>6, <1>7 DEF LedgerExact, withdrawFees
<1> QED
  BY <1>2, <1>8
-----------------------------------------------------------------------------
(* A purchase, which adds one entry to the log. *)

(* What it does to tokens and counters, with the fee written out. *)
Bill(b, s, p, f) ==
  /\ token'[b] = token[b] - p /\ token'[s] = token[s] + (p - f)
  /\ token'[Market] = token[Market] + f
  /\ \A h \in Accounts \ {b, s} : token'[h] = token[h]

LEMMA PurchasePays ==
  ASSUME ChainTypeOK, NEW b \in Accounts, NEW i \in DOMAIN listings,
         purchaseDataset(b, i)
  PROVE  LET l == listings[i]
             f == Fee(l.price) IN
         /\ l \in Listing /\ l.price \in Nat /\ l.seller \in Accounts \ {b}
         /\ f \in Nat
         /\ Bill(b, l.seller, l.price, f)
         /\ token' \in [Accounts \cup {Market} -> Nat]
         /\ allowance' \in [Accounts -> Nat]
<1> DEFINE l == listings[i]
<1> DEFINE p == l.price
<1> DEFINE s == l.seller
<1> DEFINE f == Fee(p)
<1>1. l \in Listing
  BY DEF ChainTypeOK
<1>2. p \in Nat /\ s \in Accounts /\ s # b
  BY <1>1, ConstantsTyped DEF Listing, purchaseDataset
<1>3. f \in Nat /\ SellerShare(p) = p - f /\ p - f \in Nat
  BY <1>2, FeeInPrice
<1>4. /\ p <= token[b] /\ p <= allowance[b]
      /\ token' = [token EXCEPT ![b] = @ - (p - f) - f, ![s] = @ + (p - f),
                                ![Market] = @ + f]
      /\ allowance' = [allowance EXCEPT ![b] = @ - (p - f) - f]
  BY <1>3 DEF purchaseDataset, Record
<1>5. token \in [Accounts \cup {Market} -> Nat] /\ allowance \in [Accounts -> Nat]
      /\ b # Market /\ s # Market
  BY <1>2, ConstantsTyped DEF ChainTypeOK
<1>6. \A x \in Nat : x - (p - f) - f = x - p
  BY <1>2, <1>3
<1> HIDE DEF f, p, s, l
<1>7. /\ token' = [token EXCEPT ![b] = @ - p, ![s] = @ + (p - f), ![Market] = @ + f]
      /\ allowance' = [allowance EXCEPT ![b] = @ - p]
  BY <1>4, <1>5, <1>6
<1>8. /\ Bill(b, s, p, f) /\ token' \in [Accounts \cup {Market} -> Nat]
      /\ allowance' \in [Accounts -> Nat]
  <2>1. token[b] - p \in Nat /\ allowance[b] - p \in Nat
    BY <1>2, <1>4, <1>5
  <2>2. token[s] + (p - f) \in Nat /\ token[Market] + f \in Nat
    BY <1>2, <1>3, <1>5
  <2>3. allowance' \in [Accounts -> Nat]
    BY <1>5, <1>7, <2>1
  <2>4. Bill(b, s, p, f)
    BY <1>2, <1>5, <1>7, ConstantsTyped DEF Bill
  <2>5. token' \in [Accounts \cup {Market} -> Nat]
    BY <1>2, <1>5, <1>7, <2>1, <2>2
  <2> QED
    BY <2>3, <2>4, <2>5
<1> QED
  BY <1>1, <1>2, <1>3, <1>8 DEF f, p, s, l

LEMMA Appended ==
  ASSUME NEW T, NEW s \in Seq(T), NEW e \in T, NEW t, t = Append(s, e),
         NEW n, n = Len(s) + 1
  PROVE  /\ t \in Seq(T) /\ Len(t) = n
         /\ n \notin DOMAIN s /\ DOMAIN t = DOMAIN s \cup {n}
         /\ t[n] = e /\ \A k \in DOMAIN s : t[k] = s[k]
OBVIOUS

(* The log, which becomes longer by entry n, and the listings.              *)
Entered(b, i, n) ==
  /\ n \notin DOMAIN purchases /\ DOMAIN fees = DOMAIN purchases
  /\ DOMAIN purchases' = DOMAIN purchases \cup {n}
  /\ DOMAIN fees' = DOMAIN purchases \cup {n} /\ Len(fees') = Len(purchases')
  /\ \A k \in DOMAIN purchases : purchases'[k] = purchases[k] /\ fees'[k] = fees[k]
  /\ purchases'[n].listingId = i /\ purchases'[n].buyer = b
  /\ purchases'[n].paidAmount = listings[i].price /\ fees'[n] = Fee(listings[i].price)
  /\ DOMAIN listings' = DOMAIN listings /\ Len(listings') = Len(listings)
  /\ \A j \in DOMAIN listings :
       /\ listings'[j].seller = listings[j].seller
       /\ listings'[j].price = listings[j].price
       /\ listings'[j].sales = IF j = i THEN listings[j].sales + 1 ELSE listings[j].sales

LEMMA PurchaseLogged ==
  ASSUME ChainTypeOK, Logged, NEW b \in Accounts, NEW i \in DOMAIN listings,
         purchaseDataset(b, i)
  PROVE  /\ Entered(b, i, Len(purchases) + 1)
         /\ purchases' \in Seq(Purchase) /\ fees' \in Seq(Nat)
         /\ listings' \in Seq(Listing)
<1> DEFINE n == Len(purchases) + 1
<1> DEFINE l == listings[i]
<1> DEFINE e == [listingId |-> i, buyer |-> b, paidAmount |-> l.price]
<1>1. l \in Listing /\ Fee(l.price) \in Nat /\ i \in 1 .. MaxListings
      /\ listings \in Seq(Listing) /\ i \in 1 .. Len(listings)
  <2>1. l \in Listing /\ Fee(l.price) \in Nat
    BY PurchasePays
  <2>2. listings \in Seq(Listing) /\ Len(listings) <= MaxListings /\ MaxListings \in Nat
    BY ConstantsTyped DEF ChainTypeOK, Logged
  <2> QED
    BY <2>1, <2>2
<1>2. e \in Purchase
  BY <1>1 DEF Purchase, Listing
<1>3. /\ purchases' = Append(purchases, e) /\ fees' = Append(fees, Fee(l.price))
      /\ listings' = [listings EXCEPT ![i] = [l EXCEPT !.sales = @ + 1]]
  BY DEF purchaseDataset, Record
<1>4. purchases \in Seq(Purchase) /\ fees \in Seq(Nat) /\ Len(fees) = Len(purchases)
  BY DEF ChainTypeOK, Logged
<1> HIDE DEF e
<1>5. /\ purchases' \in Seq(Purchase) /\ fees' \in Seq(Nat) /\ Len(fees') = Len(purchases')
      /\ DOMAIN purchases' = DOMAIN purchases \cup {n} /\ n \notin DOMAIN purchases
      /\ DOMAIN fees' = DOMAIN purchases \cup {n} /\ DOMAIN fees = DOMAIN purchases
      /\ \A k \in DOMAIN purchases : purchases'[k] = purchases[k] /\ fees'[k] = fees[k]
      /\ purchases'[n] = e /\ fees'[n] = Fee(l.price)
  <2> HIDE DEF l
  <2>1. /\ purchases' \in Seq(Purchase) /\ Len(purchases') = n
        /\ n \notin DOMAIN purchases /\ DOMAIN purchases' = DOMAIN purchases \cup {n}
        /\ purchases'[n] = e /\ \A k \in DOMAIN purchases : purchases'[k] = purchases[k]
    BY <1>2, <1>3, <1>4, Appended
  <2>2. /\ fees' \in Seq(Nat) /\ Len(fees') = n
        /\ DOMAIN fees' = DOMAIN fees \cup {n}
        /\ fees'[n] = Fee(l.price) /\ \A k \in DOMAIN fees : fees'[k] = fees[k]
    BY <1>1, <1>3, <1>4, Appended
  <2>3. DOMAIN fees = DOMAIN purchases
    BY <1>4
  <2> QED
    BY <2>1, <2>2, <2>3
<1> DEFINE m == [l EXCEPT !.sales = @ + 1]
<1>6. m \in Listing /\ m.seller = l.seller /\ m.price = l.price /\ m.sales = l.sales + 1
  BY <1>1 DEF Listing
<1> HIDE DEF m
<1>7. /\ listings' \in Seq(Listing) /\ DOMAIN listings' = DOMAIN listings
      /\ Len(listings') = Len(listings)
      /\ \A j \in DOMAIN listings : listings'[j] = IF j = i THEN m ELSE listings[j]
  BY <1>1, <1>3, <1>6 DEF m
<1>8. e.listingId = i /\ e.buyer = b /\ e.paidAmount = listings[i].price
  BY DEF e
<1> HIDE DEF n
<1>9. Entered(b, i, n)
  BY <1>5, <1>6, <1>7, <1>8 DEF Entered
<1> QED
  BY <1>5, <1>7, <1>9 DEF n

(* Who has bought and sold what: one entry more for the two of them. *)
LEMMA PurchaseCounted ==
  ASSUME ChainInv, NEW b \in Accounts, NEW i \in DOMAIN listings, purchaseDataset(b, i),
         NEW s, s = listings[i].seller, NEW n, n = Len(purchases) + 1
  PROVE  /\ Lasting /\ Logged' /\ Entered(b, i, n) /\ n \notin DOMAIN purchases
         /\ Bought(b)' = Bought(b) \cup {n} /\ Sold(s)' = Sold(s) \cup {n}
         /\ \A a \in Accounts \ {b} : Bought(a)' = Bought(a)
         /\ \A a \in Accounts \ {s} : Sold(a)' = Sold(a)
<1> USE DEF ChainInv
<1>1. Entered(b, i, n)
  BY PurchaseLogged
<1>2. \A k \in DOMAIN purchases : purchases[k].listingId \in DOMAIN listings
  BY DEF Logged
<1>3. Lasting /\ Logged'
  BY <1>1, <1>2 DEF Lasting, Logged, Entered
<1>4. Bought(b)' = Bought(b) \cup {n} /\ \A a \in Accounts \ {b} : Bought(a)' = Bought(a)
  BY <1>1 DEF Bought, Entered
<1>5. Sold(s)' = Sold(s) \cup {n} /\ \A a \in Accounts \ {s} : Sold(a)' = Sold(a)
  BY <1>1, <1>2 DEF Sold, Entered
<1> QED
  BY <1>1, <1>3, <1>4, <1>5 DEF Entered

LEMMA PurchaseSales ==
  ASSUME ChainInv, NEW b \in Accounts, NEW i \in DOMAIN listings, purchaseDataset(b, i)
  PROVE  SalesAgree'
<1>0. PICK n, s : n = Len(purchases) + 1 /\ s = listings[i].seller
  OBVIOUS
<1> USE DEF ChainInv
<1>1. SalesAgree /\ s \in Accounts \ {b}
  BY <1>0, PurchasePays DEF LedgerExact
<1>2. /\ Bought(b)' = Bought(b) \cup {n} /\ Sold(s)' = Sold(s) \cup {n}
      /\ \A a \in Accounts \ {b} : Bought(a)' = Bought(a)
      /\ \A a \in Accounts \ {s} : Sold(a)' = Sold(a)
  BY <1>0, PurchaseCounted
<1>3. Entered(b, i, n) /\ n \notin DOMAIN purchases
  BY <1>0, PurchaseCounted
<1>4. \A a \in Accounts : /\ Bought(a) \subseteq DOMAIN purchases
                          /\ Sold(a) \subseteq DOMAIN purchases /\ IsFiniteSet(Sold(a))
  BY LogIsFinite
<1>5. ASSUME NEW j \in DOMAIN listings'
      PROVE  listings'[j].sales =
               Cardinality({k \in DOMAIN purchases' : purchases'[k].listingId = j})
  <2> DEFINE Of == {k \in DOMAIN purchases : purchases[k].listingId = j}
  <2>1. /\ j \in DOMAIN listings
        /\ {k \in DOMAIN purchases' : purchases'[k].listingId = j}
             = IF j = i THEN Of \cup {n} ELSE Of
        /\ listings'[j].sales = IF j = i THEN listings[j].sales + 1 ELSE listings[j].sales
    BY <1>3 DEF Entered
  <2>2. IsFiniteSet(Of) /\ n \notin Of
    BY <1>3, LogIsFinite, FS_Subset
  <2>3. listings[j].sales = Cardinality(Of)
    BY <1>1, <2>1 DEF SalesAgree
  <2> HIDE DEF Of
  <2> QED
    BY <2>1, <2>2, <2>3, FS_AddElement
<1>6. ASSUME NEW a \in Accounts PROVE reputation'[a] = Cardinality(Sold(a)')
  <2>1. reputation'[a] = IF a = s THEN reputation[a] + 1 ELSE reputation[a]
    BY <1>0 DEF purchaseDataset, Record, ChainTypeOK
  <2>2. reputation[a] = Cardinality(Sold(a))
    BY <1>1 DEF SalesAgree
  <2>3. Cardinality(Sold(a) \cup {n}) = Cardinality(Sold(a)) + 1
    BY <1>3, <1>4, FS_AddElement
  <2> QED
    BY <1>2, <2>1, <2>2, <2>3
<1>7. ASSUME NEW a \in Accounts PROVE Bought(a)' \cap Sold(a)' = {}
  <2>1. Bought(a) \cap Sold(a) = {} /\ n \notin Bought(a) /\ n \notin Sold(a)
    BY <1>1, <1>3, <1>4 DEF SalesAgree
  <2>2. Bought(a)' \subseteq IF a = b THEN Bought(a) \cup {n} ELSE Bought(a)
    BY <1>2
  <2>3. Sold(a)' \subseteq IF a = s THEN Sold(a) \cup {n} ELSE Sold(a)
    BY <1>2
  <2> QED
    BY <1>1, <2>1, <2>2, <2>3
<1> QED
  BY <1>5, <1>6, <1>7 DEF SalesAgree

(* The sums over a log that has grown by entry n. *)
LEMMA LongerSum ==
  ASSUME NEW S, IsFiniteSet(S), NEW n, n \notin S, NEW f, Numbers(f, S),
         NEW g, g[n] \in Int, \A k \in S : g[k] = f[k]
  PROVE  /\ SumFunctionOnSet(g, S) = SumFunctionOnSet(f, S)
         /\ SumFunctionOnSet(g, S \cup {n}) = SumFunctionOnSet(f, S) + g[n]
         /\ SumFunctionOnSet(f, S) \in Int
<1>1. SumFunctionOnSet(g, S) = SumFunctionOnSet(f, S)
  BY SumSame
<1>2. Numbers(g, S)
  BY DEF Numbers
<1>3. SumFunctionOnSet(g, S \cup {n}) = SumFunctionOnSet(g, S) + g[n]
  BY <1>2, SumAdd
<1> QED
  BY <1>1, <1>3, SumType

LEMMA PurchaseLedger ==
  ASSUME ChainInv, NEW b \in Accounts, NEW i \in DOMAIN listings, purchaseDataset(b, i)
  PROVE  LedgerExact'
<1> DEFINE p == listings[i].price
<1> DEFINE f == Fee(p)
<1>0. PICK n, s : n = Len(purchases) + 1 /\ s = listings[i].seller
  OBVIOUS
<1> USE DEF ChainInv
<1>1. p \in Nat /\ f \in Nat /\ s \in Accounts \ {b} /\ Bill(b, s, p, f)
  BY <1>0, PurchasePays
<1>2. /\ Bought(b)' = Bought(b) \cup {n} /\ Sold(s)' = Sold(s) \cup {n}
      /\ \A a \in Accounts \ {b} : Bought(a)' = Bought(a)
      /\ \A a \in Accounts \ {s} : Sold(a)' = Sold(a)
  BY <1>0, PurchaseCounted
<1>3. /\ n \notin DOMAIN purchases /\ DOMAIN fees = DOMAIN purchases
      /\ DOMAIN fees' = DOMAIN purchases \cup {n}
      /\ DOMAIN purchases' = DOMAIN purchases \cup {n}
      /\ \A k \in DOMAIN purchases : purchases'[k] = purchases[k] /\ fees'[k] = fees[k]
      /\ purchases'[n].paidAmount = p /\ fees'[n] = f
  <2>1. Entered(b, i, n)
    BY <1>0, PurchaseLogged
  <2> QED
    BY <2>1 DEF Entered
<1>4. \A a \in Accounts :
        /\ Bought(a) \subseteq DOMAIN purchases /\ IsFiniteSet(Bought(a))
        /\ Sold(a) \subseteq DOMAIN purchases /\ IsFiniteSet(Sold(a))
  BY LogIsFinite
<1>5. \A k \in DOMAIN purchases : Paid[k] \in Int /\ Earned[k] \in Int /\ fees[k] \in Int
  BY LogIsFinite
<1> DEFINE paid == Paid'
<1> DEFINE earned == Earned'
<1> DEFINE kept == fees'
<1>6. /\ \A k \in DOMAIN purchases : /\ paid[k] = Paid[k] /\ earned[k] = Earned[k]
                                     /\ kept[k] = fees[k]
      /\ paid[n] = p /\ earned[n] = p - f /\ kept[n] = f
  BY <1>3 DEF Paid, Earned
<1> HIDE DEF p, f, paid, earned, kept
<1>7. ASSUME NEW S, S \subseteq DOMAIN purchases, IsFiniteSet(S)
      PROVE  /\ SumFunctionOnSet(paid, S) = SumFunctionOnSet(Paid, S)
             /\ SumFunctionOnSet(paid, S \cup {n}) = SumFunctionOnSet(Paid, S) + p
             /\ SumFunctionOnSet(Paid, S) \in Int
             /\ SumFunctionOnSet(earned, S) = SumFunctionOnSet(Earned, S)
             /\ SumFunctionOnSet(earned, S \cup {n}) = SumFunctionOnSet(Earned, S) + (p - f)
             /\ SumFunctionOnSet(Earned, S) \in Int
             /\ SumFunctionOnSet(kept, S \cup {n}) = SumFunctionOnSet(fees, S) + f
             /\ SumFunctionOnSet(fees, S) \in Int
  <2>1. n \notin S
    BY <1>3, <1>7
  <2>2. /\ SumFunctionOnSet(paid, S) = SumFunctionOnSet(Paid, S)
        /\ SumFunctionOnSet(paid, S \cup {n}) = SumFunctionOnSet(Paid, S) + paid[n]
        /\ SumFunctionOnSet(Paid, S) \in Int
    <3>1. Numbers(Paid, S) /\ paid[n] \in Int /\ \A k \in S : paid[k] = Paid[k]
      BY <1>1, <1>5, <1>6, <1>7 DEF Numbers
    <3> QED
      BY <1>7, <2>1, <3>1, LongerSum
  <2>3. /\ SumFunctionOnSet(earned, S) = SumFunctionOnSet(Earned, S)
        /\ SumFunctionOnSet(earned, S \cup {n}) = SumFunctionOnSet(Earned, S) + earned[n]
        /\ SumFunctionOnSet(Earned, S) \in Int
    <3>1. Numbers(Earned, S) /\ earned[n] \in Int /\ \A k \in S : earned[k] = Earned[k]
      BY <1>1, <1>5, <1>6, <1>7 DEF Numbers
    <3> QED
      BY <1>7, <2>1, <3>1, LongerSum
  <2>4. /\ SumFunctionOnSet(kept, S \cup {n}) = SumFunctionOnSet(fees, S) + kept[n]
        /\ SumFunctionOnSet(fees, S) \in Int
    <3>1. Numbers(fees, S) /\ kept[n] \in Int /\ \A k \in S : kept[k] = fees[k]
      BY <1>1, <1>5, <1>6, <1>7 DEF Numbers
    <3> QED
      BY <1>7, <2>1, <3>1, LongerSum
  <2> QED
    BY <1>6, <2>2, <2>3, <2>4
<1>8. withdrawn' = withdrawn /\ withdrawn \in [Accounts -> Nat] /\ Funds \in Nat
  BY ConstantsTyped DEF purchaseDataset, ChainTypeOK
<1>9. ASSUME NEW a \in Accounts
      PROVE  token'[a] = Funds + withdrawn[a] - SumFunctionOnSet(paid, Bought(a)')
                                              + SumFunctionOnSet(earned, Sold(a)')
  <2> DEFINE B == SumFunctionOnSet(Paid, Bought(a))
  <2> DEFINE S == SumFunctionOnSet(Earned, Sold(a))
  <2>1. token[a] = Funds + withdrawn[a] - B + S
    BY DEF LedgerExact
  <2>2. /\ SumFunctionOnSet(paid, Bought(a)) = B
        /\ SumFunctionOnSet(paid, Bought(a) \cup {n}) = B + p /\ B \in Int
    BY <1>4, <1>7
  <2>3. /\ SumFunctionOnSet(earned, Sold(a)) = S
        /\ SumFunctionOnSet(earned, Sold(a) \cup {n}) = S + (p - f) /\ S \in Int
    BY <1>4, <1>7
  <2>5. /\ Bought(a)' = IF a = b THEN Bought(a) \cup {n} ELSE Bought(a)
        /\ Sold(a)' = IF a = s THEN Sold(a) \cup {n} ELSE Sold(a)
    BY <1>2
  <2>6. /\ SumFunctionOnSet(paid, Bought(a)') = IF a = b THEN B + p ELSE B
        /\ SumFunctionOnSet(earned, Sold(a)') = IF a = s THEN S + (p - f) ELSE S
        /\ withdrawn[a] \in Int /\ Funds \in Int
    BY <1>8, <2>2, <2>3, <2>5
  <2>7. token'[a] = IF a = b THEN token[a] - p
                    ELSE IF a = s THEN token[a] + (p - f) ELSE token[a]
    BY <1>1 DEF Bill
  <2> HIDE DEF B, S
  <2> QED
    BY <1>1, <2>1, <2>2, <2>3, <2>6, <2>7
<1>10. token'[Market] = SumFunctionOnSet(kept, DOMAIN kept)
                        - SumFunctionOnSet(withdrawn, Accounts)
  <2>1. SumFunctionOnSet(kept, DOMAIN kept) = SumFunctionOnSet(fees, DOMAIN fees) + f
        /\ SumFunctionOnSet(fees, DOMAIN fees) \in Int
    <3>1. IsFiniteSet(DOMAIN purchases)
      BY LogIsFinite
    <3>2. DOMAIN kept = DOMAIN purchases \cup {n} /\ DOMAIN fees = DOMAIN purchases
      BY <1>3 DEF kept
    <3> QED
      BY <1>7, <3>1, <3>2
  <2>2. SumFunctionOnSet(withdrawn, Accounts) \in Int
    BY <1>8, ConstantsTyped, SumType DEF Numbers
  <2>3. token[Market] = SumFunctionOnSet(fees, DOMAIN fees)
                        - SumFunctionOnSet(withdrawn, Accounts)
    BY DEF LedgerExact
  <2>4. token'[Market] = token[Market] + f
    BY <1>1 DEF Bill
  <2> QED
    BY <1>1, <2>1, <2>2, <2>3, <2>4
<1> QED
  BY <1>8, <1>9, <1>10, PurchaseSales DEF LedgerExact, paid, earned, kept

LEMMA PurchaseKeeps ==
  ASSUME ChainInv, NEW b \in Accounts, NEW i \in DOMAIN listings, purchaseDataset(b, i)
  PROVE  ChainInv' /\ Lasting
<1> USE DEF ChainInv
<1>1. Lasting /\ Logged'
  BY PurchaseCounted
<1>2. ChainTypeOK'
  <2>1. token' \in [Accounts \cup {Market} -> Nat] /\ allowance' \in [Accounts -> Nat]
        /\ listings[i].seller \in Accounts
    BY PurchasePays
  <2>2. listings' \in Seq(Listing) /\ purchases' \in Seq(Purchase) /\ fees' \in Seq(Nat)
    BY PurchaseLogged
  <2>3. reputation' \in [Accounts -> Nat] /\ feePercent' = feePercent
        /\ withdrawn' = withdrawn
    <3>1. PICK s \in Accounts : s = listings[i].seller
      BY <2>1
    <3>2. reputation \in [Accounts -> Nat]
      BY DEF ChainTypeOK
    <3>3. reputation' = [reputation EXCEPT ![s] = @ + 1]
      BY <3>1 DEF purchaseDataset, Record
    <3>4. reputation' \in [Accounts -> Nat]
      BY <3>2, <3>3
    <3> QED
      BY <3>4 DEF purchaseDataset, Record, ChainTypeOK
  <2> QED
    BY <2>1, <2>2, <2>3 DEF ChainTypeOK
<1> QED
  BY <1>1, <1>2, PurchaseLedger
-----------------------------------------------------------------------------
(* The requests. *)

RequestRecord == [at : Stages, price : Prices \cup {0}, listingId : 0 .. MaxListings]

LEMMA RequestsKept ==
  ASSUME RequestInv, Lasting, UNCHANGED <<request, rows, faults>>
  PROVE  RequestInv'
<1> USE DEF RequestInv
<1>1. RequestTypeOK' /\ Stored'
  BY DEF RequestTypeOK, Stored
<1>2. ASSUME NEW q \in Requests PROVE Mirrors(q)'
  <2>1. Mirrors(q)
    BY DEF Mirrored
  <2> QED
    BY <2>1 DEF Mirrors, Lasting
<1>3. Mirrored'
  BY <1>2 DEF Mirrored
<1> QED
  BY <1>1, <1>3

(* A step of one request, to a state c that fits the chain after the step. *)
Fits(q, c) ==
  /\ c.at # "idle" => c.price \in Prices
  /\ c.at \in {"idle", "sent", "orphan"} => c.listingId = 0
  /\ c.at = "mined" => c.listingId # 0
  /\ q \in rows' => c.at = "done" /\ c.listingId # 0
  /\ c.listingId # 0 =>
       /\ c.listingId \in DOMAIN listings'
       /\ listings'[c.listingId].seller = Platform
       /\ listings'[c.listingId].price = c.price
       /\ \A r \in Requests \ {q} : request[r].listingId # c.listingId

LEMMA OneRequest ==
  ASSUME RequestInv, Lasting, NEW q \in Requests, NEW c \in RequestRecord,
         request' = [request EXCEPT ![q] = c], Fits(q, c),
         rows' \in {rows, rows \cup {q}}, faults' \in 0 .. MaxFaults
  PROVE  RequestInv'
<1> USE DEF RequestInv
<1>1. /\ request \in [Requests -> RequestRecord] /\ rows \subseteq Requests
      /\ request' \in [Requests -> RequestRecord]
      /\ request'[q] = c /\ \A r \in Requests \ {q} : request'[r] = request[r]
      /\ rows' \subseteq Requests /\ \A r \in rows' \ {q} : r \in rows
  BY DEF RequestTypeOK, RequestRecord
<1>2. RequestTypeOK'
  BY <1>1 DEF RequestTypeOK, RequestRecord
<1>3. Stored'
  BY <1>1 DEF Stored, Fits
<1>4. ASSUME NEW r \in Requests PROVE Mirrors(r)'
  <2>1. CASE r = q
    BY <1>1, <2>1 DEF Fits, Mirrors
  <2>2. CASE r # q
    <3>1. Mirrors(r) /\ request'[r] = request[r]
      BY <1>1, <2>2 DEF Mirrored
    <3> QED
      BY <3>1 DEF Mirrors, Lasting
  <2> QED
    BY <2>1, <2>2
<1>5. ASSUME NEW r \in Requests, NEW t \in Requests,
             request'[r].listingId = request'[t].listingId, request'[r].listingId # 0
      PROVE  r = t
  BY <1>1, <1>5 DEF Mirrored, Fits
<1> QED
  BY <1>2, <1>3, <1>4, <1>5 DEF Mirrored

LEMMA SendKeeps ==
  ASSUME IndInv, NEW q \in Requests, NEW p \in Prices, create_marketplace_listing(q, p)
  PROVE  IndInv'
<1> USE DEF IndInv
<1> DEFINE r == request[q]
<1> DEFINE c == [r EXCEPT !.at = "sent", !.price = p]
<1>1. r \in RequestRecord /\ r.at = "idle" /\ r.listingId = 0 /\ q \notin rows
  BY DEF RequestInv, RequestTypeOK, RequestRecord, Stored, create_marketplace_listing
<1>2. c \in RequestRecord /\ c.at = "sent" /\ c.price = p /\ c.listingId = 0
  BY <1>1 DEF RequestRecord, Stages
<1>3. request' = [request EXCEPT ![q] = c] /\ UNCHANGED <<chainVars, rows, faults>>
  BY DEF create_marketplace_listing
<1> HIDE DEF c, r
<1>4. Fits(q, c) /\ faults' \in 0 .. MaxFaults
  BY <1>1, <1>2, <1>3 DEF Fits, RequestInv, RequestTypeOK
<1>5. ChainInv' /\ Lasting
  BY <1>3, ChainKept
<1> QED
  BY <1>2, <1>3, <1>4, <1>5, OneRequest

LEMMA MinedKeeps ==
  ASSUME IndInv, NEW q \in Requests, Mined(q)
  PROVE  IndInv'
<1> USE DEF IndInv
<1> DEFINE r == request[q]
<1>1. r \in RequestRecord /\ r.at \in {"sent", "orphan"} /\ r.price \in Prices /\ q \notin rows
  BY DEF RequestInv, RequestTypeOK, RequestRecord, Stored, Mined
<1>2. /\ ChainInv' /\ Lasting /\ Len(listings') = Len(listings) + 1
      /\ Len(listings') <= MaxListings
      /\ listings'[Len(listings')] = NewListing(Platform, r.price)
  BY <1>1, CreateKeeps, ConstantsTyped DEF Mined
<1>3. Len(listings) \in Nat /\ Len(listings') \in Nat /\ Len(listings') # 0
      /\ Len(listings') \in 0 .. MaxListings /\ Len(listings') \in DOMAIN listings'
  BY <1>2, ConstantsTyped DEF ChainInv, ChainTypeOK
<1>4. PICK n : n = Len(listings')
  OBVIOUS
<1> DEFINE c == [r EXCEPT !.listingId = n, !.at = IF @ = "sent" THEN "mined" ELSE "done"]
<1>5. /\ c \in RequestRecord /\ c.at \in {"mined", "done"} /\ c.price = r.price
      /\ c.listingId = n
  BY <1>1, <1>3, <1>4 DEF RequestRecord, Stages
<1>6. request' = [request EXCEPT ![q] = c] /\ UNCHANGED <<rows, faults>>
  BY <1>4 DEF Mined
<1>7. ASSUME NEW t \in Requests PROVE request[t].listingId # n
  <2>1. Mirrors(t)
    BY DEF RequestInv, Mirrored
  <2>2. n \notin DOMAIN listings
    BY <1>2, <1>4 DEF ChainInv, ChainTypeOK
  <2> QED
    BY <1>3, <1>4, <2>1, <2>2 DEF Mirrors
<1> HIDE DEF c, r
<1>8. Fits(q, c) /\ faults' \in 0 .. MaxFaults
  BY <1>1, <1>2, <1>3, <1>4, <1>5, <1>6, <1>7
     DEF Fits, NewListing, RequestInv, RequestTypeOK
<1> QED
  BY <1>2, <1>5, <1>6, <1>8, OneRequest

(* A request that is cut off, or stores its row: the chain is as it was.   *)
LEMMA EndKeeps ==
  ASSUME IndInv, NEW q \in Requests, CutOff(q) \/ InsertRow(q)
  PROVE  IndInv'
<1> USE DEF IndInv
<1> DEFINE r == request[q]
<1>1. PICK l \in {"orphan", "done"} :
        /\ request' = [request EXCEPT ![q] = [r EXCEPT !.at = l]]
        /\ l = "orphan" => r.at = "sent" /\ rows' = rows
        /\ l = "done" => r.at = "mined"
        /\ rows' \in {rows, rows \cup {q}}
  BY DEF CutOff, InsertRow, Goto
<1> DEFINE c == [r EXCEPT !.at = l]
<1>2. r \in RequestRecord /\ r.price \in Prices /\ q \notin rows
      /\ (l = "orphan" => r.listingId = 0) /\ (l = "done" => r.listingId # 0)
  BY <1>1 DEF RequestInv, RequestTypeOK, RequestRecord, Stored
<1>3. /\ c \in RequestRecord /\ c.at = l /\ c.price = r.price
      /\ c.listingId = r.listingId
  BY <1>2 DEF RequestRecord, Stages
<1>4. UNCHANGED chainVars /\ faults' \in 0 .. MaxFaults
  <2>1. faults \in 0 .. MaxFaults
    BY DEF RequestInv, RequestTypeOK
  <2> QED
    BY <2>1, ConstantsTyped DEF CutOff, InsertRow
<1>5. Mirrors(q) /\ \A t \in Requests \ {q} :
                      r.listingId # 0 => request[t].listingId # r.listingId
  BY DEF RequestInv, Mirrored
<1> HIDE DEF c
<1>6. Fits(q, c)
  <2>1. UNCHANGED listings
    BY <1>4 DEF chainVars
  <2>2. l = "orphan" => q \notin rows'
    BY <1>1, <1>2
  <2> QED
    BY <1>2, <1>3, <1>5, <2>1, <2>2 DEF Fits, Mirrors
<1>7. ChainInv' /\ Lasting
  BY <1>4, ChainKept
<1> QED
  BY <1>1, <1>3, <1>4, <1>6, <1>7, OneRequest DEF c
-----------------------------------------------------------------------------
LEMMA InitInv == Init => IndInv
<1> SUFFICES ASSUME Init PROVE IndInv
  OBVIOUS
<1> USE DEF Init
<1>1. ChainTypeOK /\ Logged
  BY ConstantsTyped DEF ChainTypeOK, Logged
<1>2. /\ DOMAIN purchases = {} /\ DOMAIN fees = {} /\ DOMAIN listings = {}
      /\ \A a : Bought(a) = {} /\ Sold(a) = {}
  BY DEF Bought, Sold
<1>3. SalesAgree
  BY <1>2, FS_EmptySet DEF SalesAgree
<1>4. SumFunctionOnSet(withdrawn, Accounts) = 0
  <2>1. SumFunctionOnSet(withdrawn, Accounts) = 0 * Cardinality(Accounts)
    BY ConstantsTyped, SumConstant
  <2> QED
    BY <2>1, ConstantsTyped, FS_CardinalityType
<1>5. \A f : SumFunctionOnSet(f, {}) = 0
  BY SumOfNone
<1>6. LedgerExact
  <2>1. ASSUME NEW a \in Accounts
        PROVE  token[a] = Funds + withdrawn[a] - SumFunctionOnSet(Paid, Bought(a))
                                               + SumFunctionOnSet(Earned, Sold(a))
    <3>1. token[a] = Funds /\ withdrawn[a] = 0 /\ Funds \in Int
      BY ConstantsTyped
    <3>2. SumFunctionOnSet(Paid, Bought(a)) = 0 /\ SumFunctionOnSet(Earned, Sold(a)) = 0
      BY <1>2, <1>5
    <3> QED
      BY <3>1, <3>2
  <2>2. SumFunctionOnSet(fees, DOMAIN fees) = 0 /\ token[Market] = 0
    BY <1>2, <1>5
  <2> QED
    BY <1>3, <1>4, <2>1, <2>2 DEF LedgerExact
<1>7. RequestInv
  BY ConstantsTyped DEF RequestInv, RequestTypeOK, Stored, Mirrored, Mirrors, Stages
<1> QED
  BY <1>1, <1>6, <1>7 DEF IndInv, ChainInv

LEMMA StutterKeeps ==
  ASSUME IndInv, UNCHANGED vars
  PROVE  IndInv'
<1>1. ChainInv' /\ Lasting
  BY ChainKept DEF IndInv, vars
<1> QED
  BY <1>1, RequestsKept DEF IndInv, vars

(* IndInv holds in every reachable state. *)
THEOREM Invariance == Spec => []IndInv
<1>1. IndInv /\ [Next]_vars => IndInv'
  <2> SUFFICES ASSUME IndInv, [Next]_vars PROVE IndInv'
    OBVIOUS
  <2>1. ASSUME NEW a \in Accounts, NEW p \in Prices, createListing(a, p),
               UNCHANGED <<request, rows, faults>>
        PROVE  IndInv'
    BY <2>1, CreateKeeps, RequestsKept DEF IndInv
  <2>2. ASSUME NEW a \in Accounts, NEW i \in DOMAIN listings,
               deactivateListing(a, i) \/ purchaseDataset(a, i)
        PROVE  IndInv'
    <3>1. ChainInv' /\ Lasting
      BY <2>2, DeactivateKeeps, PurchaseKeeps DEF IndInv
    <3>2. UNCHANGED <<request, rows, faults>>
      BY <2>2 DEF deactivateListing, purchaseDataset
    <3> QED
      BY <3>1, <3>2, RequestsKept DEF IndInv
  <2>3. ASSUME NEW f \in Fees, setPlatformFee(f) PROVE IndInv'
    <3>1. UNCHANGED <<request, rows, faults>>
      BY <2>3 DEF setPlatformFee
    <3> QED
      BY <2>3, <3>1, SetFeeKeeps, RequestsKept DEF IndInv
  <2>4. ASSUME NEW a \in Accounts, withdrawFees(a) PROVE IndInv'
    <3>1. UNCHANGED <<request, rows, faults>>
      BY <2>4 DEF withdrawFees
    <3> QED
      BY <2>4, <3>1, WithdrawKeeps, RequestsKept DEF IndInv
  <2>5. CASE UNCHANGED vars
    BY <2>5, StutterKeeps
  <2> QED
    BY <2>1, <2>2, <2>3, <2>4, <2>5, SendKeeps, MinedKeeps, EndKeeps DEF Next
<1> QED
  BY InitInv, <1>1, PTL DEF Spec

(* Every variable keeps its type: no transfer of the contract drives an    *)
(* account or an allowance below zero, and no fee is above 20 percent.     *)
THEOREM TypeCorrect == Spec => []TypeOK
<1>1. IndInv => TypeOK
  BY DEF IndInv, ChainInv, ChainTypeOK, RequestInv, RequestTypeOK, TypeOK
<1> QED
  BY Invariance, <1>1, PTL

(* Every token is where the log of purchases says, and the counters say    *)
(* the same, at any prices and under any changes of the fee.               *)
THEOREM LedgerExactHolds == Spec => []LedgerExact
<1>1. IndInv => LedgerExact
  BY DEF IndInv, ChainInv
<1> QED
  BY Invariance, <1>1, PTL

(* A row stands for a listing of the platform that is on the chain, with   *)
(* the price that the row shows.                                           *)
THEOREM RowsMirrorListingsHolds == Spec => []RowsMirrorListings
<1>1. IndInv => RowsMirrorListings
  <2> SUFFICES ASSUME IndInv PROVE RowsMirrorListings
    OBVIOUS
  <2>1. \A q \in rows : q \in Requests /\ request[q].listingId # 0
    BY DEF IndInv, RequestInv, RequestTypeOK, Stored
  <2> QED
    BY <2>1 DEF IndInv, RequestInv, Mirrored, Mirrors, RowsMirrorListings
<1> QED
  BY Invariance, <1>1, PTL
=============================================================================
