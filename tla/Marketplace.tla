---------------------------- MODULE Marketplace ----------------------------
(***************************************************************************)
(* contracts/DataMarketplace.sol, where accounts list datasets and buy     *)
(* them with INC, and the resolver create_marketplace_listing, which lists *)
(* a user's dataset with the platform's key and then stores a row for it.  *)
(*                                                                         *)
(* A call of the contract is one transaction and one step.  A request is   *)
(* three: the transaction is sent, it is mined, the row is inserted.  The  *)
(* resolver purchase_dataset changes nothing: no row ever has the          *)
(* on_chain_listing_id that it insists on.                                 *)
(***************************************************************************)
EXTENDS Integers, Sequences, FiniteSets, FiniteSetsExt

CONSTANTS
  Accounts, Platform,   \* externally owned accounts; the platform's is one
  Market,               \* the address of the contract itself
  Requests,             \* requests for create_marketplace_listing
  Prices,               \* prices that somebody asks for
  Fees,                 \* percentages that the owner tries to set
  Funds,                \* bound: the tokens of each account, all approved
  MaxListings, MaxPurchases, MaxFaults   \* bounds

ASSUME MarketConstantsOK ==
  /\ IsFiniteSet(Accounts)
  /\ Platform \in Accounts /\ Market \notin Accounts
  /\ Prices \subseteq Nat \ {0} /\ Fees \subseteq Nat
  /\ {Funds, MaxListings, MaxPurchases, MaxFaults} \subseteq Nat

VARIABLES
  token,        \* INC of an account, or of the contract
  allowance,    \* what the contract may still take from an account
  feePercent,   \* platformFeePercent
  listings,     \* listings[i], and i counts from 1
  purchases,    \* purchases[i]
  reputation,   \* sellerReputation
  request,      \* request[q]: where a request has come to
  rows,         \* marketplace_listings: the requests that have stored a row
  fees,         \* history: fees[i] was kept of purchase i
  withdrawn,    \* history: the fees paid out to an account
  faults        \* requests that were cut off so far

chainVars == <<token, allowance, feePercent, listings, purchases, reputation,
               fees, withdrawn>>
vars == <<chainVars, request, rows, faults>>

(* idle: not sent; sent: create_listing awaits the receipt; orphan: nobody *)
(* awaits it; mined: before the INSERT; done: the request was answered.    *)
Stages == {"idle", "sent", "orphan", "mined", "done"}

Listing == [seller : Accounts, price : Prices, active : BOOLEAN, sales : Nat]
Purchase == [listingId : 1 .. MaxListings, buyer : Accounts, paidAmount : Prices]

TypeOK ==
  /\ token \in [Accounts \cup {Market} -> Nat]
  /\ allowance \in [Accounts -> Nat]
  /\ feePercent \in 0 .. 20
  /\ listings \in Seq(Listing) /\ purchases \in Seq(Purchase)
  /\ reputation \in [Accounts -> Nat]
  /\ request \in [Requests -> [at : Stages, price : Prices \cup {0},
                               listingId : 0 .. MaxListings]]
  /\ rows \subseteq Requests
  /\ fees \in Seq(Nat) /\ withdrawn \in [Accounts -> Nat]
  /\ faults \in 0 .. MaxFaults

Init ==
  /\ token = [h \in Accounts \cup {Market} |-> IF h = Market THEN 0 ELSE Funds]
  /\ allowance = [a \in Accounts |-> Funds]
  /\ feePercent = 5
  /\ listings = <<>> /\ purchases = <<>>
  /\ reputation = [a \in Accounts |-> 0]
  /\ request = [q \in Requests |-> [at |-> "idle", price |-> 0, listingId |-> 0]]
  /\ rows = {}
  /\ fees = <<>> /\ withdrawn = [a \in Accounts |-> 0]
  /\ faults = 0
-----------------------------------------------------------------------------
(* The contract. *)

NewListing(a, p) == [seller |-> a, price |-> p, active |-> TRUE, sales |-> 0]

createListing(a, p) ==
  /\ Len(listings) < MaxListings
  /\ listings' = Append(listings, NewListing(a, p))
  /\ UNCHANGED <<token, allowance, feePercent, purchases, reputation, fees,
                 withdrawn>>

deactivateListing(a, i) ==
  /\ listings[i].seller = a /\ listings[i].active
  /\ listings' = [listings EXCEPT ![i].active = FALSE]
  /\ UNCHANGED <<token, allowance, feePercent, purchases, reputation, fees,
                 withdrawn, request, rows, faults>>

Fee(price) == (feePercent * price) \div 100

(* Variant for mutation runs: the share is rounded as the fee is. *)
SellerShare_Rounded(price) == ((100 - feePercent) * price) \div 100

SellerShare(price) == price - Fee(price)

(* The effects of a purchase, and its two transfers: each is checked by    *)
(* the token, and either both happen or the transaction reverts.           *)
Record(b, i) ==
  LET l == listings[i] IN
  /\ l.price <= token[b] /\ l.price <= allowance[b]
  /\ token' = [token EXCEPT ![b] = @ - SellerShare(l.price) - Fee(l.price),
                            ![l.seller] = @ + SellerShare(l.price),
                            ![Market] = @ + Fee(l.price)]
  /\ allowance' = [allowance EXCEPT ![b] = @ - SellerShare(l.price) - Fee(l.price)]
  /\ purchases' = Append(purchases, [listingId |-> i, buyer |-> b,
                                     paidAmount |-> l.price])
  /\ listings' = [listings EXCEPT ![i].sales = @ + 1]
  /\ reputation' = [reputation EXCEPT ![l.seller] = @ + 1]
  /\ fees' = Append(fees, Fee(l.price))

purchaseDataset(b, i) ==
  /\ Len(purchases) < MaxPurchases
  /\ listings[i].active
  /\ listings[i].seller # b
  /\ Record(b, i)
  /\ UNCHANGED <<feePercent, withdrawn, request, rows, faults>>

(* Variant for mutation runs: any percentage is accepted. *)
setPlatformFee_Any(f) ==
  /\ feePercent' = f
  /\ UNCHANGED <<token, allowance, listings, purchases, reputation, fees,
                 withdrawn, request, rows, faults>>

setPlatformFee(f) ==
  /\ f <= 20
  /\ feePercent' = f
  /\ UNCHANGED <<token, allowance, listings, purchases, reputation, fees,
                 withdrawn, request, rows, faults>>

withdrawFees(a) ==
  /\ token[Market] > 0
  /\ token' = [token EXCEPT ![Market] = 0, ![a] = @ + token[Market]]
  /\ withdrawn' = [withdrawn EXCEPT ![a] = @ + token[Market]]
  /\ UNCHANGED <<allowance, feePercent, listings, purchases, reputation, fees,
                 request, rows, faults>>
-----------------------------------------------------------------------------
(* The resolver. *)

Goto(q, l) == request' = [request EXCEPT ![q].at = l]

(* Variant for mutation runs: the row is stored before the transaction. *)
create_marketplace_listing_RowFirst(q, p) ==
  /\ request[q].at = "idle"
  /\ request' = [request EXCEPT ![q].at = "sent", ![q].price = p]
  /\ rows' = rows \cup {q}
  /\ UNCHANGED <<chainVars, faults>>

(* The input is validated and the transaction sent. *)
create_marketplace_listing(q, p) ==
  /\ request[q].at = "idle"
  /\ request' = [request EXCEPT ![q].at = "sent", ![q].price = p]
  /\ UNCHANGED <<chainVars, rows, faults>>

(* The platform's transaction is mined, whether or not it is awaited.      *)
Mined(q) ==
  /\ request[q].at \in {"sent", "orphan"}
  /\ createListing(Platform, request[q].price)
  /\ request' = [request EXCEPT ![q].listingId = Len(listings'),
       ![q].at = IF @ = "sent" THEN "mined" ELSE "done"]
  /\ UNCHANGED <<rows, faults>>

(* The connection, the receipt or the process is lost.                     *)
CutOff(q) ==
  /\ faults < MaxFaults /\ faults' = faults + 1
  /\ \/ request[q].at = "sent" /\ Goto(q, "orphan")
     \/ request[q].at = "mined" /\ Goto(q, "done")
  /\ UNCHANGED <<chainVars, rows>>

(* The row has listing_id 0, like every other, in a column that is UNIQUE. *)
listing_id(q) == 0

InsertRow(q) ==
  /\ request[q].at = "mined"
  /\ rows' = IF \E r \in rows : listing_id(r) = listing_id(q)
               THEN rows ELSE rows \cup {q}
  /\ Goto(q, "done")
  /\ UNCHANGED <<chainVars, faults>>

Next ==
  \/ \E a \in Accounts, p \in Prices :
       createListing(a, p) /\ UNCHANGED <<request, rows, faults>>
  \/ \E a \in Accounts, i \in DOMAIN listings :
       deactivateListing(a, i) \/ purchaseDataset(a, i)
  \/ \E f \in Fees : setPlatformFee(f)
  \/ \E a \in Accounts : withdrawFees(a)
  \/ \E q \in Requests, p \in Prices : create_marketplace_listing(q, p)
  \/ \E q \in Requests : Mined(q) \/ CutOff(q) \/ InsertRow(q)

Spec == Init /\ [][Next]_vars
-----------------------------------------------------------------------------
Bought(a) == {i \in DOMAIN purchases : purchases[i].buyer = a}
Sold(a) ==
  {i \in DOMAIN purchases : listings[purchases[i].listingId].seller = a}

Paid   == [i \in DOMAIN purchases |-> purchases[i].paidAmount]
Earned == [i \in DOMAIN purchases |-> purchases[i].paidAmount - fees[i]]

(* The counters agree with the log of purchases: sales of a listing and    *)
(* reputation of its seller both count them, by others than the seller.    *)
SalesAgree ==
  /\ \A i \in DOMAIN listings :
       listings[i].sales =
         Cardinality({k \in DOMAIN purchases : purchases[k].listingId = i})
  /\ \A a \in Accounts : reputation[a] = Cardinality(Sold(a))
  /\ \A a \in Accounts : Bought(a) \cap Sold(a) = {}

(* Every token is where the log of purchases says, and the counters say    *)
(* the same.  Whatever the fee was at the time, a buyer has paid the       *)
(* price, the seller has it less the fee, the contract has the fees that   *)
(* were not paid out, and rounding loses nothing (DataMarketplace.sol:111).*)
LedgerExact ==
  /\ SalesAgree
  /\ \A a \in Accounts :
       token[a] = Funds + withdrawn[a] - SumFunctionOnSet(Paid, Bought(a))
                                       + SumFunctionOnSet(Earned, Sold(a))
  /\ token[Market] = SumFunctionOnSet(fees, DOMAIN fees)
                     - SumFunctionOnSet(withdrawn, Accounts)

(* A row stands for a listing that is on the chain, of the platform and    *)
(* with the price that the row shows, whatever was cut off or refused by   *)
(* the UNIQUE column (schema.rs:700).                                      *)
RowsMirrorListings ==
  \A q \in rows :
    /\ request[q].listingId \in DOMAIN listings
    /\ listings[request[q].listingId].seller = Platform
    /\ listings[request[q].listingId].price = request[q].price
=============================================================================
