----------------------------- MODULE NftMarket -----------------------------
(***************************************************************************)
(* One NFT in the NFT service (src/go/nft_service/main.go): its listings   *)
(* and an auction.  BuyNFT, PlaceBid and EndAuction are transactions that  *)
(* lock what they read.  ListNFT, CancelListing and CreateAuction read,    *)
(* check and then write in separate statements, so sales, bids and each    *)
(* other come between.                                                     *)
(***************************************************************************)
EXTENDS Integers

CONSTANTS
    Traders,
    Listings,       \* nft_listings rows
    MaxBid          \* bound: bids, and the start price

ASSUME MarketAssumption == MaxBid \in Nat /\ "none" \notin Traders \cup Listings

VARIABLES
    nft,            \* owner and is_for_sale of the nft_tokens row
    listings,       \* seller and status of each listing
    auction,        \* the nft_auctions row
    task,           \* the request of each trader that is between two statements
    sales,          \* history: nft_transactions of each listing
    lastBuyer,      \* history: the buyer of the last of them, or the minter
    highest,        \* history: the highest bid that was accepted, with its bidder
    dropped         \* history: the listings cancelled before they were sold

marketVars == <<nft, listings, auction, task, sales, lastBuyer, highest, dropped>>

NoTask == [op |-> "none", of |-> "none"]
NoAuction == [status |-> "none", start |-> 0, bid |-> 0, bidder |-> "none"]

Begin(u, op, l) ==
    /\ task[u] = NoTask
    /\ task' = [task EXCEPT ![u] = [op |-> op, of |-> l]]
    /\ UNCHANGED <<nft, listings, auction, sales, lastBuyer, highest, dropped>>

Continue(u, from, to) ==
    /\ task[u].op = from
    /\ task' = [task EXCEPT ![u] = IF to = "none" THEN NoTask ELSE [@ EXCEPT !.op = to]]
    /\ UNCHANGED <<sales, lastBuyer, highest>>

MintNFT(u) ==
    /\ nft.owner = "none"
    /\ \E forSale \in BOOLEAN : nft' = [owner |-> u, forSale |-> forSale]
    /\ lastBuyer' = u
    /\ UNCHANGED <<listings, auction, task, sales, highest, dropped>>

(***************************************************************************)
(* Listings                                                                *)
(***************************************************************************)

ListNFT(u, l) ==
    /\ nft.owner = u /\ listings[l].status = "none"
    /\ Begin(u, "insert_listing", l)

InsertListing(u) ==
    LET l == task[u].of
    IN  /\ Continue(u, "insert_listing", "show")
        /\ listings[l].status = "none"
        /\ listings' = [listings EXCEPT ![l] = [seller |-> u, status |-> "active"]]
        /\ UNCHANGED <<nft, auction, dropped>>

ShowForSale(u) ==
    /\ Continue(u, "show", "none")
    /\ nft' = [nft EXCEPT !.forSale = TRUE]
    /\ UNCHANGED <<listings, auction, dropped>>

(* Mutant of BuyNFT: a listing that is not active is bought too.           *)
BuyNFTAnyStatus(u, l) ==
    /\ listings[l].status # "none"
    /\ listings' = [listings EXCEPT ![l].status = "sold"]
    /\ nft' = [owner |-> u, forSale |-> FALSE]
    /\ sales' = [sales EXCEPT ![l] = IF @ < 2 THEN @ + 1 ELSE @]
    /\ lastBuyer' = u
    /\ UNCHANGED <<auction, task, highest, dropped>>

(* The listing is locked first; who owns the NFT is not looked at. *)
BuyNFT(u, l) ==
    /\ listings[l].status = "active"
    /\ listings' = [listings EXCEPT ![l].status = "sold"]
    /\ nft' = [owner |-> u, forSale |-> FALSE]
    /\ sales' = [sales EXCEPT ![l] = @ + 1]
    /\ lastBuyer' = u
    /\ UNCHANGED <<auction, task, highest, dropped>>

CancelListing(u, l) ==
    /\ listings[l] = [seller |-> u, status |-> "active"]
    /\ Begin(u, "cancel", l)

(* The UPDATE does not look at the status again. *)
MarkCancelled(u) ==
    /\ Continue(u, "cancel", "hide")
    /\ listings' = [listings EXCEPT ![task[u].of].status = "cancelled"]
    /\ dropped' = {l \in Listings : l \in dropped \/ (l = task[u].of /\ sales[l] = 0)}
    /\ UNCHANGED <<nft, auction>>

HideFromSale(u) ==
    /\ Continue(u, "hide", "none")
    /\ nft' = [nft EXCEPT !.forSale = FALSE]
    /\ UNCHANGED <<listings, auction, dropped>>

(***************************************************************************)
(* The auction                                                             *)
(***************************************************************************)

(* The code would take a second auction of the NFT; one row is a bound. *)
CreateAuction(u) ==
    /\ nft.owner = u /\ auction = NoAuction
    /\ Begin(u, "insert_auction", "none")

(* A start price that is not written as an integer counts as 0 later on. *)
InsertAuction(u, start) ==
    /\ Continue(u, "insert_auction", "show")
    /\ auction = NoAuction
    /\ auction' = [status |-> "active", start |-> start, bid |-> start, bidder |-> "none"]
    /\ UNCHANGED <<nft, listings, dropped>>

PlaceBid(u, amount) ==
    /\ auction.status = "active"
    /\ amount > auction.bid
    /\ auction' = [auction EXCEPT !.bid = amount, !.bidder = u]
    /\ highest' = IF amount > highest.bid THEN [bid |-> amount, bidder |-> u] ELSE highest
    /\ UNCHANGED <<nft, listings, task, sales, lastBuyer, dropped>>

(* A bid after the end time ends the auction, and so does anyone who calls *)
(* EndAuction, at any time.                                                *)
EndAuction ==
    /\ auction.status = "active"
    /\ auction' = [auction EXCEPT !.status = "ended"]
    /\ UNCHANGED <<nft, listings, task, sales, lastBuyer, highest, dropped>>

(* A statement fails, or the process dies, and the rest is not done. *)
Abandon(u) ==
    /\ task[u] # NoTask
    /\ task' = [task EXCEPT ![u] = NoTask]
    /\ UNCHANGED <<nft, listings, auction, sales, lastBuyer, highest, dropped>>

MarketInit ==
    /\ nft = [owner |-> "none", forSale |-> FALSE]
    /\ listings = [l \in Listings |-> [seller |-> "none", status |-> "none"]]
    /\ auction = NoAuction
    /\ task = [u \in Traders |-> NoTask]
    /\ sales = [l \in Listings |-> 0]
    /\ lastBuyer = "none"
    /\ highest = [bid |-> 0, bidder |-> "none"]
    /\ dropped = {}

MarketNext ==
    \/ \E u \in Traders :
          \/ MintNFT(u)
          \/ \E l \in Listings : ListNFT(u, l) \/ BuyNFT(u, l) \/ CancelListing(u, l)
          \/ InsertListing(u) \/ ShowForSale(u)
          \/ MarkCancelled(u) \/ HideFromSale(u)
          \/ CreateAuction(u)
          \/ \E price \in 0 .. MaxBid : InsertAuction(u, price) \/ PlaceBid(u, price)
          \/ Abandon(u)
    \/ EndAuction

MarketSpec == MarketInit /\ [][MarketNext]_marketVars

MarketTypeOK ==
    /\ nft \in [owner : Traders \cup {"none"}, forSale : BOOLEAN]
    /\ listings \in [Listings -> [seller : Traders \cup {"none"},
                                  status : {"none", "active", "sold", "cancelled"}]]
    /\ auction \in [status : {"none", "active", "ended"}, start : 0 .. MaxBid,
                    bid : 0 .. MaxBid, bidder : Traders \cup {"none"}]
    /\ task \in [Traders -> [op : {"none", "insert_listing", "show", "cancel", "hide",
                                   "insert_auction"}, of : Listings \cup {"none"}]]
    /\ sales \in [Listings -> 0 .. 2]
    /\ lastBuyer \in Traders \cup {"none"}
    /\ highest \in [bid : 0 .. MaxBid, bidder : Traders \cup {"none"}]
    /\ dropped \subseteq Listings

(* Listings, cancellations, sales and bids may overtake each other, yet    *)
(* the NFT belongs to the buyer of its last sale, a listing is sold at     *)
(* most once and never after it was cancelled unsold (a cancel that read   *)
(* it as active may still be written over a sale), and the auction shows   *)
(* the highest bid that was accepted and who made it.                      *)
MarketExplained ==
    /\ nft.owner = lastBuyer
    /\ \A l \in Listings :
          /\ sales[l] <= 1
          /\ listings[l].status = "sold" => sales[l] = 1
          /\ listings[l].status = "active" => sales[l] = 0
          /\ l \in dropped => listings[l].status = "cancelled" /\ sales[l] = 0
    /\ auction.bidder = highest.bidder
    /\ auction.bidder # "none" => auction.bid = highest.bid

=============================================================================
