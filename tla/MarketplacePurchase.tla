------------------------ MODULE MarketplacePurchase ------------------------
(***************************************************************************)
(* Purchases on the marketplace: POST /v1/marketplace/purchase of          *)
(* src/src/core/admin_http_platform.inc over four stores, each with its    *)
(* own memory and its own file: listings (marketplace_store.cpp), ledger   *)
(* (economy_ledger.cpp), assets (asset_store.cpp) and inventory            *)
(* (inventory_store.cpp).                                                  *)
(*                                                                         *)
(* The HTTP server answers one request after the other on one thread, so   *)
(* the steps of a purchase are not mixed with other requests.  What can    *)
(* happen between two of them: the write of a store throws, after its      *)
(* memory has changed, and the request ends with "internal-error", past    *)
(* every compensation; or the Core crashes and reads its files again.      *)
(*                                                                         *)
(* The compensations after the escrow is reserved (rollback_fulfillment,   *)
(* release_escrow) are left out because no request reaches them:           *)
(* NothingToCompensate is the property that says why.  Requests that are   *)
(* refused change nothing and are not modelled.                            *)
(***************************************************************************)
EXTENDS EconomyLedger

CONSTANTS
    Listings,     \* listings that may be created, each of an asset of its own
    MaxFailures,  \* bound: writes that throw
    MaxCrashes    \* bound: restarts of the Core

ASSUME ListingsAssumption == Listings # {}
ASSUME SalesAssumption == Sales \subseteq Nat \ {0}   \* drawn in increasing order

VARIABLES
    ledger, ledgerFile,       \* EconomyLedger: memory and file
    listing, listingFile,     \* MarketplaceStore
    assets, assetsFile,       \* AssetStore: the copies made for sales, the listed assets sellers still own
    items, itemsFile,         \* InventoryStore: the items made for sales
    request,                  \* the purchase being answered
    drawn,                    \* how many sale references were drawn
    answered,                 \* history: references whose request was answered with success
    failures, crashes         \* counters of the bounds

memory  == <<ledger, listing, assets, items>>
files   == <<ledgerFile, listingFile, assetsFile, itemsFile>>
history == <<drawn, answered, failures, crashes>>
vars    == <<memory, files, request, history>>

ListingState == {"none", "active", "reserved", "sold", "cancelled"}
MarketplaceListing == [state: ListingState, seller: Users \cup {Nobody},
                       price: Amounts \cup {0}, buyer: Users \cup {Nobody},
                       sale: Sales \cup {0}]
NoListing == [state |-> "none", seller |-> Nobody, price |-> 0, buyer |-> Nobody, sale |-> 0]
AssetInfos == [copies: SUBSET Sales, owned: SUBSET Listings]

Idle == [step |-> "idle", listing |-> CHOOSE l \in Listings : TRUE, buyer |-> Nobody, sale |-> 0]
Step == {"idle", "escrow", "release", "deliver", "item", "complete", "commit"}
Request == [step: Step, listing: Listings, buyer: Users \cup {Nobody}, sale: Sales \cup {0}]

TypeOK ==
    /\ {ledger, ledgerFile} \subseteq Ledgers
    /\ {listing, listingFile} \subseteq [Listings -> MarketplaceListing]
    /\ {assets, assetsFile} \subseteq AssetInfos
    /\ {items, itemsFile} \subseteq SUBSET Sales
    /\ request \in Request
    /\ drawn \in Nat /\ failures \in Nat /\ crashes \in Nat
    /\ answered \subseteq Refs \cup Sales

Init ==
    /\ ledger = EmptyLedger /\ ledgerFile = EmptyLedger
    /\ listing = [l \in Listings |-> NoListing] /\ listingFile = listing
    /\ assets = [copies |-> {}, owned |-> Listings] /\ assetsFile = assets
    /\ items = {} /\ itemsFile = {}
    /\ request = Idle
    /\ drawn = 0 /\ answered = {} /\ failures = 0 /\ crashes = 0

----------------------------------------------------------------------------
(* persist_locked of the four stores: the whole memory of the store goes   *)
(* to a new file that replaces the old one, or the call throws and the old *)
(* file stays.  A request whose write throws ends there.                   *)
WriteLedger  == ledgerFile' = ledger'
WriteListing == listingFile' = listing'
WriteAssets  == assetsFile' = assets'
WriteItems   == itemsFile' = items'

(* load of the four stores, when the Core starts.                          *)
ReadLedger  == ledger' = ledgerFile
ReadListing == listing' = listingFile
ReadAssets  == assets' = assetsFile
ReadItems   == items' = itemsFile

Throws == /\ failures < MaxFailures
          /\ failures' = failures + 1
          /\ request' = Idle
          /\ UNCHANGED <<files, drawn, answered, crashes>>

Answers(ref) == answered' = answered \cup ref /\ request' = Idle
Goes(step)   == request' = [request EXCEPT !.step = step] /\ UNCHANGED answered
Unbothered   == UNCHANGED <<drawn, failures, crashes>>

LedgerWritten(reply)  == reply /\ WriteLedger /\ Unbothered /\ UNCHANGED <<listingFile, assetsFile, itemsFile>>
ListingWritten(reply) == reply /\ WriteListing /\ Unbothered /\ UNCHANGED <<ledgerFile, assetsFile, itemsFile>>
AssetsWritten(reply)  == reply /\ WriteAssets /\ Unbothered /\ UNCHANGED <<ledgerFile, listingFile, itemsFile>>
ItemsWritten(reply)   == reply /\ WriteItems /\ Unbothered /\ UNCHANGED <<ledgerFile, listingFile, assetsFile>>

----------------------------------------------------------------------------
(* Requests that change one store.                                         *)

\* Mutant: a write that throws is ignored and the request answered.
LedgerRequest_IgnoresThrow(ref) ==
    /\ request = Idle
    /\ Answers({ref})
    /\ \/ LedgerWritten(TRUE)
       \/ failures < MaxFailures /\ failures' = failures + 1 /\ UNCHANGED <<files, drawn, crashes>>
    /\ UNCHANGED <<listing, assets, items>>

LedgerRequest(ref) ==
    /\ request = Idle
    /\ LedgerWritten(Answers({ref})) \/ Throws
    /\ UNCHANGED <<listing, assets, items>>

TransferRequest(from, to, amount, ref) ==
    /\ CanTransfer(ledger, from, to, amount, ref)
    /\ ledger' = Transfer(ledger, from, to, amount, ref)
    /\ LedgerRequest(ref)

MintRequest(to, amount, ref) ==
    /\ CanMint(ledger, to, amount, ref)
    /\ ledger' = Mint(ledger, to, amount, ref)
    /\ LedgerRequest(ref)

BurnRequest(from, amount, ref) ==
    /\ CanBurn(ledger, from, amount, ref)
    /\ ledger' = Burn(ledger, from, amount, ref)
    /\ LedgerRequest(ref)

ListingRequest ==
    /\ request = Idle
    /\ ListingWritten(Answers({})) \/ Throws
    /\ UNCHANGED <<ledger, assets, items>>

Created(l, seller, price) ==
    listing' = [listing EXCEPT ![l] = [NoListing EXCEPT !.state = "active", !.seller = seller,
                                                        !.price = price]]

Create(l, seller, price) ==
    /\ listing[l].state = "none"
    /\ l \in assets.owned
    /\ Created(l, seller, price)
    /\ ListingRequest

Cancelled(l) ==
    /\ listing[l].state = "active"
    /\ listing' = [listing EXCEPT ![l].state = "cancelled"]

Cancel(l) == Cancelled(l) /\ ListingRequest

(* POST /v1/assets/transfer without keeping a copy: the listed asset is    *)
(* its seller's no more.                                                   *)
GiveAway(l) ==
    /\ request = Idle
    /\ l \in assets.owned
    /\ assets' = [assets EXCEPT !.owned = @ \ {l}]
    /\ AssetsWritten(Answers({})) \/ Throws
    /\ UNCHANGED <<ledger, listing, items>>

----------------------------------------------------------------------------
(* A purchase, store by store.                                             *)
ReservedFor(l, buyer, sale) ==
    /\ listing[l].state = "active"
    /\ listing[l].seller # buyer
    /\ listing' = [listing EXCEPT ![l].state = "reserved", ![l].buyer = buyer, ![l].sale = sale]

ReservePurchase(l, buyer) ==
    /\ request = Idle
    /\ l \in assets.owned
    /\ drawn + 1 \in Sales
    /\ ReservedFor(l, buyer, drawn + 1)
    /\ UNCHANGED <<ledger, assets, items>>
    /\ \/ /\ WriteListing
          /\ request' = [step |-> "escrow", listing |-> l, buyer |-> buyer, sale |-> drawn + 1]
          /\ drawn' = drawn + 1
          /\ UNCHANGED <<ledgerFile, assetsFile, itemsFile, answered, failures, crashes>>
       \/ /\ failures < MaxFailures
          /\ failures' = failures + 1
          /\ drawn' = drawn + 1
          /\ UNCHANGED <<files, request, answered, crashes>>

Seller == listing[request.listing].seller
Price  == listing[request.listing].price

\* Mutant: a write of the ledger that throws is ignored and the purchase goes on.
ReserveEscrow_IgnoresThrow ==
    /\ request.step = "escrow"
    /\ CanReserve(ledger, request.buyer, Seller, Price, request.sale)
    /\ ledger' = Reserve(ledger, request.buyer, Seller, Price, request.sale)
    /\ Goes("deliver")
    /\ \/ LedgerWritten(TRUE)
       \/ failures < MaxFailures /\ failures' = failures + 1 /\ UNCHANGED <<files, drawn, crashes>>
    /\ UNCHANGED <<listing, assets, items>>

ReserveEscrow ==
    /\ request.step = "escrow"
    /\ CanReserve(ledger, request.buyer, Seller, Price, request.sale)
    /\ ledger' = Reserve(ledger, request.buyer, Seller, Price, request.sale)
    /\ LedgerWritten(Goes("deliver")) \/ Throws
    /\ UNCHANGED <<listing, assets, items>>

RefuseEscrow ==
    /\ request.step = "escrow"
    /\ ~CanReserve(ledger, request.buyer, Seller, Price, request.sale)
    /\ Goes("release")
    /\ UNCHANGED <<memory, files>> /\ Unbothered

RolledBack(l) ==
    listing' = [listing EXCEPT ![l].state = "active", ![l].buyer = Nobody, ![l].sale = 0]

(* release_listing, and the refusal is answered.                           *)
RollbackPurchase ==
    /\ request.step = "release"
    /\ RolledBack(request.listing)
    /\ ListingWritten(Answers({})) \/ Throws
    /\ UNCHANGED <<ledger, assets, items>>

(* AssetStore::transfer with keep: a copy that belongs to the buyer.       *)
Deliver ==
    /\ request.step = "deliver"
    /\ assets' = [assets EXCEPT !.copies = @ \cup {request.sale}]
    /\ AssetsWritten(Goes("item")) \/ Throws
    /\ UNCHANGED <<ledger, listing, items>>

\* Mutant: the seller is paid before the listing is completed.
CreateItem_PaysFirst ==
    /\ request.step = "item"
    /\ items' = items \cup {request.sale}
    /\ ItemsWritten(Goes("commit")) \/ Throws
    /\ UNCHANGED <<ledger, listing, assets>>

(* ensure_root and create_item; both write the same file.                  *)
CreateItem ==
    /\ request.step = "item"
    /\ items' = items \cup {request.sale}
    /\ ItemsWritten(Goes("complete")) \/ Throws
    /\ UNCHANGED <<ledger, listing, assets>>

Matches(l, buyer, sale) ==
    listing[l].state = "reserved" /\ listing[l].buyer = buyer /\ listing[l].sale = sale

CompletePurchase ==
    /\ request.step = "complete"
    /\ Matches(request.listing, request.buyer, request.sale)
    /\ listing' = [listing EXCEPT ![request.listing].state = "sold"]
    /\ ListingWritten(Goes("commit")) \/ Throws
    /\ UNCHANGED <<ledger, assets, items>>

Commit ==
    /\ request.step = "commit"
    /\ CanCommit(ledger, request.sale)
    /\ ledger' = CommitEscrow(ledger, request.sale)
    /\ LedgerWritten(Answers({request.sale})) \/ Throws
    /\ UNCHANGED <<listing, assets, items>>

(* The Core crashes, at any point of a request, and starts again: every    *)
(* store reads its file.                                                   *)
Restart ==
    /\ crashes < MaxCrashes
    /\ crashes' = crashes + 1
    /\ ReadLedger /\ ReadListing /\ ReadAssets /\ ReadItems
    /\ request' = Idle
    /\ UNCHANGED <<files, drawn, answered, failures>>

Next ==
    \/ \E from, to \in Users, amount \in Amounts, ref \in Refs : TransferRequest(from, to, amount, ref)
    \/ \E to \in Users, amount \in Amounts, ref \in Refs : MintRequest(to, amount, ref)
    \/ \E from \in Users, amount \in Amounts, ref \in Refs : BurnRequest(from, amount, ref)
    \/ \E l \in Listings, seller \in Users, price \in Amounts : Create(l, seller, price)
    \/ \E l \in Listings : Cancel(l) \/ GiveAway(l)
    \/ \E l \in Listings, buyer \in Users : ReservePurchase(l, buyer)
    \/ ReserveEscrow \/ RefuseEscrow \/ RollbackPurchase
    \/ Deliver \/ CreateItem \/ CompletePurchase \/ Commit
    \/ Restart

Spec == Init /\ [][Next]_vars

----------------------------------------------------------------------------
(* Money neither appears nor disappears, in memory and in the file, and    *)
(* the journal accounts for every balance - whichever writes throw and     *)
(* whenever the Core restarts (economy_ledger.cpp, every operation).       *)
MoneyConserved == Balanced(ledger) /\ Balanced(ledgerFile)

(* Whoever is paid has delivered, in the files: a restart at any time      *)
(* finds the buyer's copy, the item and a sold listing wherever it finds   *)
(* the seller's money (the order of the writes of a purchase).             *)
PaidIsDelivered ==
    \A s \in Sales : ledgerFile.escrow[s].state = "committed" =>
        /\ s \in assetsFile.copies /\ s \in itemsFile
        /\ \E l \in Listings : /\ listingFile[l].state = "sold" /\ listingFile[l].sale = s
                               /\ listingFile[l].buyer = ledgerFile.escrow[s].buyer

(* Nobody gets goods without having paid, in memory or after a restart:    *)
(* the copy for a sale exists only with the buyer's money in escrow or     *)
(* already the seller's.                                                   *)
GoodsArePaidFor ==
    \A s \in Sales :
        /\ s \in assets.copies \cup items => ledger.escrow[s].state # "none"
        /\ s \in assetsFile.copies \cup itemsFile => ledgerFile.escrow[s].state # "none"

(* A request that was answered with success survives: its reference is in  *)
(* the ledger's file for ever, whatever fails later.                       *)
AnsweredIsDurable ==
    \A ref \in answered : \E e \in ledgerFile.entries : e.ref = ref /\ e.kind # "escrow_reserve"

(* Why the compensations behind the escrow are never needed: the listing   *)
(* is still this purchase's when it is completed, and the wallet that had  *)
(* room when the escrow was reserved has room when it is committed.        *)
NothingToCompensate ==
    /\ request.step \in {"deliver", "item", "complete"} =>
           Matches(request.listing, request.buyer, request.sale)
    /\ request.step \in {"deliver", "item", "complete", "commit"} => CanCommit(ledger, request.sale)
    /\ request.step = "deliver" => request.listing \in assets.owned

============================================================================
