--------------------------- MODULE StorefrontProofs ---------------------------
(***************************************************************************)
(* Proofs about Storefront, for any items, prices, coupon, customers and   *)
(* sockets and any number of transactions, messages and failures: the shop *)
(* is whole between messages, a connected customer is found, and an order  *)
(* costs what was shown unless one of three named things happened.         *)
(***************************************************************************)
EXTENDS Storefront, TLAPS

USE StorefrontAssumption

-----------------------------------------------------------------------------
(***************************************************************************)
(* Prices: sums are never looked into                                      *)
(***************************************************************************)

LEMMA TotalsOfListed ==
  ASSUME NEW S \in SUBSET Items, price \in [Items -> Pricing], NEW offer \in BOOLEAN
  PROVE  Payable(Listed(S, price), offer) \in Totals
BY DEF Totals

LEMMA TotalsOfCharged ==
  ASSUME NEW S \in SUBSET Items, price \in [Items -> Pricing], NEW offer \in BOOLEAN
  PROVE  Payable(Charged(S, price), offer) \in Totals
BY DEF Totals

\* Where no item has two prices, values add up to listed values.
LEMMA OnePrice ==
  ASSUME NEW S, \A i \in S : price[i].listed = price[i].value
  PROVE  Charged(S, price) = Listed(S, price)
<1>1. [i \in S |-> price[i].value] = [i \in S |-> price[i].listed]
  OBVIOUS
<1> QED BY <1>1 DEF Charged, Listed

-----------------------------------------------------------------------------
(***************************************************************************)
(* Types                                                                   *)
(***************************************************************************)

\* The loop over the providers of a message has one to go, and none without a message.
Running ==
  /\ sync.step # "idle" => sync.left # {}
  /\ sync.step = "idle" => sync.left = {}
  /\ sync.left \subseteq sync.named

LEMMA CurrentIsLeft ==
  ASSUME sync.left # {}
  PROVE  Current \in sync.left
BY DEF Current

LEMMA InitTypes == StoreInit => StoreTypeOK /\ Running
<1> SUFFICES ASSUME StoreInit PROVE StoreTypeOK /\ Running
  OBVIOUS
<1> USE DEF StoreInit
<1>1. DOMAIN sessions \subseteq Keys /\ \A k \in DOMAIN sessions : sessions[k] \in Sockets
  <2>1. DOMAIN sessions = {}
    OBVIOUS
  <2> QED BY <2>1
<1>2. sock \in [Sockets -> [state : SocketStates, owner : Customers]]
  <2>1. (CHOOSE c \in Customers : TRUE) \in Customers
    OBVIOUS
  <2> QED BY <2>1 DEF SocketStates
<1>3. sync \in Sync /\ Running
  BY DEF NoMessage, Sync, SyncSteps, Running
<1>4. screen \in [Customers -> Shown]
  BY DEF Shown, Nothing
<1>5. /\ order \in [Txns -> SUBSET Order] /\ sellers \in [Providers -> Nat]
      /\ cart \in [Customers -> [docs : SUBSET Doc, offer : BOOLEAN]]
      /\ latest \in [Customers -> Txns \cup {Absent}]
      /\ agreed \in [Txns -> SUBSET Totals]
      /\ newest \in [Customers -> Sockets \cup {Absent}]
  OBVIOUS
<1>6. issued \in 0..MaxTxns /\ changes \in 0..MaxChanges /\ faults \in 0..MaxFaults
  OBVIOUS
<1> QED BY <1>1, <1>2, <1>3, <1>4, <1>5, <1>6 DEF StoreTypeOK

LEMMA CatalogueTypes ==
  ASSUME StoreTypeOK, Running, Catalogue \/ HandleSearch
  PROVE  StoreTypeOK' /\ Running'
<1> USE DEF StoreTypeOK, Running, Sync, SyncSteps, At
<1>1. CASE SyncCatalog \/ HandleSearch
  <2>1. [providers |-> trading, items |-> {i \in active : ProviderOf[i] \in trading}] \in Catalog
    BY DEF Catalog
  <2>2. catalogs' \subseteq Catalog
    BY <1>1, <2>1 DEF SyncCatalog, HandleSearch
  <2> QED BY <1>1, <2>2 DEF SyncCatalog, HandleSearch, catalogue, connection, customer, seller
<1>2. ASSUME NEW k \in catalogs, TakeCatalog(k) PROVE StoreTypeOK' /\ Running'
  <2>1. k.providers \subseteq Providers /\ k.items \subseteq Items
    BY DEF Catalog
  <2>2. sync' \in Sync /\ Running'
    BY <1>2, <2>1 DEF TakeCatalog
  <2> QED BY <1>2, <2>2 DEF TakeCatalog, connection, customer, seller, relay
<1>3. CASE AddSeller
  <2>1. Current \in Providers
    BY <1>3, CurrentIsLeft DEF AddSeller
  <2>2. sellers' \in [Providers -> Nat]
    BY <1>3, <2>1 DEF AddSeller, Sellers
  <2> QED BY <1>3, <2>2 DEF AddSeller, connection, customer, seller, relay
<1>4. CASE DeleteItems
  BY <1>4 DEF DeleteItems, connection, customer, seller, relay
<1>5. CASE SaveAll
  <2>1. docs' \subseteq Doc
    BY <1>5 DEF SaveAll, Inserted, ItemsOf, Doc
  <2>2. batch' \in Nat
    BY <1>5 DEF SaveAll
  <2>3. handled' \in [Providers -> SUBSET Items] /\ torn' \subseteq Providers
    BY <1>5 DEF SaveAll, ItemsOf
  <2>4. sync' \in Sync /\ Running'
    <3>1. CASE sync.left = {Current}
      <4>1. sync' = NoMessage
        BY <1>5, <3>1 DEF SaveAll
      <4> QED BY <4>1 DEF NoMessage
    <3>2. CASE sync.left # {Current}
      <4>1. sync.left \ {Current} # {}
        BY <1>5, <3>2, CurrentIsLeft DEF SaveAll
      <4>2. sync' = [sync EXCEPT !.step = "seller", !.left = @ \ {Current}]
        BY <1>5, <3>2 DEF SaveAll
      <4> QED BY <4>1, <4>2
    <3> QED BY <3>1, <3>2
  <2> QED BY <1>5, <2>1, <2>2, <2>3, <2>4 DEF SaveAll, connection, customer, seller, relay
<1>6. CASE SyncFails
  BY <1>6 DEF SyncFails, Fault, NoMessage, connection, customer, seller, relay
<1> QED BY <1>1, <1>2, <1>3, <1>4, <1>5, <1>6 DEF Catalogue

LEMMA SellerTypes ==
  ASSUME StoreTypeOK, Running,
         \/ \E i \in Items : AddItem(i)
         \/ \E p \in Providers : AddProvider(p)
         \/ \E m \in requests : HandleInit(m) \/ HandleConfirm(m)
  PROVE  StoreTypeOK' /\ Running'
<1> USE DEF StoreTypeOK, Running
<1>1. ASSUME NEW i \in Items, AddItem(i) PROVE StoreTypeOK' /\ Running'
  BY <1>1 DEF AddItem, catalogue, connection, customer, relay
<1>2. ASSUME NEW m \in requests, HandleInit(m) PROVE StoreTypeOK' /\ Running'
  <2>1. m \in Request
    OBVIOUS
  <2>2. Payable(Listed(m.items, price), m.offer) \in Totals
    BY <2>1, TotalsOfListed DEF Request
  <2>3. replies' \subseteq Reply
    BY <1>2, <2>1, <2>2 DEF HandleInit, Reply, Request
  <2>4. quoted' \subseteq Txns
    BY <1>2, <2>1 DEF HandleInit, Request
  <2> QED BY <1>2, <2>3, <2>4 DEF HandleInit, catalogue, connection, customer
<1>3. ASSUME NEW m \in requests, HandleConfirm(m) PROVE StoreTypeOK' /\ Running'
  <2>1. m \in Request /\ m.txn \in Txns /\ m.buyer \in Customers /\ m.offer \in BOOLEAN
    BY DEF Request
  <2>2. Payable(Charged(m.items, price), m.offer) \in Totals
    BY <2>1, TotalsOfCharged DEF Request
  <2>3. OrderOf(m) \in SUBSET Order
    BY <2>1, <2>2 DEF OrderOf, Order
  <2>4. order' \in [Txns -> SUBSET Order]
    BY <1>3, <2>1, <2>3 DEF HandleConfirm
  <2>5. \A o \in OrderOf(m) : o.total \in Totals
    BY <2>3 DEF Order
  <2>6. replies' \subseteq Reply
    BY <1>3, <2>1, <2>5 DEF HandleConfirm, Reply
  <2> QED BY <1>3, <2>4, <2>6 DEF HandleConfirm, catalogue, connection, customer
<1>4. ASSUME NEW p \in Providers, AddProvider(p) PROVE StoreTypeOK' /\ Running'
  BY <1>4 DEF AddProvider, catalogue, connection, customer, relay
<1> QED BY <1>1, <1>2, <1>3, <1>4

LEMMA NothingIsShown == Nothing \in Shown
BY DEF Shown, Nothing

LEMMA CheckoutTypes ==
  ASSUME StoreTypeOK, Running,
         \/ \E c \in Customers : FillCart(c) \/ InitiateOrder(c) \/ ConfirmOrder(c)
         \/ \E r \in replies : ShowAnswer(r)
  PROVE  StoreTypeOK' /\ Running'
<1> USE DEF StoreTypeOK, Running
<1>1. ASSUME NEW c \in Customers, FillCart(c) PROVE StoreTypeOK' /\ Running'
  <2>1. cart' \in [Customers -> [docs : SUBSET Doc, offer : BOOLEAN]]
    <3>1. PICK D \in SUBSET docs, offer \in BOOLEAN :
            cart' = [cart EXCEPT ![c] = [docs |-> D, offer |-> offer]]
      BY <1>1 DEF FillCart, DocsOf
    <3>2. D \subseteq Doc
      OBVIOUS
    <3> QED BY <3>1, <3>2
  <2>2. latest' \in [Customers -> Txns \cup {Absent}] /\ screen' \in [Customers -> Shown]
    BY <1>1, NothingIsShown DEF FillCart
  <2> QED BY <1>1, <2>1, <2>2 DEF FillCart, catalogue, connection, seller, relay
<1>2. ASSUME NEW c \in Customers, NEW action \in {"init", "confirm"}, NEW t \in Txns
      PROVE  Asks(c, action, t) \in Request
  BY DEF Asks, Request, Doc
<1>3. ASSUME NEW c \in Customers, InitiateOrder(c) PROVE StoreTypeOK' /\ Running'
  <2>1. issued + 1 \in Txns /\ issued' = issued + 1 /\ issued' \in 0..MaxTxns
    BY <1>3 DEF InitiateOrder, Txns
  <2>2. requests' \subseteq Request
    BY <1>2, <1>3, <2>1 DEF InitiateOrder
  <2>3. latest' \in [Customers -> Txns \cup {Absent}] /\ screen' \in [Customers -> Shown]
    <3>1. CASE /\ latest' = [latest EXCEPT ![c] = issued + 1]
               /\ screen' = [screen EXCEPT ![c] = Nothing]
      BY <2>1, <3>1, NothingIsShown
    <3>2. CASE UNCHANGED <<latest, screen>>
      BY <3>2
    <3> QED BY <1>3, <3>1, <3>2 DEF InitiateOrder
  <2> QED BY <1>3, <2>1, <2>2, <2>3 DEF InitiateOrder, catalogue, connection, seller
<1>4. ASSUME NEW c \in Customers, ConfirmOrder(c) PROVE StoreTypeOK' /\ Running'
  <2>1. latest[c] \in Txns
    BY <1>4 DEF ConfirmOrder
  <2>2. requests' \subseteq Request
    BY <1>2, <1>4, <2>1 DEF ConfirmOrder
  <2>3. screen[c].total \in Totals
    BY <1>4 DEF ConfirmOrder, Shown, Nothing, Reply
  <2>4. agreed' \in [Txns -> SUBSET Totals]
    BY <1>4, <2>1, <2>3 DEF ConfirmOrder
  <2>5. mixed' \subseteq Txns
    BY <1>4, <2>1 DEF ConfirmOrder
  <2> QED BY <1>4, <2>2, <2>4, <2>5 DEF ConfirmOrder, catalogue, connection, seller
<1>5. ASSUME NEW r \in replies, ShowAnswer(r) PROVE StoreTypeOK' /\ Running'
  <2>1. r \in Reply /\ r \in Shown /\ r.buyer \in Customers
    BY DEF Reply, Shown
  <2>2. screen' \in [Customers -> Shown]
    BY <1>5, <2>1 DEF ShowAnswer
  <2> QED BY <1>5, <2>2 DEF ShowAnswer, catalogue, connection, seller, relay
<1> QED BY <1>1, <1>3, <1>4, <1>5

LEMMA SocketTypes ==
  ASSUME StoreTypeOK, Running, WebSockets \/ CrashShop
  PROVE  StoreTypeOK' /\ Running'
<1> USE DEF StoreTypeOK, Running
<1>1. ASSUME NEW s \in Sockets, NEW c \in Customers, Connect(s, c)
      PROVE  StoreTypeOK' /\ Running'
  BY <1>1 DEF Connect, SocketStates, catalogue, customer, seller, relay
<1>2. ASSUME NEW s \in Sockets, Register(s) PROVE StoreTypeOK' /\ Running'
  <2>1. StoredKey(s) \in Keys /\ sock[s].owner \in Customers
    BY DEF StoredKey, Keys
  <2>2. DOMAIN sessions' \subseteq Keys /\ \A k \in DOMAIN sessions' : sessions'[k] \in Sockets
    BY <1>2, <2>1 DEF Register
  <2>3. sock' \in [Sockets -> [state : SocketStates, owner : Customers]]
    BY <1>2 DEF Register, Socket, SocketStates
  <2>4. newest' \in [Customers -> Sockets \cup {Absent}]
    BY <1>2, <2>1 DEF Register
  <2> QED BY <1>2, <2>2, <2>3, <2>4 DEF Register, catalogue, customer, seller, relay
<1>3. ASSUME NEW s \in Sockets, AfterClosed(s) PROVE StoreTypeOK' /\ Running'
  <2>1. DOMAIN sessions' \subseteq Keys /\ \A k \in DOMAIN sessions' : sessions'[k] \in Sockets
    BY <1>3 DEF AfterClosed
  <2>2. sock' \in [Sockets -> [state : SocketStates, owner : Customers]]
    BY <1>3 DEF AfterClosed, Socket, SocketStates
  <2> QED BY <1>3, <2>1, <2>2 DEF AfterClosed, catalogue, customer, seller, relay
<1>4. ASSUME NEW s \in Sockets, Leave(s) PROVE StoreTypeOK' /\ Running'
  BY <1>4 DEF Leave, catalogue, customer, seller, relay
<1>5. CASE CrashShop
  <2>1. DOMAIN sessions' = {}
    BY <1>5 DEF CrashShop
  <2>2. sock' \in [Sockets -> [state : SocketStates, owner : Customers]]
    <3>1. sock' = [s \in Sockets |->
                     IF IsOpen(s) THEN [sock[s] EXCEPT !.state = "closed"] ELSE sock[s]]
      BY <1>5 DEF CrashShop
    <3>2. ASSUME NEW s \in Sockets
          PROVE  /\ sock[s] \in [state : SocketStates, owner : Customers]
                 /\ [sock[s] EXCEPT !.state = "closed"] \in [state : SocketStates, owner : Customers]
      BY DEF SocketStates
    <3> QED BY <3>1, <3>2
  <2>3. sync' \in Sync /\ Running'
    BY <1>5 DEF CrashShop, Sync, SyncSteps, At
  <2>4. faults' \in 0..MaxFaults
    BY <1>5 DEF CrashShop, Fault
  <2> QED BY <1>5, <2>1, <2>2, <2>3, <2>4 DEF CrashShop, customer, seller, relay
<1> QED BY <1>1, <1>2, <1>3, <1>4, <1>5 DEF WebSockets, RefuseTicket, Close

LEMMA TypeStep ==
  ASSUME StoreTypeOK, Running, [StoreNext]_storeVars
  PROVE  StoreTypeOK' /\ Running'
<1>1. CASE UNCHANGED storeVars
  BY <1>1 DEF StoreTypeOK, Running, storeVars, catalogue, connection, customer, seller, relay
<1> QED BY <1>1, CatalogueTypes, SellerTypes, CheckoutTypes, SocketTypes
        DEF StoreNext, Checkout

-----------------------------------------------------------------------------
(***************************************************************************)
(* The catalogue                                                           *)
(***************************************************************************)

\* The shop has the items S of one provider, each once.
WholeOf(p, S) ==
  /\ {d.item : d \in DocsOf(p)} = S
  /\ \A d, e \in DocsOf(p) : d.item = e.item => d = e

\* A message is done for the providers that are not left; the items of the provider
\* that it is at are deleted before they are inserted.
Shop ==
  /\ \A p \in Providers : sellers[p] <= 1
  /\ sync.step = "insert" => DocsOf(Current) = {}
  /\ \A p \in Providers \ (torn \cup sync.left) : WholeOf(p, handled[p])

LEMMA ShopImplies == Running /\ Shop => ShopIsWhole
BY DEF Running, Shop, ShopIsWhole, WholeOf

LEMMA InitShop == StoreInit => Shop
<1> SUFFICES ASSUME StoreInit PROVE Shop
  OBVIOUS
<1>1. \A p \in Providers : DocsOf(p) = {}
  BY DEF StoreInit, DocsOf
<1>2. \A p \in Providers : WholeOf(p, handled[p])
  BY <1>1 DEF StoreInit, WholeOf
<1>3. sync.step = "idle"
  BY DEF StoreInit, NoMessage
<1> QED BY <1>2, <1>3 DEF StoreInit, Shop

\* What a step leaves alone stays whole.
LEMMA SameDocs ==
  ASSUME UNCHANGED docs
  PROVE  /\ \A p : DocsOf(p)' = DocsOf(p)
         /\ \A p, k : WholeOf(p, k)' <=> WholeOf(p, k)
BY DEF DocsOf, WholeOf

LEMMA SameShop ==
  ASSUME Shop, UNCHANGED <<sellers, docs, sync, handled, torn>>
  PROVE  Shop'
BY SameDocs DEF Shop, Current, WholeOf, DocsOf

LEMMA CatalogueShop ==
  ASSUME StoreTypeOK, Running, Shop, Catalogue
  PROVE  Shop'
<1> USE DEF At
<1>1. CASE SyncCatalog
  BY <1>1, SameShop DEF SyncCatalog, catalogue
<1>2. ASSUME NEW k \in catalogs, TakeCatalog(k) PROVE Shop'
  <2>1. /\ sync'.step = "seller" /\ sync.left = {}
        /\ UNCHANGED <<sellers, docs, handled, torn>>
    BY <1>2 DEF TakeCatalog, Running
  <2> QED BY <2>1, SameDocs DEF Shop
<1>3. CASE AddSeller
  <2>1. Current \in Providers
    BY <1>3, CurrentIsLeft DEF AddSeller, Running, Sync, StoreTypeOK
  <2>2. \A p \in Providers : sellers'[p] <= 1
    BY <1>3, <2>1 DEF AddSeller, Sellers, Shop, StoreTypeOK
  <2>3. sync'.step = "delete" /\ sync'.left = sync.left /\ UNCHANGED <<docs, handled, torn>>
    BY <1>3 DEF AddSeller, Sync, StoreTypeOK
  <2> QED BY <2>2, <2>3, SameDocs DEF Shop
<1>4. CASE DeleteItems
  <2>1. Current \in sync.left
    BY <1>4, CurrentIsLeft DEF DeleteItems, Running
  <2>2. sync'.left = sync.left /\ UNCHANGED <<sellers, handled, torn>>
    BY <1>4 DEF DeleteItems, Sync, StoreTypeOK
  <2>3. Current' = Current
    BY <2>2 DEF Current
  <2>4. DocsOf(Current)' = {}
    BY <1>4, <2>3 DEF DeleteItems, DocsOf
  <2>5. ASSUME NEW p \in Providers \ (torn \cup sync.left) PROVE WholeOf(p, handled[p])'
    <3>1. DocsOf(p)' = DocsOf(p)
      BY <1>4, <2>1 DEF DeleteItems, DocsOf
    <3> QED BY <2>2, <3>1 DEF Shop, WholeOf
  <2> QED BY <2>2, <2>4, <2>5 DEF Shop
<1>5. CASE SaveAll
  <2>1. PICK c \in Providers : c = Current /\ c \in sync.left
    BY <1>5, CurrentIsLeft DEF SaveAll, Running, Sync, StoreTypeOK
  <2>2. PICK k \in SUBSET Items : k = ItemsOf(c)
    BY DEF ItemsOf, Sync, StoreTypeOK
  <2>3. PICK b \in Nat : b = batch
    BY DEF StoreTypeOK
  <2>4. /\ docs' = docs \cup {[item |-> i, id |-> b + 1] : i \in k}
        /\ handled' = [handled EXCEPT ![c] = k] /\ torn' = torn \ {c}
        /\ UNCHANGED sellers
    BY <1>5, <2>1, <2>2, <2>3 DEF SaveAll, Inserted
  <2>5. DocsOf(c) = {} /\ \A i \in k : ProviderOf[i] = c
    BY <1>5, <2>1, <2>2 DEF SaveAll, Shop, At, ItemsOf
  <2>6. WholeOf(c, k)'
    <3>1. DocsOf(c)' = {[item |-> i, id |-> b + 1] : i \in k}
      BY <2>4, <2>5 DEF DocsOf
    <3>2. \A d \in DocsOf(c)' : d.id = b + 1 /\ d = [item |-> d.item, id |-> b + 1]
      BY <3>1
    <3>3. {d.item : d \in DocsOf(c)'} = k
      <4>1. \A d \in DocsOf(c)' : d.item \in k
        BY <3>1
      <4>2. ASSUME NEW i \in k PROVE \E d \in DocsOf(c)' : d.item = i
        <5>1. [item |-> i, id |-> b + 1] \in DocsOf(c)'
          BY <3>1
        <5> QED BY <5>1
      <4> QED BY <4>1, <4>2
    <3> QED BY <3>2, <3>3 DEF WholeOf
  <2>7. handled'[c] = k /\ \A p \in Providers \ {c} : handled'[p] = handled[p]
    BY <2>4 DEF StoreTypeOK
  <2>8. ASSUME NEW p \in Providers \ (torn \cup sync.left) PROVE WholeOf(p, handled[p])'
    <3>1. DocsOf(p)' = DocsOf(p)
      BY <2>1, <2>4, <2>5 DEF DocsOf
    <3> QED BY <2>1, <2>7, <3>1 DEF Shop, WholeOf
  <2>9. sync'.step # "insert" /\ sync.left \ {c} \subseteq sync'.left
    <3>1. CASE sync.left = {Current}
      BY <1>5, <2>1, <3>1 DEF SaveAll, NoMessage
    <3>2. CASE sync.left # {Current}
      BY <1>5, <2>1, <3>2 DEF SaveAll, Sync, StoreTypeOK
    <3> QED BY <3>1, <3>2
  <2>10. WholeOf(c, handled[c])'
    BY <2>6, <2>7 DEF WholeOf
  <2>11. ASSUME NEW p \in Providers \ (torn' \cup sync'.left) PROVE WholeOf(p, handled[p])'
    <3>1. CASE p = c
      BY <2>10, <3>1
    <3>2. CASE p # c
      BY <2>4, <2>8, <2>9, <3>2
    <3> QED BY <3>1, <3>2
  <2>12. \A p \in Providers : sellers'[p] <= 1
    BY <2>4 DEF Shop
  <2> QED BY <2>9, <2>11, <2>12 DEF Shop
<1>6. CASE SyncFails
  <2>1. /\ sync'.step = "idle" /\ torn' = torn \cup sync.left
        /\ UNCHANGED <<sellers, docs, handled>>
    BY <1>6 DEF SyncFails, NoMessage
  <2> QED BY <2>1, SameDocs DEF Shop
<1> QED BY <1>1, <1>2, <1>3, <1>4, <1>5, <1>6 DEF Catalogue

LEMMA CrashShopWhole ==
  ASSUME StoreTypeOK, Running, Shop, CrashShop
  PROVE  Shop'
<1>1. CASE At("idle")
  BY <1>1, SameShop DEF CrashShop
<1>2. CASE ~At("idle")
  <2>1. /\ sync'.step = "seller" /\ sync.left \subseteq sync'.left
        /\ UNCHANGED <<sellers, docs, handled, torn>>
    BY <1>2 DEF CrashShop, Running, Sync, StoreTypeOK
  <2> QED BY <2>1, SameDocs DEF Shop
<1> QED BY <1>1, <1>2

LEMMA ShopStep ==
  ASSUME StoreTypeOK, Running, Shop, [StoreNext]_storeVars
  PROVE  Shop'
<1>1. CASE \/ UNCHANGED storeVars \/ HandleSearch
           \/ \E i \in Items : AddItem(i)
           \/ \E p \in Providers : AddProvider(p)
  BY <1>1, SameShop DEF storeVars, catalogue, HandleSearch, AddItem, AddProvider
<1>2. CASE Checkout
  BY <1>2, SameShop DEF Checkout, FillCart, InitiateOrder, ConfirmOrder, HandleInit,
     HandleConfirm, ShowAnswer, catalogue
<1>3. CASE WebSockets
  BY <1>3, SameShop DEF WebSockets, Connect, Register, RefuseTicket, Close, AfterClosed,
     Leave, catalogue
<1> QED BY <1>1, <1>2, <1>3, CatalogueShop, CrashShopWhole DEF StoreNext

-----------------------------------------------------------------------------
(***************************************************************************)
(* The web sockets                                                         *)
(***************************************************************************)

\* A socket that was registered is open or closed for good, and the last one of a
\* customer is found while it is open.
Found ==
  \A c \in Customers : newest[c] # Absent =>
    /\ sock[newest[c]].state \in {"open", "closed"}
    /\ sock[newest[c]].state = "open" =>
         WsKey(c) \in DOMAIN sessions /\ sessions[WsKey(c)] = newest[c]

LEMMA FoundImplies == Found => ToldWhileConnected
BY DEF Found, ToldWhileConnected, Connected, Reaches, IsOpen

LEMMA InitFound == StoreInit => Found
BY DEF StoreInit, Found

LEMMA SocketsFound ==
  ASSUME StoreTypeOK, Found, WebSockets \/ CrashShop
  PROVE  Found'
<1> USE DEF StoreTypeOK
<1>1. ASSUME NEW s \in Sockets, NEW c \in Customers, Connect(s, c) PROVE Found'
  BY <1>1 DEF Connect, Found
<1>2. ASSUME NEW s \in Sockets, Register(s) PROVE Found'
  <2>1. PICK o \in Customers : o = sock[s].owner
    OBVIOUS
  <2>2. /\ sock[s].state = "opening" /\ sock' = [sock EXCEPT ![s].state = "open"]
        /\ DOMAIN sessions' = DOMAIN sessions \cup {WsKey(o)}
        /\ \A k \in DOMAIN sessions' : sessions'[k] = IF k = WsKey(o) THEN s ELSE sessions[k]
        /\ newest' = [newest EXCEPT ![o] = s]
    BY <1>2, <2>1 DEF Register, Socket, StoredKey
  <2> SUFFICES ASSUME NEW c \in Customers, newest'[c] # Absent
               PROVE  /\ sock'[newest'[c]].state \in {"open", "closed"}
                      /\ sock'[newest'[c]].state = "open" =>
                           WsKey(c) \in DOMAIN sessions' /\ sessions'[WsKey(c)] = newest'[c]
    BY DEF Found, WsKey
  <2>3. CASE c = o
    BY <2>2, <2>3
  <2>4. CASE c # o
    <3>1. newest'[c] = newest[c] /\ newest[c] \in Sockets /\ newest[c] # s
      BY <2>2, <2>4 DEF Found
    <3>2. WsKey(c) # WsKey(o)
      BY <2>4 DEF WsKey
    <3> QED BY <2>2, <3>1, <3>2 DEF Found
  <2> QED BY <2>3, <2>4
<1>3. ASSUME NEW s \in Sockets, AfterClosed(s) PROVE Found'
  <2>1. \A c \in Customers : WsKey(c) # ClosedKey(s)
    BY DEF WsKey, ClosedKey
  <2>2. /\ DOMAIN sessions' = DOMAIN sessions \ {ClosedKey(s)}
        /\ \A k \in DOMAIN sessions' : sessions'[k] = sessions[k]
        /\ sock' = [sock EXCEPT ![s].state = "closed"] /\ UNCHANGED newest
    BY <1>3 DEF AfterClosed, Socket
  <2> SUFFICES ASSUME NEW c \in Customers, newest[c] # Absent
               PROVE  /\ sock'[newest[c]].state \in {"open", "closed"}
                      /\ sock'[newest[c]].state = "open" =>
                           WsKey(c) \in DOMAIN sessions' /\ sessions'[WsKey(c)] = newest[c]
    BY <2>2 DEF Found, WsKey
  <2> QED BY <2>1, <2>2 DEF Found
<1>4. ASSUME NEW s \in Sockets, Leave(s) PROVE Found'
  BY <1>4 DEF Leave, Found, WsKey
<1>5. CASE CrashShop
  <2>1. /\ \A s \in Sockets : sock'[s].state = IF IsOpen(s) THEN "closed" ELSE sock[s].state
        /\ UNCHANGED newest
    BY <1>5 DEF CrashShop
  <2> QED BY <2>1 DEF Found, IsOpen
<1> QED BY <1>1, <1>2, <1>3, <1>4, <1>5 DEF WebSockets, RefuseTicket, Close

LEMMA FoundStep ==
  ASSUME StoreTypeOK, Found, [StoreNext]_storeVars
  PROVE  Found'
<1>1. CASE UNCHANGED connection
  BY <1>1 DEF connection, Found, WsKey
<1>2. CASE ~UNCHANGED connection
  <2>1. WebSockets \/ CrashShop
    BY <1>2 DEF StoreNext, storeVars, Checkout, Catalogue, FillCart, InitiateOrder,
       ConfirmOrder, HandleInit, HandleConfirm, ShowAnswer, HandleSearch, AddItem, AddProvider,
       SyncCatalog, TakeCatalog, AddSeller, DeleteItems, SaveAll, SyncFails
  <2> QED BY <2>1, SocketsFound
<1> QED BY <1>1, <1>2

-----------------------------------------------------------------------------
(***************************************************************************)
(* The checkout                                                            *)
(***************************************************************************)

\* The requests of one transaction ask for the same, as its customer's cart does
\* while it is the cart's transaction.
Alike(m, n) ==
  m.txn = n.txn =>
    /\ m.buyer = n.buyer /\ m.offer = n.offer
    /\ m.whole /\ n.whole => m.items = n.items

OfCart(m, c) ==
  /\ m.buyer = c /\ m.offer = cart[c].offer
  /\ m.whole => m.items = {d.item : d \in cart[c].docs}

Requested ==
  /\ \A m \in requests : m.txn <= issued
  /\ \A m, n \in requests : Alike(m, n)
  /\ \A c \in Customers : latest[c] # Absent =>
       /\ latest[c] <= issued
       /\ \A m \in requests : m.txn = latest[c] => OfCart(m, c)
       /\ \A d \in Customers : latest[d] = latest[c] => d = c

\* A quote is that of a request at the prices of now, as long as none has changed.
QuoteOf(r, n) ==
  n.txn = r.txn /\ n.whole /\ r.total = Payable(Listed(n.items, price), n.offer)

Quotes ==
  \A r \in replies : r.kind = "on_init" =>
    /\ r.txn \in quoted
    /\ r.txn \notin repriced => \E n \in requests : QuoteOf(r, n)

\* What is on a screen was answered, and what was agreed was on the screen.
Agreed ==
  /\ \A c \in Customers : screen[c].kind # "nothing" => screen[c] \in replies
  /\ \A t \in Txns : \A a \in agreed[t] :
       t \in mixed \/ \E r \in replies : r.kind = "on_init" /\ r.txn = t /\ r.total = a
  /\ \A m \in requests : m.action = "confirm" => agreed[m.txn] # {}

CheckoutInv == Requested /\ Quotes /\ Agreed /\ ChargedAsShown

LEMMA InitCheckout == StoreInit => CheckoutInv
BY DEF StoreInit, CheckoutInv, Requested, Quotes, Agreed, ChargedAsShown, Nothing

\* What checkouts are about.
checkoutVars == <<price, order, cart, issued, latest, screen, requests, replies, quoted,
                  repriced, mixed, agreed>>

LEMMA SameCheckout ==
  ASSUME CheckoutInv, UNCHANGED checkoutVars
  PROVE  CheckoutInv'
<1> USE DEF checkoutVars
<1>1. Requested'
  BY DEF CheckoutInv, Requested, Alike, OfCart
<1>2. Quotes'
  BY DEF CheckoutInv, Quotes, QuoteOf
<1>3. Agreed'
  BY DEF CheckoutInv, Agreed
<1>4. ChargedAsShown'
  BY DEF CheckoutInv, ChargedAsShown
<1> QED BY <1>1, <1>2, <1>3, <1>4 DEF CheckoutInv

LEMMA PricesCheckout ==
  ASSUME StoreTypeOK, CheckoutInv, NEW i \in Items, AddItem(i)
  PROVE  CheckoutInv'
<1>1. UNCHANGED <<order, cart, issued, latest, screen, requests, replies, quoted, mixed,
                  agreed>>
  BY DEF AddItem, customer, relay
<1>2. repriced \subseteq repriced' /\ (price' = price \/ quoted \subseteq repriced')
  BY DEF AddItem, StoreTypeOK
<1>3. Requested' /\ Agreed' /\ ChargedAsShown'
  BY <1>1, <1>2 DEF CheckoutInv, Requested, Alike, OfCart, Agreed, ChargedAsShown
<1>4. Quotes'
  <2>1. CASE price' = price
    BY <1>1, <1>2, <2>1 DEF CheckoutInv, Quotes, QuoteOf
  <2>2. CASE quoted \subseteq repriced'
    BY <1>1, <2>2 DEF CheckoutInv, Quotes
  <2> QED BY <1>2, <2>1, <2>2
<1> QED BY <1>3, <1>4 DEF CheckoutInv

LEMMA InitsCheckout ==
  ASSUME StoreTypeOK, CheckoutInv, NEW m \in requests, HandleInit(m)
  PROVE  CheckoutInv'
<1> DEFINE reply == [kind |-> "on_init", txn |-> m.txn, buyer |-> m.buyer,
                     total |-> Payable(Listed(m.items, price), m.offer)]
<1>1. /\ replies' = replies \cup {reply} /\ quoted' = quoted \cup {m.txn}
      /\ m.whole
      /\ UNCHANGED <<price, order, repriced, requests, cart, issued, latest, screen, mixed,
                     agreed>>
  BY DEF HandleInit, Answerable, customer
<1>2. Requested' /\ Agreed' /\ ChargedAsShown'
  BY <1>1 DEF CheckoutInv, Requested, Alike, OfCart, Agreed, ChargedAsShown
<1>3. Quotes'
  <2> SUFFICES ASSUME NEW r \in replies', r.kind = "on_init"
               PROVE  /\ r.txn \in quoted'
                      /\ r.txn \notin repriced' => \E n \in requests' : QuoteOf(r, n)'
    BY DEF Quotes
  <2>1. CASE r \in replies
    BY <1>1, <2>1 DEF CheckoutInv, Quotes, QuoteOf
  <2>2. CASE r = reply
    <3>1. r.txn = m.txn /\ r.total = Payable(Listed(m.items, price), m.offer)
      BY <2>2
    <3>2. QuoteOf(r, m)
      BY <1>1, <3>1 DEF QuoteOf
    <3>3. QuoteOf(r, m)'
      BY <1>1, <3>2 DEF QuoteOf
    <3> QED BY <1>1, <3>1, <3>3
  <2> QED BY <1>1, <2>1, <2>2
<1> QED BY <1>2, <1>3 DEF CheckoutInv

\* The order of a confirm costs what was agreed, for want of a reason that it does not.
LEMMA ConfirmsCheckout ==
  ASSUME StoreTypeOK, CheckoutInv, NEW m \in requests, HandleConfirm(m)
  PROVE  CheckoutInv'
<1>1. /\ m.action = "confirm"
      /\ order[m.txn] # {} \/ m.whole
      /\ order' = [order EXCEPT ![m.txn] = OrderOf(m)]
      /\ replies' = replies \cup {[kind |-> "on_confirm", txn |-> m.txn, buyer |-> m.buyer,
                                    total |-> o.total] : o \in OrderOf(m)}
      /\ UNCHANGED <<price, quoted, repriced, requests, cart, issued, latest, screen, mixed,
                     agreed>>
  BY DEF HandleConfirm, Answerable, customer
<1>2. m \in Request /\ m.txn \in Txns
  BY DEF StoreTypeOK, Request
<1>3. Requested' /\ Agreed'
  BY <1>1 DEF CheckoutInv, Requested, Alike, OfCart, Agreed
<1>4. Quotes'
  <2>1. \A r \in replies' : r.kind = "on_init" => r \in replies
    BY <1>1
  <2> QED BY <1>1, <2>1 DEF CheckoutInv, Quotes, QuoteOf
<1>5. ASSUME NEW o \in OrderOf(m)
      PROVE  o.total \in agreed[m.txn] \/ o.twoPrices \/ m.txn \in repriced \cup mixed
  <2>1. CASE order[m.txn] # {}
    BY <1>2, <2>1 DEF OrderOf, CheckoutInv, ChargedAsShown
  <2>2. CASE order[m.txn] = {}
    <3> SUFFICES ASSUME m.txn \notin repriced \cup mixed, ~o.twoPrices
                 PROVE  o.total \in agreed[m.txn]
      OBVIOUS
    <3>1. o.total = Payable(Charged(m.items, price), m.offer)
      BY <2>2 DEF OrderOf
    <3>8. ~ \E i \in m.items : price[i].listed # price[i].value
      BY <2>2 DEF OrderOf
    <3>2. Charged(m.items, price) = Listed(m.items, price)
      BY <3>8, OnePrice
    <3>3. PICK a \in agreed[m.txn] : TRUE
      BY <1>1 DEF CheckoutInv, Agreed
    <3>4. PICK r \in replies : r.kind = "on_init" /\ r.txn = m.txn /\ r.total = a
      BY <1>2, <3>3 DEF CheckoutInv, Agreed
    <3>5. PICK n \in requests : QuoteOf(r, n)
      BY <3>4 DEF CheckoutInv, Quotes
    <3>6. n.items = m.items /\ n.offer = m.offer
      BY <1>1, <2>2, <3>4, <3>5 DEF QuoteOf, CheckoutInv, Requested, Alike
    <3>7. a = Payable(Listed(m.items, price), m.offer)
      BY <3>4, <3>5, <3>6 DEF QuoteOf
    <3> QED BY <3>1, <3>2, <3>3, <3>7
  <2> QED BY <2>1, <2>2
<1>6. ChargedAsShown'
  BY <1>1, <1>2, <1>5 DEF CheckoutInv, ChargedAsShown, StoreTypeOK
<1> QED BY <1>3, <1>4, <1>6 DEF CheckoutInv

LEMMA CartsCheckout ==
  ASSUME StoreTypeOK, CheckoutInv, NEW c \in Customers, FillCart(c)
  PROVE  CheckoutInv'
<1>1. /\ \E D, offer : cart' = [cart EXCEPT ![c] = [docs |-> D, offer |-> offer]]
      /\ latest' = [latest EXCEPT ![c] = Absent]
      /\ screen' = [screen EXCEPT ![c] = Nothing]
      /\ UNCHANGED <<price, order, quoted, repriced, requests, replies, issued, mixed, agreed>>
  BY DEF FillCart, seller, relay
<1>2. \A d \in Customers : d # c => cart'[d] = cart[d] /\ latest'[d] = latest[d]
  BY <1>1 DEF StoreTypeOK
<1>3. latest'[c] = Absent
  BY <1>1 DEF StoreTypeOK
<1>4. Requested'
  BY <1>1, <1>2, <1>3 DEF CheckoutInv, Requested, Alike, OfCart
<1>5. \A d \in Customers : screen'[d] = screen[d] \/ screen'[d].kind = "nothing"
  BY <1>1 DEF StoreTypeOK, Nothing
<1>6. Agreed'
  BY <1>1, <1>5 DEF CheckoutInv, Agreed
<1>7. Quotes' /\ ChargedAsShown'
  BY <1>1 DEF CheckoutInv, Quotes, QuoteOf, ChargedAsShown
<1> QED BY <1>4, <1>6, <1>7 DEF CheckoutInv

\* What is asked while all documents are there is what the cart holds.
LEMMA AsksOfCart ==
  ASSUME NEW c \in Customers, NEW action, NEW t
  PROVE  OfCart(Asks(c, action, t), c) /\ Asks(c, action, t).txn = t
                                      /\ Asks(c, action, t).action = action
<1>1. ASSUME cart[c].docs \subseteq docs PROVE cart[c].docs \cap docs = cart[c].docs
  BY <1>1
<1> QED BY <1>1 DEF OfCart, Asks

LEMMA AlikeOfCart ==
  ASSUME NEW c \in Customers, NEW m, NEW n, OfCart(m, c), OfCart(n, c)
  PROVE  Alike(m, n)
BY DEF OfCart, Alike

LEMMA OrdersCheckout ==
  ASSUME StoreTypeOK, CheckoutInv, NEW c \in Customers, InitiateOrder(c)
  PROVE  CheckoutInv'
<1>0. PICK t, a : t = issued + 1 /\ a = Asks(c, "init", t)
  OBVIOUS
<1>1. /\ issued' = t /\ requests' = requests \cup {a}
      /\ UNCHANGED <<price, order, cart, quoted, repriced, replies, mixed, agreed>>
  BY <1>0 DEF InitiateOrder, seller
<1>2. /\ latest' = [latest EXCEPT ![c] = t] /\ screen' = [screen EXCEPT ![c] = Nothing]
      \/ UNCHANGED <<latest, screen>>
  BY <1>0 DEF InitiateOrder
<1>3. issued \in Nat /\ t = issued + 1 /\ t # Absent
  BY <1>0 DEF StoreTypeOK, Absent
<1>4. OfCart(a, c) /\ a.txn = t /\ a.action = "init"
  BY <1>0, AsksOfCart
<1>5. \A m \in requests : m \in Request /\ m.txn \in Int /\ m.txn <= issued
  BY DEF StoreTypeOK, Request, Txns, CheckoutInv, Requested
<1>6. \A m, n \in requests' : Alike(m, n)
  <2>1. Alike(a, a)
    BY DEF Alike
  <2>2. \A m \in requests : m.txn # a.txn
    BY <1>3, <1>4, <1>5
  <2>3. \A m \in requests : Alike(m, a) /\ Alike(a, m)
    BY <2>2 DEF Alike
  <2> QED BY <1>1, <2>1, <2>3 DEF CheckoutInv, Requested
<1>7. \A d \in Customers : latest[d] # Absent => latest[d] \in Nat /\ latest[d] <= issued
  BY DEF StoreTypeOK, Txns, CheckoutInv, Requested
<1>8. \A d \in Customers : latest'[d] = latest[d] \/ (d = c /\ latest'[d] = t)
  BY <1>2 DEF StoreTypeOK
<1>9. ASSUME NEW d \in Customers, latest'[d] # Absent
      PROVE  /\ latest'[d] <= issued'
             /\ \A m \in requests' : m.txn = latest'[d] => OfCart(m, d)'
             /\ \A e \in Customers : latest'[e] = latest'[d] => e = d
  <2>1. CASE latest'[d] = latest[d]
    <3>1. latest[d] <= issued' /\ latest[d] # t
      BY <1>1, <1>3, <1>7, <1>9, <2>1
    <3>2. \A m \in requests' : m.txn = latest'[d] => m \in requests
      BY <1>1, <1>4, <2>1, <3>1
    <3>3. \A m \in requests : m.txn = latest[d] => OfCart(m, d)
      BY <1>9, <2>1 DEF CheckoutInv, Requested
    <3>4. \A e \in Customers : latest'[e] = latest'[d] => latest[e] = latest[d]
      BY <1>8, <2>1, <3>1
    <3> QED BY <1>1, <1>9, <2>1, <3>1, <3>2, <3>3, <3>4 DEF CheckoutInv, Requested, OfCart
  <2>2. CASE d = c /\ latest'[d] = t /\ latest'[d] # latest[d]
    <3>1. \A m \in requests' : m.txn = t => m = a
      BY <1>1, <1>3, <1>5
    <3>2. OfCart(a, c)'
      BY <1>1, <1>4 DEF OfCart
    <3>3. \A e \in Customers : latest'[e] = t => e = c
      BY <1>3, <1>7, <1>8
    <3> QED BY <1>1, <1>3, <2>2, <3>1, <3>2, <3>3 DEF OfCart
  <2> QED BY <1>8, <2>1, <2>2
<1>10. \A m \in requests' : m.txn <= issued'
  BY <1>1, <1>3, <1>4, <1>5
<1>11. Requested'
  BY <1>6, <1>9, <1>10 DEF Requested, Alike, OfCart
<1>12. \A d \in Customers : screen'[d] = screen[d] \/ screen'[d].kind = "nothing"
  BY <1>2 DEF StoreTypeOK, Nothing
<1>13. Agreed'
  BY <1>1, <1>4, <1>12 DEF CheckoutInv, Agreed
<1>14. Quotes' /\ ChargedAsShown'
  BY <1>1 DEF CheckoutInv, Quotes, QuoteOf, ChargedAsShown
<1> QED BY <1>11, <1>13, <1>14 DEF CheckoutInv

LEMMA AcceptsCheckout ==
  ASSUME StoreTypeOK, CheckoutInv, NEW c \in Customers, ConfirmOrder(c)
  PROVE  CheckoutInv'
<1>1. PICK t \in Txns : t = latest[c] /\ t # Absent
  BY DEF ConfirmOrder, StoreTypeOK
<1>0. PICK a : a = Asks(c, "confirm", t)
  OBVIOUS
<1>2. /\ screen[c].kind = "on_init"
      /\ requests' = requests \cup {a}
      /\ agreed' = [agreed EXCEPT ![t] = @ \cup {screen[c].total}]
      /\ mixed' = IF screen[c].txn = t THEN mixed ELSE mixed \cup {t}
      /\ UNCHANGED <<price, order, cart, issued, latest, screen, quoted, repriced, replies>>
  BY <1>0, <1>1 DEF ConfirmOrder, seller
<1>3. OfCart(a, c) /\ a.txn = t /\ a.action = "confirm"
  BY <1>0, AsksOfCart
<1>4. /\ t <= issued
      /\ \A m \in requests : m.txn = t => OfCart(m, c)
      /\ \A d \in Customers : latest[d] = t => d = c
  BY <1>1 DEF CheckoutInv, Requested
<1>5. \A m, n \in requests' : Alike(m, n)
  <2>1. \A m \in requests' : m.txn = t => OfCart(m, c)
    BY <1>2, <1>3, <1>4
  <2>2. \A m, n \in requests' : m.txn = t /\ n.txn = t => Alike(m, n)
    BY <2>1, AlikeOfCart
  <2>3. \A m, n \in requests' : m.txn # n.txn => Alike(m, n)
    BY DEF Alike
  <2> QED BY <1>2, <1>3, <2>2, <2>3 DEF CheckoutInv, Requested
<1>6. ASSUME NEW d \in Customers, latest[d] # Absent
      PROVE  /\ latest[d] <= issued
             /\ \A m \in requests' : m.txn = latest[d] => OfCart(m, d)
             /\ \A e \in Customers : latest[e] = latest[d] => e = d
  BY <1>2, <1>3, <1>4, <1>6 DEF CheckoutInv, Requested
<1>7. \A m \in requests' : m.txn <= issued
  BY <1>2, <1>3, <1>4 DEF CheckoutInv, Requested
<1>8. Requested'
  BY <1>2, <1>5, <1>6, <1>7 DEF Requested, Alike, OfCart
<1>9. Agreed'
  <2>1. screen[c] \in replies
    BY <1>2 DEF CheckoutInv, Agreed
  <2>2. mixed \subseteq mixed' /\ (screen[c].txn = t \/ t \in mixed')
    BY <1>2
  <2>3. \A u \in Txns : agreed'[u] = IF u = t THEN agreed[t] \cup {screen[c].total} ELSE agreed[u]
    BY <1>2 DEF StoreTypeOK
  <2>4. ASSUME NEW u \in Txns, NEW x \in agreed'[u]
        PROVE  u \in mixed' \/ \E r \in replies : r.kind = "on_init" /\ r.txn = u /\ r.total = x
    BY <1>2, <2>1, <2>2, <2>3 DEF CheckoutInv, Agreed
  <2>5. \A m \in requests' : m \in requests \/ m.txn = t
    BY <1>2, <1>3
  <2>6. \A m \in requests : m.txn \in Txns
    BY DEF StoreTypeOK, Request
  <2>7. ASSUME NEW m \in requests', m.action = "confirm" PROVE agreed'[m.txn] # {}
    BY <2>3, <2>5, <2>6, <2>7 DEF CheckoutInv, Agreed
  <2>8. \A d \in Customers : screen'[d].kind # "nothing" => screen'[d] \in replies'
    BY <1>2 DEF CheckoutInv, Agreed
  <2> QED BY <1>2, <2>4, <2>7, <2>8 DEF Agreed
<1>10. Quotes'
  BY <1>2 DEF CheckoutInv, Quotes, QuoteOf
<1>11. ChargedAsShown'
  BY <1>2 DEF CheckoutInv, ChargedAsShown, StoreTypeOK
<1> QED BY <1>8, <1>9, <1>10, <1>11 DEF CheckoutInv

LEMMA AnswersCheckout ==
  ASSUME StoreTypeOK, CheckoutInv, NEW r \in replies, ShowAnswer(r)
  PROVE  CheckoutInv'
<1>1. /\ \A c \in Customers : screen'[c] = screen[c] \/ screen'[c] = r
      /\ UNCHANGED <<price, order, cart, issued, latest, requests, replies, quoted, repriced,
                     mixed, agreed>>
  BY DEF ShowAnswer, seller, relay, StoreTypeOK
<1>2. Agreed'
  BY <1>1 DEF CheckoutInv, Agreed
<1> QED BY <1>1, <1>2 DEF CheckoutInv, Requested, Alike, OfCart, Quotes, QuoteOf, ChargedAsShown

LEMMA CheckoutStep ==
  ASSUME StoreTypeOK, CheckoutInv, [StoreNext]_storeVars
  PROVE  CheckoutInv'
<1>1. CASE \/ UNCHANGED storeVars \/ Catalogue \/ HandleSearch \/ CrashShop
           \/ \E p \in Providers : AddProvider(p)
  BY <1>1, SameCheckout DEF AddProvider, checkoutVars, storeVars, customer, seller, relay, Catalogue,
     SyncCatalog, TakeCatalog, AddSeller, DeleteItems, SaveAll, SyncFails, HandleSearch,
     CrashShop
<1>2. CASE WebSockets
  BY <1>2, SameCheckout DEF checkoutVars, customer, seller, relay, WebSockets, Connect,
     Register, RefuseTicket, Close, AfterClosed, Leave
<1>3. CASE Checkout
  BY <1>3, InitsCheckout, ConfirmsCheckout, CartsCheckout, OrdersCheckout, AcceptsCheckout,
     AnswersCheckout DEF Checkout
<1> QED BY <1>1, <1>2, <1>3, PricesCheckout DEF StoreNext

-----------------------------------------------------------------------------
(***************************************************************************)
(* The theorems                                                            *)
(***************************************************************************)

StoreInv == StoreTypeOK /\ Running /\ Shop /\ Found /\ CheckoutInv

LEMMA StoreInvariance == StoreSpec => []StoreInv
<1>1. StoreInit => StoreInv
  BY InitTypes, InitShop, InitFound, InitCheckout DEF StoreInv
<1>2. StoreInv /\ [StoreNext]_storeVars => StoreInv'
  BY TypeStep, ShopStep, FoundStep, CheckoutStep DEF StoreInv
<1> QED BY <1>1, <1>2, PTL DEF StoreSpec

\* Every variable of the shop keeps its type.
THEOREM StoreTypes == StoreSpec => []StoreTypeOK
<1>1. StoreInv => StoreTypeOK
  BY DEF StoreInv
<1> QED BY <1>1, StoreInvariance, PTL

\* Between messages the shop has of each provider the items of the last message that
\* named it, each once, unless one failed before it was done with the provider:
\* whatever crashes, and however often a message comes.
THEOREM WholeShops == StoreSpec => []ShopIsWhole
<1>1. StoreInv => ShopIsWhole
  BY ShopImplies DEF StoreInv
<1> QED BY <1>1, StoreInvariance, PTL

\* A customer whose last socket is open is found by it, in whichever order the
\* sockets before it close.
THEOREM Told == StoreSpec => []ToldWhileConnected
<1>1. StoreInv => ToldWhileConnected
  BY FoundImplies DEF StoreInv
<1> QED BY <1>1, StoreInvariance, PTL

\* An order costs what was shown and accepted, unless an item has two prices, a price
\* changed after the quote or the quote was that of another transaction.
THEOREM Charges == StoreSpec => []ChargedAsShown
<1>1. StoreInv => ChargedAsShown
  BY DEF StoreInv, CheckoutInv
<1> QED BY <1>1, StoreInvariance, PTL

=============================================================================
