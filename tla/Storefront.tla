----------------------------- MODULE Storefront -----------------------------
(***************************************************************************)
(* The shop of core-app: the catalogue that on_search messages replace,    *)
(* the two requests of a checkout, the prices that the seller answers with *)
(* and the web sockets on which customers are told.                        *)
(*                                                                         *)
(* Between core-app and the seller lies the relay: a message that was sent *)
(* stays in a set, so that it may arrive late, again, after a later one or *)
(* never.  Web requests, sockets and the listener of the inbox run side by *)
(* side; the listener handles one message at a time, and is given it again *)
(* after a crash.                                                          *)
(***************************************************************************)
EXTENDS Integers, FiniteSetsExt

CONSTANTS
  Providers, Items,
  ProviderOf,  \* [Items -> Providers]
  Prices,      \* amounts in paise that items may cost
  Coupon,      \* the campaign of which every customer has one coupon
  Customers, Sockets,
  MaxTxns,     \* bound: transactions
  MaxBatches,  \* bound: insertions after which no more messages are taken
  MaxChanges,  \* bound: items and providers that the seller changes
  MaxFaults    \* bound: failures and crashes of core-app

Txns == 1..MaxTxns

CouponTerms == [kind : {"amount", "percent"}, value : Int, cap : Int, minimum : Int]

ASSUME StorefrontAssumption ==
  /\ ProviderOf \in [Items -> Providers]
  /\ Providers # {} /\ Customers # {}
  /\ Prices \subseteq Nat
  /\ Coupon \in CouponTerms
  /\ MaxTxns \in Nat /\ MaxBatches \in Nat /\ MaxChanges \in Nat /\ MaxFaults \in Nat

Absent == 0  \* no transaction, no socket

\* An item's document in core-app; each insertion gives it a new id.
Doc == [item : Items, id : Nat]

\* What init and confirm ask for; whole: all ids of the cart were found.
Request == [action : {"init", "confirm"}, txn : Txns, buyer : Customers,
            items : SUBSET Items, whole : BOOLEAN, offer : BOOLEAN]

\* An on_search message: the seller's active providers and their active items.
Catalog == [providers : SUBSET Providers, items : SUBSET Items]

VARIABLES
  \* the seller
  price,    \* [Items -> [listed : Prices, value : Prices]]
  active,   \* items that its catalogue offers
  trading,  \* providers that are in its catalogue
  order,    \* [Txns -> SUBSET Order], at most one
  \* core-app
  sellers,  \* [Providers -> Nat]: documents of a provider
  docs,     \* SUBSET Doc
  batch,    \* insertions so far
  sync,     \* the on_search message that the listener handles
  sessions, \* customers' sockets by connection id
  sock,     \* [Sockets -> [state, owner]]
  \* customers
  cart,     \* [Customers -> [docs, offer]]
  issued,   \* transaction ids that core-app made
  latest,   \* [Customers -> Txns \cup {Absent}]: the transaction of the cart
  screen,   \* [Customers -> Shown]
  gone,     \* sockets whose customer is away
  \* the relay
  searched, catalogs, requests, replies,
  \* history and bounds
  handled,  \* [Providers -> SUBSET Items]: as the last message handled for them
  torn,     \* providers left by a message that was given up since then
  quoted, repriced, mixed, \* transactions
  agreed,   \* [Txns -> amounts that a confirm named]
  newest,   \* [Customers -> sockets]: registered last
  changes, faults

catalogue  == <<sellers, docs, batch, sync, handled, torn>>
connection == <<sessions, sock, gone, newest>>
customer   == <<cart, issued, latest, screen, mixed, agreed>>
seller     == <<price, active, trading, order, quoted, repriced, changes>>
relay      == <<searched, catalogs, requests, replies>>
storeVars  == <<catalogue, connection, customer, seller, relay, faults>>

Fault == faults < MaxFaults /\ faults' = faults + 1

-----------------------------------------------------------------------------
(***************************************************************************)
(* Prices                                                                  *)
(***************************************************************************)

\* n / 100, rounded HALF_UP: away from zero at the half.
HalfUp(n) == IF n >= 0 THEN (n + 50) \div 100 ELSE -((50 - n) \div 100)

Abs(n) == IF n < 0 THEN -n ELSE n

Lesser(m, n) == IF m < n THEN m ELSE n

\* getDiscountFromCoupon on a total that reaches the minimum.
Discount(total) ==
  IF Coupon.kind = "amount" THEN Abs(Coupon.value)
  ELSE Lesser(HalfUp(total * Coupon.value), Abs(Coupon.cap))

Qualifies(total) == total >= Coupon.minimum

Tax(amount) == HalfUp(5 * amount)

\* The price of a quote.
Payable(total, offer) ==
  LET amount == IF offer THEN total - Discount(total) ELSE total
  IN  amount + Tax(amount)

SumOf(f) == MapThenSumSet(LAMBDA x : f[x], DOMAIN f)

Listed(items, q)  == SumOf([i \in items |-> q[i].listed])
Charged(items, q) == SumOf([i \in items |-> q[i].value])

Pricing == [listed : Prices, value : Prices]

\* Every price that there can be.
Totals ==
  {Payable(Listed(S, q), offer) : S \in SUBSET Items, q \in [Items -> Pricing],
                                  offer \in BOOLEAN}
  \cup
  {Payable(Charged(S, q), offer) : S \in SUBSET Items, q \in [Items -> Pricing],
                                   offer \in BOOLEAN}

Order == [buyer : Customers, offer : BOOLEAN, total : Totals, twoPrices : BOOLEAN]
Reply == [kind : {"on_init", "on_confirm"}, txn : Txns, buyer : Customers,
          total : Totals]
Shown == Reply \cup {[kind |-> "nothing"]}

Nothing == [kind |-> "nothing"]

-----------------------------------------------------------------------------
(***************************************************************************)
(* The seller                                                              *)
(***************************************************************************)

\* The administrator saves an item, with other prices or off the catalogue.
AddItem(i) ==
  /\ changes < MaxChanges /\ changes' = changes + 1
  /\ \E p \in Pricing, on \in BOOLEAN :
       /\ price' = [price EXCEPT ![i] = p]
       /\ active' = IF on THEN active \cup {i} ELSE active \ {i}
       /\ repriced' = IF p = price[i] THEN repriced ELSE repriced \cup quoted
  /\ UNCHANGED <<trading, order, quoted, catalogue, connection, customer, relay, faults>>

\* The administrator saves a provider, active or not.
AddProvider(p) ==
  /\ changes < MaxChanges /\ changes' = changes + 1
  /\ trading' \in {trading \cup {p}, trading \ {p}}
  /\ UNCHANGED <<price, active, order, quoted, repriced, catalogue, connection, customer,
                 relay, faults>>

\* The whole catalogue is sent: the active items of the active providers.
HandleSearch ==
  /\ searched
  /\ catalogs' = catalogs \cup
       {[providers |-> trading, items |-> {i \in active : ProviderOf[i] \in trading}]}
  /\ UNCHANGED <<searched, requests, replies, seller, catalogue, connection,
                 customer, faults>>

\* Mutant: the items that were not found are passed over.
AnswerableInPart(m) == TRUE

\* An item without an id throws: the listener drops the request.
Answerable(m) == m.whole

\* An order was paid with the customer's coupon.
Used(c) == \E t \in Txns : \E o \in order[t] : o.offer /\ o.buyer = c

\* A coupon that was used, or is below its minimum, ends in an answer without a
\* message, on which core-app throws: nobody is told.
Accepts(m, total) == m.offer => Qualifies(total) /\ ~Used(m.buyer)

\* init adds listed values.
HandleInit(m) ==
  LET total == Listed(m.items, price) IN
  /\ m.action = "init" /\ Answerable(m) /\ Accepts(m, total)
  /\ replies' = replies \cup {[kind |-> "on_init", txn |-> m.txn, buyer |-> m.buyer,
                               total |-> Payable(total, m.offer)]}
  /\ quoted' = quoted \cup {m.txn}
  /\ UNCHANGED <<price, active, trading, order, repriced, changes, searched, catalogs,
                 requests, catalogue, connection, customer, faults>>

\* The order of a confirm: the one that is there, or one that adds values.
OrderOf(m) ==
  IF order[m.txn] # {} THEN order[m.txn]
  ELSE {[buyer |-> m.buyer, offer |-> m.offer,
         total |-> Payable(Charged(m.items, price), m.offer),
         twoPrices |-> \E i \in m.items : price[i].listed # price[i].value]}

HandleConfirm(m) ==
  /\ m.action = "confirm"
  /\ order[m.txn] # {} \/ (Answerable(m) /\ Accepts(m, Charged(m.items, price)))
  /\ order' = [order EXCEPT ![m.txn] = OrderOf(m)]
  /\ replies' = replies \cup
       {[kind |-> "on_confirm", txn |-> m.txn, buyer |-> m.buyer,
         total |-> o.total] : o \in OrderOf(m)}
  /\ UNCHANGED <<price, active, trading, quoted, repriced, changes, searched, catalogs,
                 requests, catalogue, connection, customer, faults>>

-----------------------------------------------------------------------------
(***************************************************************************)
(* The catalogue of core-app                                               *)
(***************************************************************************)

SyncCatalog ==
  /\ ~searched
  /\ searched' = TRUE
  /\ UNCHANGED <<catalogs, requests, replies, seller, catalogue, connection, customer,
                 faults>>

NoMessage == [step |-> "idle", items |-> {}, named |-> {}, left |-> {}]

SyncSteps == {"idle", "seller", "delete", "insert"}
Sync == [step : SyncSteps, items : SUBSET Items, named : SUBSET Providers,
         left : SUBSET Providers]

At(s) == sync.step = s

\* The provider that the loop is at: any of those that are left.
Current == CHOOSE p \in sync.left : TRUE

DocsOf(p) == {d \in docs : ProviderOf[d.item] = p}

\* handleSearchResponse goes through the providers of a message, if it names any.
TakeCatalog(k) ==
  /\ At("idle") /\ batch < MaxBatches
  /\ k.providers # {}
  /\ sync' = [step |-> "seller", items |-> k.items, named |-> k.providers,
              left |-> k.providers]
  /\ UNCHANGED <<sellers, docs, batch, handled, torn, connection, customer, seller,
                 relay, faults>>

\* Mutant: the seller is saved without a look for it.
SellersAlways(p) == sellers[p] + 1

Sellers(p) == IF sellers[p] = 0 THEN 1 ELSE sellers[p]

AddSeller ==
  /\ At("seller")
  /\ sellers' = [sellers EXCEPT ![Current] = Sellers(Current)]
  /\ sync' = [sync EXCEPT !.step = "delete"]
  /\ UNCHANGED <<docs, batch, handled, torn, connection, customer, seller, relay,
                 faults>>

\* saveSellerItems deletes all items of the provider ...
DeleteItems ==
  /\ At("delete")
  /\ docs' = docs \ DocsOf(Current)
  /\ sync' = [sync EXCEPT !.step = "insert"]
  /\ UNCHANGED <<sellers, batch, handled, torn, connection, customer, seller, relay,
                 faults>>

ItemsOf(p) == {i \in sync.items : ProviderOf[i] = p}

Inserted(p) == {[item |-> i, id |-> batch + 1] : i \in ItemsOf(p)}

\* ... and inserts those of the message, with new ids.
SaveAll ==
  /\ At("insert")
  /\ docs' = docs \cup Inserted(Current)
  /\ batch' = batch + 1
  /\ sync' = IF sync.left = {Current} THEN NoMessage
             ELSE [sync EXCEPT !.step = "seller", !.left = @ \ {Current}]
  /\ handled' = [handled EXCEPT ![Current] = ItemsOf(Current)]
  /\ torn' = torn \ {Current}
  /\ UNCHANGED <<sellers, connection, customer, seller, relay, faults>>

\* An exception: the listener logs it and acknowledges the message.
SyncFails ==
  /\ ~At("idle")
  /\ Fault
  /\ sync' = NoMessage
  /\ torn' = torn \cup sync.left
  /\ UNCHANGED <<sellers, docs, batch, handled, connection, customer, seller, relay>>

-----------------------------------------------------------------------------
(***************************************************************************)
(* Checkout                                                                *)
(***************************************************************************)

\* A customer fills a cart with items of one seller as the shop shows them.
FillCart(c) ==
  /\ \E p \in Providers : \E D \in SUBSET DocsOf(p), offer \in BOOLEAN :
       D # {} /\ cart' = [cart EXCEPT ![c] = [docs |-> D, offer |-> offer]]
  /\ latest' = [latest EXCEPT ![c] = Absent]
  /\ screen' = [screen EXCEPT ![c] = Nothing]
  /\ UNCHANGED <<issued, mixed, agreed, catalogue, connection, seller, relay, faults>>

\* What initiateOrder and confirmOrder send: the seller's ids of the documents that
\* are still there.  Every item is bought once.
Asks(c, action, t) ==
  [action |-> action, txn |-> t, buyer |-> c,
   items |-> {d.item : d \in cart[c].docs \cap docs},
   whole |-> cart[c].docs \subseteq docs, offer |-> cart[c].offer]

\* The customer checks out.
InitiateOrder(c) ==
  LET t == issued + 1 IN
  /\ cart[c].docs # {} /\ issued < MaxTxns
  /\ issued' = t
  /\ requests' = requests \cup {Asks(c, "init", t)}
  /\ \/ /\ latest' = [latest EXCEPT ![c] = t]
        /\ screen' = [screen EXCEPT ![c] = Nothing]
     \/ UNCHANGED <<latest, screen>> \* the proxy's answer is lost
  /\ UNCHANGED <<cart, mixed, agreed, catalogue, connection, seller, searched,
                 catalogs, replies, faults>>

\* The customer accepts the quote on the screen.  It names no transaction: the
\* confirm is one of the cart's transaction, with the amount for the seller to see.
ConfirmOrder(c) ==
  LET t == latest[c] IN
  /\ screen[c].kind = "on_init" /\ t # Absent
  /\ requests' = requests \cup {Asks(c, "confirm", t)}
  /\ agreed' = [agreed EXCEPT ![t] = @ \cup {screen[c].total}]
  /\ mixed' = IF screen[c].txn = t THEN mixed ELSE mixed \cup {t}
  /\ UNCHANGED <<cart, issued, latest, screen, catalogue, connection, seller, searched,
                 catalogs, replies, faults>>

-----------------------------------------------------------------------------
(***************************************************************************)
(* Web sockets                                                             *)
(***************************************************************************)

WsKey(c) == <<"WS", c>>
Keys     == {WsKey(c) : c \in Customers}

SocketStates == {"none", "opening", "open", "closed"}
IsOpen(s)    == sock[s].state \in {"opening", "open"}
Socket(s, t) == sock' = [sock EXCEPT ![s].state = t]

Connect(s, c) ==
  /\ sock[s].state = "none"
  /\ sock' = [sock EXCEPT ![s] = [state |-> "opening", owner |-> c]]
  /\ UNCHANGED <<sessions, gone, newest, catalogue, customer, seller, relay, faults>>

\* Mutant: a socket is stored under the id of its session.
StoredKeyOfSession(s) == <<"id", s>>

\* The key that afterConnectionEstablished stores a socket with.
StoredKey(s) == WsKey(sock[s].owner)

\* afterConnectionEstablished, once the ticket was decrypted and its token found to
\* be the user's: the socket replaces another one of the customer.
Register(s) ==
  /\ sock[s].state = "opening"
  /\ Socket(s, "open")
  /\ sessions' = [k \in DOMAIN sessions \cup {StoredKey(s)} |->
                    IF k = StoredKey(s) THEN s ELSE sessions[k]]
  /\ newest' = [newest EXCEPT ![sock[s].owner] = s]
  /\ UNCHANGED <<gone, catalogue, customer, seller, relay, faults>>

\* Mutant: the key that the socket was stored with.
ClosedKeyOfOwner(s) == WsKey(sock[s].owner)

\* The key that afterConnectionClosed removes: the id of the session.
ClosedKey(s) == <<"id", s>>

AfterClosed(s) ==
  /\ Socket(s, "closed")
  /\ sessions' = [k \in DOMAIN sessions \ {ClosedKey(s)} |-> sessions[k]]
  /\ UNCHANGED <<gone, newest, catalogue, customer, seller, relay, faults>>

\* A ticket that is missing, or of a token that is not the user's latest.
RefuseTicket(s) == sock[s].state = "opening" /\ AfterClosed(s)

Close(s) == sock[s].state = "open" /\ AfterClosed(s)

\* The customer is away and the server does not know yet.
Leave(s) ==
  /\ IsOpen(s) /\ s \notin gone
  /\ gone' = gone \cup {s}
  /\ UNCHANGED <<sessions, sock, newest, catalogue, customer, seller, relay, faults>>

\* sendMessageToConnection finds an open session.
Reaches(key) == key \in DOMAIN sessions /\ IsOpen(sessions[key])

\* handleInitResponse, and the end of handleConfirmResponse: the answer without its
\* context is sent to the customer who has the phone number it was billed to.
ShowAnswer(r) ==
  /\ At("idle")
  /\ IF Reaches(WsKey(r.buyer)) /\ sessions[WsKey(r.buyer)] \notin gone
       THEN screen' = [screen EXCEPT ![r.buyer] = r]
       ELSE UNCHANGED screen
  /\ UNCHANGED <<cart, issued, latest, mixed, agreed, catalogue, connection, seller,
                 relay, faults>>

-----------------------------------------------------------------------------

\* core-app dies: its sockets are closed, the message in hand is delivered again.
CrashShop ==
  /\ Fault
  /\ sock' = [s \in Sockets |->
                IF IsOpen(s) THEN [sock[s] EXCEPT !.state = "closed"] ELSE sock[s]]
  /\ sessions' = << >>
  /\ sync' = IF At("idle") THEN sync
             ELSE [sync EXCEPT !.step = "seller", !.left = sync.named]
  /\ UNCHANGED <<gone, newest, sellers, docs, batch, handled, torn, customer, seller,
                 relay>>

StoreInit ==
  /\ price \in [Items -> Pricing] /\ active \in SUBSET Items
  /\ trading \in SUBSET Providers
  /\ order = [t \in Txns |-> {}]
  /\ sellers = [p \in Providers |-> 0] /\ docs = {} /\ batch = 0 /\ sync = NoMessage
  /\ sessions = << >>
  /\ sock = [s \in Sockets |-> [state |-> "none", owner |-> CHOOSE c \in Customers : TRUE]]
  /\ cart = [c \in Customers |-> [docs |-> {}, offer |-> FALSE]]
  /\ issued = 0
  /\ latest = [c \in Customers |-> Absent]
  /\ screen = [c \in Customers |-> Nothing]
  /\ gone = {}
  /\ searched = FALSE /\ catalogs = {} /\ requests = {} /\ replies = {}
  /\ handled = [p \in Providers |-> {}] /\ torn = {}
  /\ quoted = {} /\ repriced = {} /\ mixed = {}
  /\ agreed = [t \in Txns |-> {}]
  /\ newest = [c \in Customers |-> Absent]
  /\ changes = 0 /\ faults = 0

Catalogue ==
  \/ SyncCatalog \/ AddSeller \/ DeleteItems \/ SaveAll \/ SyncFails
  \/ \E k \in catalogs : TakeCatalog(k)

WebSockets ==
  \E s \in Sockets :
    \/ \E c \in Customers : Connect(s, c)
    \/ Register(s) \/ RefuseTicket(s) \/ Close(s) \/ Leave(s)

Checkout ==
  \/ \E c \in Customers : FillCart(c) \/ InitiateOrder(c) \/ ConfirmOrder(c)
  \/ \E m \in requests : HandleInit(m) \/ HandleConfirm(m)
  \/ \E r \in replies : ShowAnswer(r)

StoreNext ==
  \/ Catalogue \/ Checkout \/ WebSockets
  \/ HandleSearch \/ CrashShop
  \/ \E i \in Items : AddItem(i)
  \/ \E p \in Providers : AddProvider(p)

StoreSpec == StoreInit /\ [][StoreNext]_storeVars

-----------------------------------------------------------------------------
(***************************************************************************)
(* Properties                                                              *)
(***************************************************************************)

\* Every variable of the shop has its type.
StoreTypeOK ==
  /\ price \in [Items -> Pricing] /\ active \subseteq Items /\ trading \subseteq Providers
  /\ order \in [Txns -> SUBSET Order]
  /\ sellers \in [Providers -> Nat] /\ docs \subseteq Doc /\ batch \in Nat
  /\ sync \in Sync
  /\ DOMAIN sessions \subseteq Keys
  /\ \A k \in DOMAIN sessions : sessions[k] \in Sockets
  /\ sock \in [Sockets -> [state : SocketStates, owner : Customers]]
  /\ cart \in [Customers -> [docs : SUBSET Doc, offer : BOOLEAN]]
  /\ issued \in 0..MaxTxns
  /\ latest \in [Customers -> Txns \cup {Absent}]
  /\ screen \in [Customers -> Shown]
  /\ gone \subseteq Sockets
  /\ searched \in BOOLEAN /\ catalogs \subseteq Catalog
  /\ requests \subseteq Request /\ replies \subseteq Reply
  /\ handled \in [Providers -> SUBSET Items] /\ torn \subseteq Providers
  /\ quoted \subseteq Txns /\ repriced \subseteq Txns /\ mixed \subseteq Txns
  /\ agreed \in [Txns -> SUBSET Totals]
  /\ newest \in [Customers -> Sockets \cup {Absent}]
  /\ changes \in 0..MaxChanges /\ faults \in 0..MaxFaults

\* An order costs what its customer was shown and accepted, although nobody compares
\* the two, unless an item has two prices, a price changed after the quote, or the
\* quote on the screen was that of another transaction.
ChargedAsShown ==
  \A t \in Txns : \A o \in order[t] :
    o.total \in agreed[t] \/ o.twoPrices \/ t \in repriced \cup mixed

\* Between messages the shop has of each provider exactly the items of the last
\* message that named it, each once, unless a message that failed had not done with
\* the provider; crashes leave no trace.  A provider has one seller at any time.
ShopIsWhole ==
  /\ \A p \in Providers : sellers[p] <= 1
  /\ sync.step = "idle" =>
       \A p \in Providers \ torn :
         /\ {d.item : d \in DocsOf(p)} = handled[p]
         /\ \A d, e \in DocsOf(p) : d.item = e.item => d = e

\* The customer's socket that was registered last is there and open.
Connected(c) ==
  newest[c] # Absent /\ sock[newest[c]].state = "open" /\ newest[c] \notin gone

\* A customer whose last socket is open would be told of an answer now: however
\* late the sockets before it were closed, the one that is found is that one.
ToldWhileConnected ==
  \A c \in Customers :
    Connected(c) => Reaches(WsKey(c)) /\ sessions[WsKey(c)] = newest[c]

=============================================================================
