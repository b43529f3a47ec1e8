# Verification of the Aloy loyalty platform

Aloy is a loyalty platform on the ONDC/Beckn network. Customers collect points
with orders, exchange points for seller coupons and apply the coupons to later
orders; badges and a customer's profile are NFTs. This directory holds TLA+
models of the code under `src/`, TLC configurations that check them on small
instances, and proofs that TLAPS checks for every value of the constants.

1. [The system](#the-system)
2. [The modules and the code](#the-modules-and-the-code)
3. [What the runs check](#what-the-runs-check)
4. [What is proved](#what-is-proved)
5. [Where the code and its texts disagree](#where-the-code-and-its-texts-disagree)
6. [What is not modelled](#what-is-not-modelled)
7. [How the project grew, and what is left](#how-the-project-grew-and-what-is-left)

## The system

Six processes run from `src/docker-compose-services.yml`, with MongoDB, Redis and
RabbitMQ beside them.

```
customer -- HTTP --> core-app -- HTTP --> bap-proxy -- outbox queue --> bap-network
   ^                    ^  \                  |cache                     |     ^
   | web socket         |   \ task queue      v                     HTTP |     | HTTP
   +--------------------+    v              Redis                        v     |
                        |  nft-service                                 bpp-network
                        |                                               |      ^
                        +------ inbox queue <-- bap-network             v      |
                                                          seller-service queues
```

| component | state | operations | interacts with |
|---|---|---|---|
| core-app, rewards and points (`RewardServiceImpl`, `UserServiceImpl`, `LoyaltyEngineServiceImpl`) | users, coupons, user coupons, retro rewards, badges (MongoDB) | `addPoints`, `purchaseCoupon`, `addRetroReward`, `markCouponUsage`, `addBadge` | HTTP threads and the inbox consumer share the documents; profile tasks go to the task queue |
| core-app, orders and inbox consumer (`RequestHandlerService`, `OrderServiceImpl`) | orders; timers in an executor's memory | `handleSearchResponse`, `handleInitResponse`, `handleConfirmResponse`, `OrderStatusHandler` | inbox queue of bap-network; web sockets |
| core-app, accounts (`UserServiceImpl`) | users | `login`, `createUser`, `addPhoneNumber`, `addAddress`, `addWallet` | task queue |
| core-app, task consumer | wallets, badges | `handleCreateWalletTask`, `handleUpdateProfileNftTask` | nft-service over HTTP |
| core-app, sockets | sessions by customer | open, close, send | customers |
| core-app, shop (`ShopServiceImpl`, `OndcClient`) | none of its own | `initiateOrder`, `confirmOrder`, `syncCatalog` | bap-proxy over HTTP |
| bap-proxy | request entries in Redis | `clientApiRequestHandler` | outbox queue |
| bap-network | request entries in Redis | `bapClientMessageConsumer`, `clientProtocolApiRequestHandler` | registry, bpp-network, inbox queue |
| bpp-network | request entries in Redis | `sellerProtocolApiRequestHandler`, `sellerServiceMessageHandler` | bap-network, the seller's queues |
| seller-service | providers, items, coupons, coupon usages, orders | `handleSearch`, `handleInit`, `handleConfirm`, administration | the seller's queues |
| nft-service | none; the chain's | mint, transfer, update of tokens | the chain |

What is hard here:

* **Whole documents are overwritten.** core-app finds a document, changes the
  object and saves it, without a version, a transaction or a lock. Any two
  threads can undo each other's change.
* **Several saves make one operation,** and the process can stop, or a save
  fail, between any two.
* **Delivery is at least once, at most once, or neither.** The Java consumers
  acknowledge after the handler; the relay reads its queues without
  acknowledgement; HTTP hops retry in two nested loops; the ACK of a request is
  sent before the work is done.
* **Time.** Requests are kept in caches that expire, and a reply without an
  entry is refused.

What makes each part correct, in a sentence: an order is credited once and not
off record; nothing is granted that was not paid for; no coupon code is lost;
the seller sells a transaction once and its offers are true; the relay refuses a
reply only when it is late, multiplies a message by no more than its retries,
and loses none without a fault. A relay server that listens can do its work, and
what reaches a handler was signed by a sender the registry vouched for. A new
customer gets one account, one wallet and one card that shows the customer's
points; the shop has what the seller last said it sells; an order costs what its
customer was shown.

## The modules and the code

| module | models |
|---|---|
| `CoreLedger` | points, coupons, retro rewards and orders of core-app |
| `LoyaltyPromise` | what the ledger promises, without threads, documents or crashes |
| `SellerDesk` | the seller-service's consumer, orders and coupon usages |
| `SellerPromise` | what the seller promises its buyers |
| `RelayPromise` | what the relay promises the two sides it stands between |
| `BecknPost` | one HTTP hop with its two retry loops |
| `BecknRelay` | the three relay processes, two hops (instances of `BecknPost`), caches and queues |
| `RelayBoot` | the start, the configuration, the connections and the deaths of the three relay servers |
| `RelayGate` | the middlewares before their handlers, the registry and its cache |
| `Telemetry` | the events that bap-network collects, posts and keeps in Redis |
| `Onboarding` | login, wallet task, member badge and card of core-app, and the calls of nft-service |
| `MembershipPromise` | what joining the loyalty programme promises |
| `Storefront` | catalogue, checkout, prices and web sockets: core-app, the seller and the relay between them |
| `CoreLedgerProofs`, `SellerDeskProofs`, `BecknPostProofs`, `BecknRelayProofs`, `RelayServersProofs` (`RelayBoot` and `Telemetry`), `RelayGateProofs`, `OnboardingProofs`, `StorefrontProofs` | theorems and their proofs |
| `MCCoreLedger`, `MCSellerDesk`, `MCBecknRelay`, `MCRelayServers`, `MCCoreServices` | small instances for TLC |

The abstract modules stand alone: the detailed ones instantiate them WITH a
refinement mapping and have their specification as a property. `BecknRelay`
composes two `BecknPost` instances with the caches and queues of the relay.
`Storefront` composes core-app's shop with the seller over what `BecknRelay`
shows of the relay: a message may be lost, late or repeated. The ledger's action
`Deliver` and the relay's `Reply` stand for their neighbours. `RelayBoot`,
`RelayGate` and `Telemetry` look at the relay servers from three sides and share
no variable, as do `Onboarding` and `Storefront`; `MCRelayServers` and
`MCCoreServices` put them side by side, and a behaviour follows one of them.

### CoreLedger

Each HTTP thread and the listener thread has a step `pc`, its arguments `job`,
and what it has read: `doc` (a user document), `left` (the codes of a coupon
document). Every `find` and every `save` of the code is one action, so TLC sees
every interleaving of them; what happens between is part of the neighbouring
action. `ReadPoints`/`WritePoints`/`SendTask` are `addPoints` (US:139-148,
RS:134-151) wherever it is called from; `AfterPoints` says where its caller goes
on. A purchase is `BeginPurchase` (the price check), `PickCode`, the three steps
of `addPoints`, `GrantCoupon`, `SaveCoupon`; a confirmation is `TakeConfirm`,
`SaveOrder`, `addPoints`, `MarkCoupon`, `TellCustomer`, `AwardBadge`,
`Acknowledge`. `Crash` empties all memory and queues the message in hand again.

Every find, save and call in between may throw. `RequestThrows` ends an HTTP
request with an error (CoreGlobalExceptionHandler:18-30), `HandlerThrows` the
confirmation: the listener logs the exception and the message is acknowledged with
what has been saved (RabbitMessageConsumer:59-63), `LookupThrows` a message before
its order is saved, by a failure of the database or because it cannot be parsed. A
call that takes effect and then throws is the failure of the call after it. What
may be missing after a failure is remembered: `failed` orders, and `torn`
campaigns, whose purchase ended between the grant and the save of the coupon. A
socket that cannot be written to is `TellCustomer`'s, and stops nothing.

The user of a confirmation is found by the number its billing details carry:
`Holders` are the documents with that number. None (a stale save erased it) or two
of them (`CheckPhone` looks before it saves, like another thread) make the lookup
throw, and the message is given up.

Abstractions. A user document is its two point fields and its phone number. The
inbox is a set: two identical copies that wait together
behave as one whose twin arrives later, and arrivals are counted. A member holds
one ALOY_MEMBER badge and a wallet. Sums of points fit a Java `int`. Coupons and
their codes exist from the start.

### SellerDesk

One listener thread of one service instance takes the head of the queue, which
stays until `Acknowledge`. `handleSearch` and `handleInit` are one step, since
they write nothing. `handleConfirm` is `ConfirmKnown`, `RefuseCoupon`, or
`SaveOrder`, `SaveUsage`, `PublishNew`, each save a step. `Fail` is the catch
block of the listener: the request counts as handled, whatever was done of it.
`Crash` is the other fault: the request is delivered again. `Arrive` may repeat
any request that was sent before, because the relay does.

Abstractions. Prices are the total that a coupon's minimum is compared with:
init adds listed values, confirm adds values, so there are two. Orders get the
next number as id; MongoDB gives a fresh one. An order document keeps the
campaign of its coupon, as the code does (it stores `getCouponId`, not the code).

### BecknPost and BecknRelay

`BecknPost` is `makeBecknRequest` and `callNetwork` for one item: `CallAgain` is
the recursion (and the next subscriber), `Resend` is axios-retry, which
`telemetry.utils.ts:14` installs on the axios instance that `makeBecknRequest`
uses as well. An attempt that was given up counts as `stray`: it may arrive later
or never. `Arrive` is one run of the peer's handler.

`BecknRelay` follows a request: `Receive` (ACK or NACK), `CacheRequest`,
`QueueRequest` in bap-proxy; `TakeRequest`, `RequestSettles` in bap-network;
`RequestArrives`, `CacheAtSeller`, `QueueAtSeller` in bpp-network, where the ACK
does not wait for the last two; then `Reply`, `TakeReply` or `DropReply`,
`ReplyArrives`, `PublishReply` and the way back. Each catch block is an action
(`FailRequest`, `FailAtSeller`, `FailReply`, `StartFails`), each process has a
crash, and an entry may expire at any moment.

Abstractions. Signing, validation and registry lookups only succeed or fail. The
Beckn gateway that fans out a search is a subscriber. Redis and RabbitMQ keep
running; a queue read with `noAck` loses what a dying consumer has taken. An
entry's time to live is not a number: it may be over at any moment, so results
do not depend on its length. What is left out here is what `RelayBoot` and
`RelayGate` are about.

### RelayBoot

`stage` is the step `main` has got to; `ProxyMain`, `BapMain` and `BppMain` are
its orders of steps in the three servers, `ParsesConfig` what the configuration
schemas accept. `ReadConfig` ends the process where the configuration does not
parse (it is read when the module is imported); every other step that throws
leaves the process standing (`Catch`), because `main` catches and logs.
`ConnectBroker`, `AssertQueue` and `ConsumeMessage` are `MQClient`;
`InitializeConnection` and `InitializeResponses` need MongoDB. A broker that stops
either closes its connections, which nobody notices and nobody repairs, or breaks
them, which ends the process: `'error'` has no listener. Queues outlive the broker,
their messages do not. `PublishMessage` says where an acknowledged message goes.
bap-network restarts by itself; bap-proxy and bpp-network run under nodemon,
which waits for someone, so `Restart` and `Redeploy` are never required.

Abstractions. A section of the configuration is the set of its fields. Redis
connects lazily, so an absent Redis does not hold the start. `core-app` and
the seller declare their queues at some time (`OthersDeclare`).

### RelayGate

An exchange is one request and its place in the middlewares. `ProxyRoute`,
`BapRoute` and `BppRoute` are the chains of the three servers: bap-proxy completes
the context, signs and looks itself up; the network servers verify the
authorization header, and the gateway's where there is one, look the sender up again and
validate the message. A lookup is four steps, `CheckCache`, `RegistryReplies`,
`TakeListing` and the write behind it, and it may fail: the registry has no
timeout. The write is not awaited, and where it is rejected the process ends
(`doomed`, `DieOfRejection`). `SetWithExpiry` is rejected for a lifetime that is not
positive, because the listing's `valid_until` passed before the write, and for one
that is NaN, because `valid_until` is not a date (`NotADate`: the schema asks for any
string); `WriteFails` is Redis failing at the write. The gateway's key is looked up
and written by the same code: `GatewayWriteRefused` is what that write adds. `Unit`
is the factor
between the milliseconds of `cache.ttl` and the seconds Redis takes them for.

Abstractions. A signature is the key it was made with. Time advances by units
longer than a round trip within one server, never past an answer in hand. Schema
validation accepts or refuses. The signature's own expiry is not modelled, as the
code does not compare it with the clock.

### Telemetry

`Record` is the end of `bapClientMessageConsumer`, which pushes an event to the
arrays and, when they are full or old, takes them all to post: what it posts is
read *before* the post and the arrays are reset *after* it, and other handlers run
meanwhile. `PushTelemetry`, `PushFails`, `SaveBatch`, `SaveFails` and
`ProcessCache` are the outcomes, `CrashTelemetry` empties the memory. The four
arrays are one, since they are filled, posted and reset together. All default
configurations switch telemetry off.

### Onboarding

A login is a thread: `LookUp` by email, `SaveToken` or `SaveUser`, `SaveUserToken`,
`SendCreateWallet`; then `CheckPhone` and `SavePhone`. A call of `addPoints` is an
`addition` with a thread of its own: `ReadPoints`, `SavePoints`, `SendUpdate`, after
`Purchase` where it is for a coupon, whose price is then subtracted. All of these,
and the wallet's `SaveWallet`, save the whole document over what others have saved
since they read it (`Save`): one may take away a wallet or a number, bring back old
points, or lose an addition. Which users had a field put back by a save that was not
about it is kept in `stale`, by field; `had` keeps the points each user has had, in
their order. `RequestFails` and `AdditionFails` are exceptions between any two
steps. The task consumer is `work`: `TakeCreateWallet`, `CreateWallet` (Okto), `ReadForWallet`,
`SaveWallet`, `AskForCard`, `TakeAnswer`, `AddBadge`; `TakeUpdate` reads the points
for a refresh. `GiveUp` is an exception or a timeout at any of these steps, which the
listener acknowledges. Each
`call` of nft-service is its own thread, which goes on after its caller gave up:
`UploadMetadata`, `CreateNft`, `VerifyCollection`, `TransferNft`, or `UpdateNftUri`.
`NftFails` answers 200 with an error, which core-app takes for a card without an
address (`Unknown`); a later refresh then asks for a mint without a receiver,
which fails at the transfer.

Abstractions. A user document is whether it is saved, has a wallet and has the one
phone number in question, and its available points. Lifetime points are written by
the same saves and shown by the same calls, and left out. An order adds one point and
a coupon costs one. Wallet keys and metadata are left out; a card is the points it
shows, with their place in `had` (`turn`) for the properties. The chain confirms or
refuses.

### Storefront

The listener replaces the catalogue provider by provider: `TakeCatalog`,
`AddSeller`, `DeleteItems`, `SaveAll`, with `SyncFails` (an exception, acknowledged)
and `CrashShop` (delivered again) between any two. `SaveAll` gives each item a new
id, so the ids in a customer's cart go stale. A message names the seller's active
providers (`AddProvider`, `AddItem` change them and their items); core-app leaves
alone what it has of a provider that a message does not name. `FillCart`, `InitiateOrder` and
`ConfirmOrder` are the checkout; ids that are no longer found drop out of the
request, and the seller then throws and does not answer (`Answerable`).
`HandleInit` and `HandleConfirm` are the seller's, with its arithmetic in paise
(`Discount`, `Tax`, `Payable`): init adds listed values and confirm values.
`ShowAnswer` writes to the socket that `sessions` has for the customer, and the
screen does not know which transaction an answer is of. Sockets are stored under
`WsKey` and removed under their own id, in any order.

Abstractions. The relay is growing sets of messages: each may be taken late, again
or never. Every item is bought once, a customer has one coupon, and the coupon's
one use is found in the orders; its marking is `SellerDesk`'s. Prices are any
amounts the seller may set.

## What the runs check

Each passing run has a mutant for every property: a plausible bug in the
definitions (a dropped guard, a swapped order) that makes TLC report it.

| run | shows | bounds, and why they are enough |
|---|---|---|
| `core_ledger` | `TypeOK`; `PointsAreBacked`, `EveryOrderCredited` and `CodesAccountedFor`, each a promise together with the only cause for which it is broken; `PaidBeforeGranted`, `UsedCouponNamesItsOrder`, and `KeepsPromise` (the ledger implements `LoyaltyPromise`) | one user, one campaign with two codes, one reward, one order with a coupon; two HTTP threads and the listener; two requests, two messages, one crash or one failed call. Every hazard of the ledger involves two writers of one document or one fault between two saves, and all kinds of request can be the two |
| `core_ledger_live` | `ConfirmationsAreHandled` | two users and one phone number, one order, one code, two requests, a crash or a failed call |
| `seller_desk` | `TypeOK`, `ConfirmationsAgree`, `NoRequestLost`, `OffersNameUsedCoupons`, `ReuseNeedsFault`, `KeepsPromise` (the desk implements `SellerPromise`) | three transactions, one of which reaches the coupon's minimum at init only; two codes of one campaign; three messages, new or repeated; one fault. A reuse takes a faulty confirm and a second one; the third message is a repetition or a conflicting confirm |
| `seller_desk_live` | `RequestsAreAnswered` | two messages, one fault |
| `beckn_relay` | `TypeOK`, `TimedOutOnlyIfExpired`, `AckedIsHeld`, `KeepsPromise` (the relay implements `RelayPromise`) | one request, one reply, one retry and one resend per call on each hop (four attempts each), one crash. Messages and replies do not interact: every variable is indexed by them |
| `beckn_relay_live` | `AckedIsAnswered` | the same without retries on the way back |
| `relay_servers` | `BootTypeOK`, `StartIsSound`, `LostForACause`; `GateTypeOK`, `HandledIsVouchedFor`, `DiesForACause`, `RefusedForACause`; `TelemetryTypeOK`, `EventsPostedOnce` | boot: one message to each side, two faults, the repository's configurations and, for one server at a time, one that does not parse, lacks the response cache or is meant for another place. Gate: one exchange slot that is used again and again, since exchanges meet only in the cache; two keys, four moments, listings that last, run out or have no date, one outage or failed write, a lifetime of one that Redis takes for two: an entry is written, outlives its listing and expires. Telemetry: four events, batches of two: two synchronisations overlap and events come in between |
| `core_services` | `OnboardingTypeOK`, `AccountsAreDistinct`, `NobodyForgotten`, `BadgesAndCardsAgree`, `CardIsCurrent`, `KeepsPromise` (the onboarding implements `MembershipPromise`), `BecomesMember`; `StoreTypeOK`, `ChargedAsShown`, `ShopIsWhole`, `ToldWhileConnected` | onboarding, with four calls of nft-service, in one of three parts. Accounts: two logins with one email, and the phone number each adds. Points: a member with three calls of `addPoints`, or two and a second login, in any interleaving and with orders and purchases in any order: two refreshes follow a change during the first, an old document brings back points or takes the wallet, and two purchases that overlap leave less than none. Faults: one call of `addPoints` at any time, and one crash, exception or timeout at any step. Every hazard takes two writers of a document, or one failure and a redelivery. Catalogue: messages of two providers, of one or of none: an item or a provider changes between two of them, and one fails or is delivered again. One change and one fault are enough, since providers are handled one at a time. Checkout: two transactions of one customer with an open socket, the coupon used in the first, the catalogue and one price changed meanwhile; a quote is mixed up by two transactions, and a third adds none. Sockets: one transaction told over two sockets in any order of opening and closing, a crash. The coupon is 15 % of at most 400 from 2000 paise; items cost 1050 or 2050, on both sides of its minimum and with a tax to be rounded |
| `core_overdraft`, `core_code_sold_twice`, `core_told_not_credited`, `seller_coupon_reused` | a counterexample each, see below | as the passing runs |

Several properties name a *cause*: a history variable that records the one thing
that may break a promise, at the step where it happens. `PointsAreBacked` says that
a user is overdrawn only if points were lowered between a purchase's two reads
(`undercut`); `CodesAccountedFor` that a code is sold twice only after a purchase of
its campaign ended between its two saves (`torn`) or when two purchases had its
campaign in memory at once (`crowded`), which need not be the two that bought the
code; `EveryOrderCredited` that the orders on record without their points, and not
about to get them, are those that a call failed on (`failed`), and no more than the
crashes beside them; `DiesForACause` that a server dies of a lookup only after a
listing that had run out or had no date, a gateway's listing of that kind, or a
failed write (`cause`), whatever the cache held. `CardIsCurrent` excuses a card by
user: points that changed before the badge was there (`early`), that a save brought
back (`stale.points`), or a second card after a lost wallet (`stale.wallet`); and any
card after a failure. The promise does not excuse the first two: a card shows what
its user had at some time, and no older than what it showed before, also where old
points came back. The violations below show that causes occur, these properties that
there is no other.

`CHECK_DEADLOCK FALSE` stands in every configuration because the bounds on
requests, messages and faults make the system stop when they are used up.
Symmetry is used for HTTP threads and for codes, which nothing orders, and only
in runs without liveness. `MCRelayServers` and `MCCoreServices` let one part move
and hold the others still; their guards on a part only choose which of the bounds
that part uses, and each names what it leaves out.

**Fairness.** `ConfirmationsAreHandled` and `RequestsAreAnswered` assume weak
fairness of the consumer as a whole: the listener container runs one thread per
queue and restarts it; the bounds leave finitely many crashes. Nothing is assumed
of customers, of the arrival of messages or of the executor. `AckedIsAnswered`
assumes weak fairness of each handler's next step (Node runs every continuation),
of settling a post (`httpTimeout` PT3S ends every attempt and the retries are
finite), and of `Reply`: the seller answers what it has, which is
`RequestsAreAnswered` there. No arrival is fair: an attempt may be lost. Its
conclusion is a disjunction on purpose. An acknowledged request is answered, or
it met one of the harms by name (a logged error, an exhausted retry, an expired
entry, a crash), so every fault the relay does not repair is visible in one
definition, `Harmed`, and everything else (late acknowledgements, replies that
come fast, copies, the unawaited `doHandleRequest`) is shown not to lose anything.
`BecomesMember` assumes weak fairness of a login that has saved its user (a servlet
thread runs on), of the task consumer and of each call of nft-service; crashes
and failures are in its conclusion, overwritten documents are not. Customers' requests,
points and phone numbers are not fair.

## What is proved

The proofs assume only the named assumptions of the modules (`SetsAssumption`,
`DataAssumption`, `BoundsAssumption`, `DeskAssumption`, `RelayAssumption`,
`BootAssumption`, `GateAssumption`, `TelemetryAssumption`, `OnboardingAssumption`,
`StorefrontAssumption`): the functions have their domains, the null value is no
member of a set, bounds are naturals. Sets of users, codes, orders, threads,
messages, exchanges, events, logins, items and sockets are arbitrary, and so are
the bounds, which makes the results independent of them.

**CoreLedgerProofs.** `TypeCorrect`, `PointsStayBacked`, `OrdersMissedOnlyByFaults`,
`CodesResoldOnlyForACause`, `GrantsArePaidFor`, `UsedCouponsNameTheirOrder` and
`LedgerKeepsPromise`. No property is inductive by itself, because the future of a
document is in the threads that have read it:

* `TypeInv` adds `JobsFit`: a thread at a step has the arguments of that step;
* `LifetimeInv` adds that every document *in a thread's hands* shows no more
  available than lifetime points, for it may be the next one saved;
* `BackedInv` adds `HoldsBackedDoc`: while nobody undercut its user, a purchase
  between its two reads has compared a document that shows no more than the stored
  one, and past the second read it holds the points it pays with;
* `CreditInv` adds that an order whose credit is pending is recorded and not yet
  credited, and that only one thread, the listener, can be about to credit it;
  `MissedInv` that the orders left without points, save those that an exception gave
  up, can be counted, so that a crash makes them one more at most;
* `CodesInv` adds that the codes missing from a coupon document in hand are sold,
  or are the very code its thread is about to grant;
* `ResaleInv` adds that documents stay in their campaign (`CodesAtHome`), that a
  purchase ends between its two saves only with its campaign in `torn`
  (`CodesInHand`) and, for a campaign without such an end and without a crowd,
  `InOrder`: the only buyer of a campaign holds a code that is still on the shelf, and
  this one alone may be both on the shelf and sold, between the buyer's two saves;
* `PaidInv` adds that request numbers are fresh and that a request past its debit
  stays in `debited` and has granted nothing yet;
* `UsedInv` adds that messages carry the order's own coupon.

`LedgerKeepsPromise` maps each step to one of the promise or to a stutter.

**SellerDeskProofs.** `TypeCorrect`, `ConfirmationsNeverDisagree`,
`RequestsStayUntilHandled`, `OffersAreUsed`, `ReuseIsPaidForByFaults`,
`DeskKeepsPromise`. `OrdersInv` numbers the orders by their count, so a new id is
new. `WorkRecorded` ties the thread to the order it saved and to a usage still free
until it is marked; `CouponsOfOrders` says that no two coupons are used by one
order, so that the answers to all copies of a confirm, which are read from the
orders and the usages at different times, name one order and no two coupons. This is
what the ledger's `Deliver` takes for granted of the messages it is sent.
`RequestsInv` says that whatever was sent waits in the queue until it is handled,
and is handled before it is acknowledged. `UsesCounted` is the accounting behind
`ReuseNeedsFault`: an unmarked code was used at most as often as there were faults,
since only a fault between the two saves makes a use unmarked.

**BecknPostProofs, BecknRelayProofs.** `RelayTypeCorrect`,
`RepliesAreNeverTooEarly`, `RetriesBoundCopies`, `AckedRequestsAreHeld`,
`RelayKeepsPromise`. For a hop, `PostInv` is an account: arrivals, strays, the
attempt on its way and all that may still be sent never exceed
`Calls * (Retries + 1)`; the lemmas are proved once and used for both hops. For the
relay, `CopiesCounted` follows a copy from the hop to the queue, and `CachedFirst`
says that whoever has a copy or a reply comes after the caching of its request, on
each side; this makes `TimedOutOnlyIfExpired` inductive. `AckedIsHeld` is the safety
half of `AckedIsAnswered`, and needs no fairness: at any time an acknowledged request
or one of its replies is held by a queue, an attempt or a handler, unless core-app
has been answered or the request met one of the harms of `Harmed`. Its proof goes
from holder to holder (`HoldersKeep`); what ends without a next holder is a harm
(`FailedStays`, `EndStays`). `RelayKeepsPromise` refines the three processes, their
caches and both hops to a channel with a budget of copies: `RequestsToCome` and
`RepliesToCome` map what the retry loops may still send, and what is at work, to the
budget left. Nothing is delivered that was not accepted or replied, and no more often
than the budget.

**RelayServersProofs.** For the boot, `BootInv` adds to the types what a server at
each stage has already got (`Wired`): a server past a step has read a
configuration that parses, has declared the queues and consumes; no fault takes a
queue back. `Causes` ties a broker or a MongoDB that is away to the count of faults.
This gives `BootTypes`, `SoundStarts` (from `Wiring` and `NoStandstill`) and
`NoSilentLoss`. For the telemetry, `TelemetryInv` follows an event:
`SeenOrLater` says that every handler that is posting holds the events now in
memory, save those recorded since; `KeptUntilDone` that a handler which has
finished has left nothing of its payload in memory; `SharedByOverlap` that two
payloads share an event only if one handler recorded while another was at work;
`PostedByDone` that what was posted was in the payload of a handler that is done. This gives
`TelemetryTypes` and `PostedOnce` (from `Drops` and `Repeats`).

**RelayGateProofs.** `GateTypes`, `Vouching`, `Deaths`, `CausedRefusals`. `World`
relates the clock to the moments at which keys were listed and listings changed;
`Cached` says that an entry outlives the listing of its key by `Unit * Ttl` at most; `Sound` says of every exchange what its place means:
past the verification its signature's key is vouched for, and a listing it has
in hand is as old as its source allows. `Deaths` rests on two more parts: a listing,
at the registry or in hand, whose write would be refused at this moment has been
noted as a cause, when it was listed or when the clock reached its end; any other has
a positive lifetime. `CausedRefusals` is an action property and
follows from the invariant, step by step.

**OnboardingProofs.** `OnboardingTypes`, `Distinct`, `EveryoneInHand`, `Badges`,
`CurrentCards`, `OnboardingKeepsPromise`. The invariant has a part for each resource.
`Emails` and `Phones` say what a thread past its lookup may rely on while nobody
overlapped. `CallsInOrder` numbers the calls, so that a new one is new; `Wallets` says
that a user for whom a card was asked has a wallet on record, and that until the
consumer asks, its user has no card; `Token` ties the consumer's step to the call it
waits for; `Cards` says that the call for the last refresh of a user carries the
points of now, or that one of `addPoints` still owes a task (`Owed`), and that a card
has what its last call carried. `Saving` states once what any save of a whole document
may bring back, and `Documents` that a step writes one document at most.

`NobodyForgotten` is the safety half of `BecomesMember`. A redelivered wallet task is
dropped as soon as its user has a wallet, so one has to show that a wallet always
has a badge coming: `WalletsAreSettled` says it of every document, the stored one and
those in the hands of logins, checks, additions and the consumer, any of which may be saved next
over a later one. Only a failure breaks it, never an overwritten document.
`OnboardingKeepsPromise` rests on `PointsAreLast` and `CardsFollow`: the points of a
document are the last of those its user has had, whoever saved them; a call shows some
of these, and what is under way to the card of an unharmed user is not earlier than
what the card shows. A late answer of nft-service after a timeout, or a second mint
after a lost wallet, are the only ways back.

**StorefrontProofs.** `StoreTypes`, `WholeShops`, `Told`, `Charges`. `Shop` says that
a provider is whole at any time unless the message in hand, or one that was given
up, has not done with it, and that its items are deleted before others are inserted;
`Running` that a redelivery leaves at least as many providers to do; `Found` that the
socket registered last stays where it is found until it closes for good.
`CheckoutInv` follows a price: requests of one transaction ask for the same items
of one cart, a quote is the price of those items unless one changed since, an
accepted sum is a quote of the same transaction or one of another (`mixed`). The
sums themselves stay opaque: equal items at equal prices have equal sums.

Only model-checked: `ConfirmationsAreHandled`, `RequestsAreAnswered`,
`AckedIsAnswered` and `BecomesMember` (liveness under fairness is beyond the
prover), and the four violations. No result speaks of what a recursive or folded
definition computes; `SumOf` is used for the equality of two sums only.

## Where the code and its texts disagree

1. `core_overdraft`. `purchaseCoupon` compares the price with the points of a
   document it read first (RewardServiceImpl:113); the debit reads it again and
   subtracts unchecked. Two purchases spend the same points.
2. `core_code_sold_twice`. The coupon document is saved last (RewardServiceImpl:128);
   two purchases that read it before are granted the same code, and
   `findBySellerCouponId` (an `Optional`) throws from then on.
3. `core_told_not_credited`. A crash after the order is inserted and before its
   points are saved: the repeated message skips the points for good and tells
   the customer of them.
4. `seller_coupon_reused`. A crash after the order is saved and before the
   coupon's usage: the repeated confirm answers from the order, the coupon stays
   unused, and discounts a second order. `ReuseNeedsFault`, proved, is the other
   half: nothing but such a fault does this, and each fault allows one more use.

For the first three the ledger's theorems are the other half: points are overdrawn
only where they were lowered between the two reads of a purchase; a code is sold
again only after a purchase of its campaign that ended between its two saves, or a
crowd at its campaign; an order stays without its points only after a call that failed
in the handling of one of its messages, or a crash, each of which leaves one at most.

Two further things a reader of the code may want to know, which nothing in the
repository's text contradicts: an `on_confirm` repeated by the seller carries no
offers, so a first answer that is lost leaves the coupon marked at the seller and
free at core-app; and two concurrent claims of one Swiggy order are both credited.

## What is not modelled

`PROJECT.json` lists every component with its status.

* **Authentication** of customers: each request is checked by itself against the
  token in the user's document, and nothing is written. Requests and sockets are
  modelled after they were let in; a ticket may be refused at any time.
* **Operator calls at core-app**: `addCoupon` (its coupons exist from the start) and
  `createUser`, which only the test controller calls. The seller's administration
  is modelled, in `SellerDesk` (coupons) and `Storefront` (items and providers).
* **The collection** of badge NFTs is made by an operator's call and exists from
  the start. Badge NFTs are minted by the steps that mint a card.
* **What a message schema accepts**, and the mapping between DTOs: they decide
  nothing the properties speak of. `src/*/schemas` are generated documents.
* **Code that nothing calls**: synchronous responses, `clientProtocolResponseConsumer`,
  bap-proxy's response controller, `ResponseCache.check`, `SyncCache.getData` on
  live paths, `bppContextBuilder`, `nft-service/src/index.ts`, `initializeKeypair`.
* **Numbers**: points fit a Java `int`. A fixed coupon may be larger than the sum it
  is taken from, and the price is then negative: the model computes it as the code
  does, and nothing in the repository says whether it may be.
* **The number of executor threads**: more orders than threads only delay
  `OrderStatusHandler`, and the model's executor has no clock.

Three hazards of `PROJECT.json` have no property: that two concurrent claims of
one Swiggy order are both credited, that an order stays active after a crash, and
that the first-order badge can come twice. Each is a behaviour of the models, and
no text of the repository promises otherwise.

Some facts about the code that the models take as they are: times to live are
computed in milliseconds and passed to Redis as seconds (`redis.utils.ts:56`); the
error of a failed request is recorded by an update that the database driver
rejects (`sync.cache.utils.ts:91`); with `auth: false` a missing authorization
header still ends in an error; the seller does not compare the sum that a confirm
names; its error answer has no message and makes core-app throw, so that nobody
is told; the items of a provider that was switched off stay in the shop and can be
ordered, as neither core-app nor the seller's init and confirm look at it; a badge is recorded without an address where nft-service answers an error.

## How the project grew, and what is left

In this order, most important behaviour first; all of it is done.

1. `CoreLedger`, `LoyaltyPromise` and their proofs.
2. `SellerDesk`, `SellerPromise` and their proofs.
3. `BecknPost`, `BecknRelay` and their proofs.
4. `RelayBoot`, `RelayGate`, `Telemetry` and their proofs.
5. `Onboarding` and its proofs.
6. `Storefront` (catalogue, checkout, prices, sockets) and its proofs.

`LoyaltyPromise`, `SellerPromise`, `RelayPromise` and `MembershipPromise` are
implemented by the models, each with a proof.

What is left is the whole order as one refinement: the ledger's and the seller's
promises joined by the relay's channel, with a theorem that the seller's answers
satisfy what the ledger's `Deliver` assumes of an order's coupon and price; the parts
it needs are `ConfirmationsAgree` at the seller and `RelayKeepsPromise` in between.
`Storefront` covers the prices and the repeated confirm of that path. Then an abstract
specification of a checkout that `Storefront` implements.
