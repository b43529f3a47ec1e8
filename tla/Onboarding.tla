----------------------------- MODULE Onboarding -----------------------------
(***************************************************************************)
(* How a customer becomes a member: the login of core-app creates the      *)
(* account and queues a task; the task consumer has Okto make a wallet,    *)
(* has nft-service mint the member card into it and records the badge;     *)
(* each call of addPoints, for an order or for a coupon that is bought,    *)
(* queues a task that rewrites the card.                                   *)
(*                                                                         *)
(* Requests and addPoints run in threads of their own and save whole       *)
(* documents, the points among the rest, over what others have saved since *)
(* they were read.  The tasks run one after the other in one consumer that *)
(* acknowledges what fails; nft-service goes on with what its caller has   *)
(* given up; core-app crashes, and an unacknowledged task is delivered     *)
(* again.                                                                  *)
(***************************************************************************)
EXTENDS Integers, Sequences, FiniteSets

CONSTANTS
  Logins,       \* requests to log in with Google; each may create a user
  EmailOf,      \* [Logins -> emails]
  MaxAdditions, \* bound: calls of addPoints
  MaxCalls,     \* bound: calls of nft-service
  MaxFailures   \* bound: crashes of core-app, exceptions and timeouts

ASSUME OnboardingAssumption ==
  /\ Logins # {} /\ IsFiniteSet(Logins)
  /\ MaxAdditions \in Nat /\ MaxCalls \in Nat /\ MaxFailures \in Nat

Users == Logins  \* a user by the login that created it
Calls == 1..MaxCalls
Additions == 1..MaxAdditions

None    == 0            \* no badge
Unknown == MaxCalls + 1 \* a badge whose nftAddress is null

\* What of a user's document matters here; phone: it has the number at hand.
Document == [saved : BOOLEAN, wallet : BOOLEAN, phone : BOOLEAN, points : Int]

Blank == [saved |-> FALSE, wallet |-> FALSE, phone |-> FALSE, points |-> 0]

VARIABLES
  doc,      \* [Users -> Document] in MongoDB
  badge,    \* [Users -> {None, Unknown} \cup Calls]: the member badge
  thread,   \* [Logins -> Thread]: a login and what the customer does next
  create,   \* users with a CREATE_WALLET task in the queue
  update,   \* [Users -> Nat]: UPDATE_PROFILE_NFT tasks in the queue
  addition, \* [Additions -> Addition]: calls of addPoints
  work,     \* the task consumer
  call,     \* [Calls -> Call] of nft-service
  card,     \* [Users -> Face]: what the member card shows
  \* history and bounds
  had,      \* [Users -> Seq(Int)]: the points that a user has had, in their order
  stale,    \* users to whom a save gave back an older wallet, number or points
  failures,
  emailRace, phoneRace, \* two checks for a duplicate overlapped
  early     \* users whose points changed before they had a badge

documents == <<doc, had, stale>>
queue     == <<create, update>>
nft       == <<call, card>>
history   == <<failures, emailRace, phoneRace, early>>
onboardingVars == <<documents, badge, thread, queue, addition, work, nft, history>>

Steps == {"none", "fresh", "saved", "registered", "known", "in", "checked", "failed"}

Thread == [step : Steps, user : Users, copy : Document]

\* A call of addPoints: for a purchase the points have been compared with the price.
Addition == [step : {"none", "priced", "read", "saved", "done"}, user : Users,
             amount : {1, -1}, copy : Document]

\* The consumer's steps: reading the document, asking Okto, saving the wallet,
\* waiting for nft-service, adding the badge.
Work == [step : {"idle", "okto", "read", "save", "ask", "wait", "add"},
         task : {"wallet", "card"}, user : Users, copy : Document,
         asked : {None} \cup Calls, token : {None, Unknown} \cup Calls]

CallSteps == {"none", "upload", "create", "verify", "send", "sent", "update",
              "updated", "failed"}

\* The points on a card; turn: which of those that the user has had they are.
Face == [points : Int, turn : Nat]

First == [points |-> 0, turn |-> 1]

Call == [step : CallSteps, user : Users, shows : Face, receiver : BOOLEAN]

Fail == failures < MaxFailures /\ failures' = failures + 1

Step(l, s) == thread' = [thread EXCEPT ![l].step = s]

-----------------------------------------------------------------------------
(***************************************************************************)
(* Login                                                                   *)
(***************************************************************************)

\* Mutant: findByEmail finds nobody.
FoundNobody(l) == {}

\* The users with the email of a login.
Found(l) == {u \in Users : doc[u].saved /\ EmailOf[u] = EmailOf[l]}

\* findByEmailAndActiveIsTrue throws where it finds two.
LookUp(l) ==
  /\ thread[l].step = "none"
  /\ \/ /\ Found(l) = {}
        /\ Step(l, "fresh")
        /\ emailRace' = (emailRace \/ \E k \in Logins \ {l} :
                           thread[k].step = "fresh" /\ EmailOf[k] = EmailOf[l])
     \/ \E u \in Found(l) :
          /\ IF Found(l) = {u}
               THEN thread' = [thread EXCEPT ![l] = [step |-> "known", user |-> u,
                                                     copy |-> doc[u]]]
               ELSE Step(l, "failed")
          /\ UNCHANGED emailRace
  /\ UNCHANGED <<documents, badge, queue, addition, work, nft, failures, phoneRace,
                 early>>

Write(u, new) ==
  /\ doc' = [doc EXCEPT ![u] = new]
  /\ had' = IF new.points = doc[u].points THEN had
            ELSE [had EXCEPT ![u] = Append(@, new.points)]

Mark(users, u, undone) == IF undone THEN users \cup {u} ELSE users

\* A document is saved whole, over what others have saved since it was read: a field
\* that the save was not about gets back what it held then.
Save(u, copy, new) ==
  /\ Write(u, new)
  /\ stale' =
       [wallet |-> Mark(stale.wallet, u, new.wallet = copy.wallet /\ doc[u].wallet # new.wallet),
        phone  |-> Mark(stale.phone, u, new.phone = copy.phone /\ doc[u].phone # new.phone),
        points |-> Mark(stale.points, u, new.points = copy.points /\ doc[u].points # new.points)]

\* A login of a user who is there saves the new tokens.
SaveToken(l) ==
  /\ thread[l].step = "known"
  /\ Save(thread[l].user, thread[l].copy, thread[l].copy)
  /\ Step(l, "in")
  /\ UNCHANGED <<badge, queue, addition, work, nft, history>>

NewDocument == [saved |-> TRUE, wallet |-> FALSE, phone |-> FALSE, points |-> 0]

SaveUser(l) ==
  /\ thread[l].step = "fresh"
  /\ Write(l, NewDocument)
  /\ thread' = [thread EXCEPT ![l] = [step |-> "saved", user |-> l,
                                      copy |-> NewDocument]]
  /\ UNCHANGED <<stale, badge, queue, addition, work, nft, history>>

\* The token is made of the id and saved with the user, a second time.
SaveUserToken(l) ==
  /\ thread[l].step = "saved"
  /\ Save(l, thread[l].copy, thread[l].copy)
  /\ Step(l, "registered")
  /\ UNCHANGED <<badge, queue, addition, work, nft, history>>

\* Mutant: the task is not queued.
SendNothing(l) ==
  /\ thread[l].step = "registered"
  /\ Step(l, "in")
  /\ UNCHANGED <<documents, badge, queue, addition, work, nft, history>>

SendCreateWallet(l) ==
  /\ thread[l].step = "registered"
  /\ create' = create \cup {l}
  /\ Step(l, "in")
  /\ UNCHANGED <<documents, badge, update, addition, work, nft, history>>

-----------------------------------------------------------------------------
(***************************************************************************)
(* The phone number and points                                             *)
(***************************************************************************)

\* Mutant: only the user's own number is looked at.
PhoneFreeForUser(u) == ~doc[u].phone

PhoneFree(u) == \A k \in Users : ~doc[k].phone

\* addPhoneNumber reads the user and looks whether anybody has the number.
CheckPhone(l) ==
  LET u == thread[l].user IN
  /\ thread[l].step = "in"
  /\ PhoneFree(u)
  /\ thread' = [thread EXCEPT ![l].step = "checked", ![l].copy = doc[u]]
  /\ phoneRace' = (phoneRace \/ \E k \in Logins \ {l} : thread[k].step = "checked")
  /\ UNCHANGED <<documents, badge, queue, addition, work, nft, failures, emailRace,
                 early>>

SavePhone(l) ==
  /\ thread[l].step = "checked"
  /\ Save(thread[l].user, thread[l].copy, [thread[l].copy EXCEPT !.phone = TRUE])
  /\ Step(l, "in")
  /\ UNCHANGED <<badge, queue, addition, work, nft, history>>

\* Calls of addPoints are numbered as they come.
Comes(k) ==
  /\ addition[k].step = "none"
  /\ \A j \in Additions : j < k => addition[j].step # "none"

\* purchaseCoupon compares the points with the price, and then has it added, negative.
Purchase(k) ==
  /\ Comes(k)
  /\ \E u \in Users :
       /\ doc[u].saved /\ doc[u].points >= 1
       /\ addition' = [addition EXCEPT ![k] = [step |-> "priced", user |-> u,
                                              amount |-> -1, copy |-> Blank]]
  /\ UNCHANGED <<documents, badge, thread, queue, work, nft, history>>

\* addPoints reads the document, for an order or a purchase.
ReadPoints(k) ==
  /\ \/ /\ Comes(k)
        /\ \E u \in Users :
             /\ doc[u].saved
             /\ addition' = [addition EXCEPT ![k] = [step |-> "read", user |-> u,
                                                    amount |-> 1, copy |-> doc[u]]]
     \/ /\ addition[k].step = "priced"
        /\ addition' = [addition EXCEPT ![k].step = "read", ![k].copy = doc[addition[k].user]]
  /\ UNCHANGED <<documents, badge, thread, queue, work, nft, history>>

SavePoints(k) ==
  LET a == addition[k] IN
  /\ a.step = "read"
  /\ Save(a.user, a.copy, [a.copy EXCEPT !.points = @ + a.amount])
  /\ addition' = [addition EXCEPT ![k].step = "saved"]
  /\ UNCHANGED <<badge, thread, queue, work, nft, history>>

\* Mutant: no task is queued.
SendNoUpdate(k) ==
  LET u == addition[k].user IN
  /\ addition[k].step = "saved"
  /\ addition' = [addition EXCEPT ![k].step = "done"]
  /\ early' = IF badge[u] = None THEN early \cup {u} ELSE early
  /\ UNCHANGED <<documents, badge, thread, queue, work, nft, failures, emailRace, phoneRace>>

\* Then a task is queued, if there is a badge to update.
SendUpdate(k) ==
  LET u == addition[k].user IN
  /\ addition[k].step = "saved"
  /\ addition' = [addition EXCEPT ![k].step = "done"]
  /\ IF badge[u] = None
       THEN early' = early \cup {u} /\ UNCHANGED update
       ELSE update' = [update EXCEPT ![u] = @ + 1] /\ UNCHANGED early
  /\ UNCHANGED <<documents, badge, thread, create, work, nft, failures, emailRace, phoneRace>>

-----------------------------------------------------------------------------
(***************************************************************************)
(* Exceptions: of MongoDB, or of the broker at the sending of a task       *)
(***************************************************************************)

RequestFails(l) ==
  /\ Fail
  /\ thread[l].step \in {"fresh", "saved", "registered", "known", "checked"}
  /\ Step(l, "failed")
  /\ UNCHANGED <<documents, badge, queue, addition, work, nft, emailRace, phoneRace, early>>

AdditionFails(k) ==
  /\ Fail
  /\ addition[k].step \in {"priced", "read", "saved"}
  /\ addition' = [addition EXCEPT ![k].step = "done"]
  /\ UNCHANGED <<documents, badge, thread, queue, work, nft, emailRace, phoneRace, early>>

-----------------------------------------------------------------------------
(***************************************************************************)
(* The task consumer                                                       *)
(***************************************************************************)

AnyUser == CHOOSE u \in Users : TRUE

Idle == [step |-> "idle", task |-> "card", user |-> AnyUser, copy |-> Blank,
         asked |-> None, token |-> None]

Working(s) == work.step = s

\* Mutant: a task delivered again is done again.
NeedsWalletAlways(u) == TRUE

NeedsWallet(u) == ~doc[u].wallet

\* CREATE_WALLET: for a user who has a wallet the task is over.
TakeCreateWallet(u) ==
  /\ Working("idle") /\ u \in create
  /\ IF NeedsWallet(u)
       THEN work' = [Idle EXCEPT !.step = "okto", !.task = "wallet", !.user = u] /\ UNCHANGED create
       ELSE create' = create \ {u} /\ UNCHANGED work
  /\ UNCHANGED <<documents, badge, thread, update, addition, nft, history>>

\* Authentication, PIN and wallet at Okto.
CreateWallet ==
  /\ Working("okto")
  /\ work' = [work EXCEPT !.step = "read"]
  /\ UNCHANGED <<documents, badge, thread, queue, addition, nft, history>>

\* addWallet reads the user once more, and saves.
ReadForWallet ==
  /\ Working("read")
  /\ work' = [work EXCEPT !.step = "save", !.copy = doc[work.user]]
  /\ UNCHANGED <<documents, badge, thread, queue, addition, nft, history>>

SaveWallet ==
  /\ Working("save")
  /\ Save(work.user, work.copy, [work.copy EXCEPT !.wallet = TRUE])
  /\ work' = [work EXCEPT !.step = "ask"]
  /\ UNCHANGED <<badge, thread, queue, addition, nft, history>>

\* createOrUpdateProfileNft of NftServiceClient posts a card without an address
\* and puts one that has an address.
Ask(u, shows, receiver) ==
  \E c \in Calls :
    /\ c = Cardinality({k \in Calls : call[k].step # "none"}) + 1
    /\ call' = [call EXCEPT ![c] = [step |-> "upload", user |-> u, shows |-> shows,
                                    receiver |-> receiver]]
    /\ work' = [work EXCEPT !.step = "wait", !.user = u, !.asked = c]

AskForCard ==
  /\ Working("ask")
  /\ Ask(work.user, First, TRUE)
  /\ UNCHANGED <<documents, badge, thread, queue, addition, card, history>>

\* What a card is asked to show of a user.
FaceNow(u) == [points |-> doc[u].points, turn |-> Len(had[u])]

\* UPDATE_PROFILE_NFT reads the points that the user has by now.  It names no
\* receiver, so that a badge without an address has a card minted for nobody.
TakeUpdate(u) ==
  /\ Working("idle") /\ update[u] > 0
  /\ Ask(u, FaceNow(u), FALSE)
  /\ UNCHANGED <<documents, badge, thread, queue, addition, card, history>>

\* Mutant: a wallet's task is taken from the other queue as well.
FinishBoth ==
  /\ work' = Idle
  /\ create' = create \ {work.user}
  /\ update' = [update EXCEPT ![work.user] = @ - 1]

\* The task is acknowledged.
Finish ==
  /\ work' = Idle
  /\ IF work.task = "wallet"
       THEN create' = create \ {work.user} /\ UNCHANGED update
       ELSE update' = [update EXCEPT ![work.user] = @ - 1] /\ UNCHANGED create

\* Mutant: nft-service answers before the card is transferred.
AnsweredEarly(c) == c.step \in {"send", "sent", "updated", "failed"}

\* nft-service answers when all its steps are done, or one has failed.
Answered(c) == c.step \in {"sent", "updated", "failed"}

\* The answer: the card's address, or an error that is read as no address.
TakeAnswer ==
  LET c == call[work.asked] IN
  /\ Working("wait")
  /\ Answered(c)
  /\ IF work.task = "wallet"
       THEN /\ work' = [work EXCEPT !.step = "add",
                          !.token = IF c.step = "failed" THEN Unknown ELSE work.asked]
            /\ UNCHANGED queue
       ELSE Finish
  /\ UNCHANGED <<documents, badge, thread, addition, nft, history>>

\* addBadge keeps the member badge that is there.
AddBadge ==
  /\ Working("add")
  /\ badge' = IF badge[work.user] # None THEN badge
              ELSE [badge EXCEPT ![work.user] = work.token]
  /\ Finish
  /\ UNCHANGED <<documents, thread, addition, nft, history>>

\* Okto or MongoDB fails, or nft-service does not answer in time: the exception is
\* logged and the task acknowledged.
GiveUp ==
  /\ Fail
  /\ ~Working("idle")
  /\ Finish
  /\ UNCHANGED <<documents, badge, thread, addition, nft, emailRace, phoneRace,
                 early>>

-----------------------------------------------------------------------------
(***************************************************************************)
(* nft-service: createProfileBadge and updateProfileBadge                  *)
(***************************************************************************)

\* A card is minted for a call without an address.
IsMint(c) == call[c].receiver \/ badge[call[c].user] \notin Calls

Advances(c, s) == call' = [call EXCEPT ![c].step = s]

UploadMetadata(c) ==
  /\ call[c].step = "upload"
  /\ Advances(c, IF IsMint(c) THEN "create" ELSE "update")
  /\ UNCHANGED <<documents, badge, thread, queue, addition, work, card, history>>

CreateNft(c) ==
  /\ call[c].step = "create"
  /\ Advances(c, "verify")
  /\ UNCHANGED <<documents, badge, thread, queue, addition, work, card, history>>

VerifyCollection(c) ==
  /\ call[c].step = "verify"
  /\ Advances(c, "send")
  /\ UNCHANGED <<documents, badge, thread, queue, addition, work, card, history>>

\* The card is transferred to the receiver; a call without one throws here.
TransferNft(c) ==
  /\ call[c].step = "send"
  /\ IF call[c].receiver
       THEN /\ Advances(c, "sent")
            /\ card' = [card EXCEPT ![call[c].user] = call[c].shows]
       ELSE Advances(c, "failed") /\ UNCHANGED card
  /\ UNCHANGED <<documents, badge, thread, queue, addition, work, history>>

UpdateNftUri(c) ==
  /\ call[c].step = "update"
  /\ Advances(c, "updated")
  /\ card' = [card EXCEPT ![call[c].user] = call[c].shows]
  /\ UNCHANGED <<documents, badge, thread, queue, addition, work, history>>

\* Any step fails; server.ts answers 200 with an error.
NftFails(c) ==
  /\ call[c].step \in {"upload", "create", "verify", "send", "update"}
  /\ Fail
  /\ Advances(c, "failed")
  /\ UNCHANGED <<documents, badge, thread, queue, addition, work, card, emailRace,
                 phoneRace, early>>

-----------------------------------------------------------------------------

\* core-app dies and starts again: its threads are gone, its task is delivered
\* again.
CrashCore ==
  /\ Fail
  /\ thread' = [l \in Logins |->
                  IF thread[l].step \in {"none", "in", "failed"} THEN thread[l]
                  ELSE [thread[l] EXCEPT !.step = "failed"]]
  /\ addition' = [k \in Additions |->
                    IF addition[k].step = "none" THEN addition[k]
                    ELSE [addition[k] EXCEPT !.step = "done"]]
  /\ work' = Idle
  /\ UNCHANGED <<documents, badge, queue, nft, emailRace, phoneRace, early>>

OnboardingInit ==
  /\ doc = [u \in Users |-> Blank]
  /\ badge = [u \in Users |-> None]
  /\ thread = [l \in Logins |-> [step |-> "none", user |-> l, copy |-> Blank]]
  /\ create = {}
  /\ update = [u \in Users |-> 0]
  /\ addition = [k \in Additions |-> [step |-> "none", user |-> AnyUser, amount |-> 1,
                                      copy |-> Blank]]
  /\ work = Idle
  /\ call = [c \in Calls |-> [step |-> "none", user |-> AnyUser, shows |-> First,
                              receiver |-> FALSE]]
  /\ card = [u \in Users |-> First]
  /\ had = [u \in Users |-> <<0>>]
  /\ stale = [wallet |-> {}, phone |-> {}, points |-> {}]
  /\ failures = 0 /\ emailRace = FALSE /\ phoneRace = FALSE
  /\ early = {}

Web(l) ==
  \/ LookUp(l) \/ SaveToken(l) \/ SaveUser(l) \/ SaveUserToken(l)
  \/ SendCreateWallet(l) \/ CheckPhone(l) \/ SavePhone(l)

AddPoints(k) == Purchase(k) \/ ReadPoints(k) \/ SavePoints(k) \/ SendUpdate(k)

Consume ==
  \/ \E u \in Users : TakeCreateWallet(u) \/ TakeUpdate(u)
  \/ CreateWallet \/ ReadForWallet \/ SaveWallet \/ AskForCard
  \/ TakeAnswer \/ AddBadge

Serve(c) ==
  \/ UploadMetadata(c) \/ CreateNft(c) \/ VerifyCollection(c)
  \/ TransferNft(c) \/ UpdateNftUri(c)

OnboardingNext ==
  \/ \E l \in Logins : Web(l) \/ RequestFails(l)
  \/ \E k \in Additions : AddPoints(k) \/ AdditionFails(k)
  \/ Consume \/ GiveUp
  \/ \E c \in Calls : Serve(c) \/ NftFails(c)
  \/ CrashCore

OnboardingSpec == OnboardingInit /\ [][OnboardingNext]_onboardingVars

\* A thread that has saved a user goes on, the consumer takes its tasks and
\* nft-service works on every call.
OnboardingFairness ==
  /\ \A l \in Logins : WF_onboardingVars(SaveUserToken(l) \/ SendCreateWallet(l))
  /\ WF_onboardingVars(Consume)
  /\ \A c \in Calls : WF_onboardingVars(Serve(c))

FairOnboarding == OnboardingSpec /\ OnboardingFairness

-----------------------------------------------------------------------------
(***************************************************************************)
(* Properties                                                              *)
(***************************************************************************)

\* Every variable of the onboarding has its type.
OnboardingTypeOK ==
  /\ doc \in [Users -> Document]
  /\ badge \in [Users -> {None, Unknown} \cup Calls]
  /\ thread \in [Logins -> Thread]
  /\ create \subseteq Users
  /\ update \in [Users -> Nat]
  /\ addition \in [Additions -> Addition]
  /\ work \in Work
  /\ call \in [Calls -> Call]
  /\ card \in [Users -> Face]
  /\ had \in [Users -> Seq(Int)]
  /\ stale \in [wallet : SUBSET Users, phone : SUBSET Users, points : SUBSET Users]
  /\ failures \in 0..MaxFailures
  /\ emailRace \in BOOLEAN /\ phoneRace \in BOOLEAN
  /\ early \subseteq Users

\* Two users have one email, which locks both out, only if two first logins looked
\* for it before either saved a user.
LockedOutOnlyByOverlap ==
  \A u, v \in Users :
    u # v /\ doc[u].saved /\ doc[v].saved /\ EmailOf[u] = EmailOf[v] => emailRace

\* Two users have one phone number, which stops the messages of their orders, only
\* if two requests checked it before either saved it, or a save gave back an old number.
SharedPhoneOnlyByOverlap ==
  \A u, v \in Users :
    u # v /\ doc[u].phone /\ doc[v].phone => phoneRace \/ stale.phone # {}

\* The checks of UserServiceImpl keep emails and phone numbers apart, unless two
\* requests overlapped between the check and the save.
AccountsAreDistinct == LockedOutOnlyByOverlap /\ SharedPhoneOnlyByOverlap

\* Whoever has been saved is a member, or the login or the queue of wallet tasks
\* still has the user; only a failure makes both of them forget one who has no
\* badge.  That a wallet was saved over is no excuse.
NobodyForgotten ==
  \A u \in Users :
    doc[u].saved =>
      \/ badge[u] # None
      \/ thread[u].step \in {"saved", "registered"}
      \/ u \in create
      \/ failures > 0

\* The calls that mint a card for a user.
Mints(u) == {c \in Calls : call[c].receiver /\ call[c].user = u}

\* A redelivered task mints no second card, unless a save took the user's wallet away.
OneCardPerUser ==
  \A u \in Users : \A c, d \in Mints(u) : c # d => u \in stale.wallet

\* A badge names a card that was transferred to its user; a badge without a card,
\* and a card without a badge, remain only where something failed or a wallet was
\* overwritten.
BadgesMatchCards ==
  /\ \A u \in Users :
       /\ badge[u] \in Calls =>
            badge[u] \in Mints(u) /\ call[badge[u]].step = "sent"
       /\ badge[u] = Unknown => failures > 0
  /\ \A c \in Calls :
       call[c].step = "sent" =>
         \/ badge[call[c].user] = c
         \/ work.asked = c
         \/ failures > 0 \/ call[c].user \in stale.wallet

\* What core-app has on record and what nft-service did for it agree.
BadgesAndCardsAgree == OneCardPerUser /\ BadgesMatchCards

\* The users whose points addPoints has saved without a task for them yet.
Owed == {addition[k].user : k \in {j \in Additions : addition[j].step = "saved"}}

\* Once its tasks are done a card shows the points of its user, up or down, also those
\* that changed while it was rewritten; unless they changed before there was a badge,
\* something failed, a login or another request gave back old points, which queues no
\* task, or a lost wallet had a second card minted.
CardIsCurrent ==
  \A u \in Users :
    badge[u] \in Calls /\ update[u] = 0 /\ u \notin Owed =>
      \/ card[u].points = doc[u].points
      \/ failures > 0
      \/ u \in early \cup stale.points \cup stale.wallet

\* Users whom a failure, or the loss of a wallet, may have robbed of something.
Harmed == IF failures > 0 THEN Users ELSE stale.wallet

Promise == INSTANCE MembershipPromise WITH
  joined  <- {u \in Users : doc[u].saved},
  members <- {u \in Users : badge[u] # None},
  harmed  <- Harmed

\* The onboarding implements its promise: members have accounts and stay members; a
\* card shows only points that its user has had, whoever saved them, and goes back to
\* earlier ones only after harm.
KeepsPromise == Promise!Spec

\* A user whose login saved it becomes a member, unless something fails.
BecomesMember ==
  \A l \in Logins : thread[l].step = "saved" ~> (badge[l] # None \/ failures > 0)

=============================================================================
