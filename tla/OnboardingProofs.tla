-------------------------- MODULE OnboardingProofs --------------------------
(***************************************************************************)
(* Proofs about Onboarding, for any number of logins, calls of addPoints,  *)
(* calls of nft-service and failures: every safety property of the module. *)
(***************************************************************************)
EXTENDS Onboarding, FiniteSetTheorems, TLAPS

-----------------------------------------------------------------------------
(***************************************************************************)
(* The inductive invariant                                                 *)
(***************************************************************************)

\* What the consumer's record holds at its steps.
Consumer ==
  /\ Working("idle") => work.task = "card"
  /\ work.step \notin {"idle", "wait"} => work.task = "wallet"
  /\ work.step \notin {"wait", "add"} => work.asked = None
  /\ work.step \in {"wait", "add"} => work.asked \in Calls
  /\ Working("wait") /\ work.task = "card" => update[work.user] > 0

\* Whom the threads, the tasks and the consumer have in hand has been saved; who has
\* not has no points.
Accounts ==
  /\ \A l \in Logins :
       IF thread[l].step \in {"none", "fresh"} THEN ~doc[l].saved
       ELSE thread[l].step # "failed" => doc[thread[l].user].saved
  /\ \A l \in Logins :
       thread[l].step \in {"known", "saved", "checked"} => thread[l].copy.saved
  /\ \A l \in Logins : thread[l].step \in {"saved", "registered"} => thread[l].user = l
  /\ \A k \in Additions :
       /\ addition[k].step \in {"priced", "read", "saved"} => doc[addition[k].user].saved
       /\ addition[k].step = "read" => addition[k].copy.saved
  /\ \A u \in create : doc[u].saved
  /\ work.task = "wallet" => doc[work.user].saved
  /\ Working("save") => work.copy.saved
  /\ \A u \in Users : doc[u].saved \/ doc[u].points = 0

Fresh(l) == thread[l].step = "fresh"

\* A login that found nobody is overtaken only by one that it overlaps with.
Emails ==
  \A l \in Logins : Fresh(l) =>
    /\ \A k \in Logins \ {l} : Fresh(k) /\ EmailOf[k] = EmailOf[l] => emailRace
    /\ \A u \in Users : doc[u].saved /\ EmailOf[u] = EmailOf[l] => emailRace

Checked(l) == thread[l].step = "checked"

Phones ==
  \A l \in Logins : Checked(l) =>
    /\ \A k \in Logins \ {l} : Checked(k) => phoneRace
    /\ \A u \in Users : doc[u].phone => phoneRace \/ stale.phone # {}

InProgress(c) == call[c].step \in {"upload", "create", "verify", "send", "update"}

\* What a call has come to, by whether it names a receiver.
Kind(c) ==
  IF call[c].receiver
    THEN /\ call[c].step \notin {"none", "update", "updated"}
         /\ call[c].shows = First
         /\ call[c].step = "failed" => failures > 0
    ELSE /\ call[c].step # "sent"
         /\ call[c].step # "none" => badge[call[c].user] # None
         /\ failures = 0 => call[c].step \in {"none", "upload", "update", "updated"}

\* Calls are numbered in their order, and the consumer waits for the one that is in
\* progress.
CallsInOrder ==
  /\ \E n \in 0..MaxCalls : {c \in Calls : call[c].step # "none"} = 1..n
  /\ \A c \in Calls : Kind(c)
  /\ \A c \in Calls : InProgress(c) => work.asked = c \/ failures > 0
  /\ \A u \in Users : update[u] > 0 => badge[u] # None
  /\ work.step \in {"wait", "add"} =>
       /\ call[work.asked].user = work.user
       /\ call[work.asked].step # "none"
       /\ call[work.asked].receiver <=> work.task = "wallet"

\* Until the card is asked for, the consumer's user has none; then the wallet keeps
\* the task from being done again.
Wallets ==
  /\ \A u \in Users \ stale.wallet : Mints(u) # {} => doc[u].saved /\ doc[u].wallet
  /\ work.step \in {"okto", "read", "save", "ask"} /\ work.user \notin stale.wallet =>
       Mints(work.user) = {}
  /\ Working("ask") /\ work.user \notin stale.wallet => doc[work.user].wallet

\* The badge to add is a card that was transferred.
Token ==
  Working("add") =>
    \/ work.token = work.asked /\ call[work.asked].step = "sent"
    \/ work.token = Unknown /\ failures > 0

Undisturbed(u) == failures = 0 /\ u \notin early \cup stale.points \cup stale.wallet

\* The last task of a user has the user's points, and the card gets what it has.
Cards ==
  \A u \in Users :
    /\ badge[u] = None => card[u] = First
    /\ Undisturbed(u) /\ badge[u] = None => u \in Owed \/ doc[u].points = 0
    /\ Undisturbed(u) /\ Working("wait") /\ work.task = "card" /\ work.user = u =>
         /\ update[u] = 1 /\ u \notin Owed =>
              call[work.asked].shows.points = doc[u].points
         /\ call[work.asked].step = "updated" => card[u] = call[work.asked].shows

OnboardingInv ==
  /\ OnboardingTypeOK
  /\ Consumer
  /\ Accounts /\ Emails /\ LockedOutOnlyByOverlap
  /\ Phones /\ SharedPhoneOnlyByOverlap
  /\ CallsInOrder
  /\ Wallets /\ OneCardPerUser
  /\ Token /\ BadgesMatchCards
  /\ Cards /\ CardIsCurrent

\* The users whose badge follows the wallet: it is there, or the task still goes on.
Due ==
  {u \in Users :
     \/ badge[u] # None \/ failures > 0
     \/ work.task = "wallet" /\ work.user = u /\ work.step \in {"ask", "wait", "add"}}

\* Whoever has a wallet, in the database or in a document that will be saved, is
\* due a badge; this is why a task may be dropped when its user has a wallet.
WalletsAreSettled ==
  /\ \A u \in Users : doc[u].wallet => u \in Due
  /\ \A l \in Logins :
       thread[l].step \in {"known", "saved", "checked"} /\ thread[l].copy.wallet =>
         thread[l].user \in Due
  /\ \A k \in Additions :
       addition[k].step = "read" /\ addition[k].copy.wallet => addition[k].user \in Due
  /\ Working("save") /\ work.copy.wallet => work.user \in Due

\* A card that shows one of some points, by its place.
IsOneOf(face, points) == face.turn \in 1..Len(points) /\ face.points = points[face.turn]

\* The points of a user begin with none, and end with those that the user has.
PointsAreLast ==
  \A u \in Users :
    had[u] # <<>> /\ had[u][1] = 0 /\ had[u][Len(had[u])] = doc[u].points

\* A call shows points that its user had when it was made, and what goes on the card
\* of an unharmed user is not earlier than what is there.
CardsFollow ==
  /\ \A u \in Users : IsOneOf(card[u], had[u])
  /\ \A c \in Calls : call[c].step # "none" => IsOneOf(call[c].shows, had[call[c].user])
  /\ \A c \in Calls :
       InProgress(c) /\ ~call[c].receiver /\ call[c].user \notin Harmed =>
         card[call[c].user].turn <= call[c].shows.turn

-----------------------------------------------------------------------------
(***************************************************************************)
(* Lemmas                                                                  *)
(***************************************************************************)

LEMMA Numbers ==
  /\ None \notin Calls /\ Unknown \notin Calls /\ None # Unknown
  /\ Calls \subseteq Nat
BY OnboardingAssumption DEF None, Unknown, Calls

LEMMA FirstIsFace == First \in Face /\ First.points = 0 /\ First.turn = 1
BY DEF First, Face

LEMMA FaceOf ==
  ASSUME OnboardingTypeOK, NEW u \in Users
  PROVE  FaceNow(u) \in Face
<1>1. doc[u].points \in Int /\ Len(had[u]) \in Nat
  BY DEF OnboardingTypeOK, Document
<1> QED BY <1>1 DEF FaceNow, Face

LEMMA SomeUser == AnyUser \in Users
BY OnboardingAssumption DEF AnyUser, Users

LEMMA IdleWork == Idle \in Work
BY SomeUser DEF Idle, Work, Blank, Document

\* The call that is made, and that the consumer waits for.
Made(c, u, shows, receiver) ==
  /\ call[c].step = "none"
  /\ call' = [call EXCEPT ![c] = [step |-> "upload", user |-> u, shows |-> shows,
                                  receiver |-> receiver]]
  /\ work' = [work EXCEPT !.step = "wait", !.user = u, !.asked = c]

\* The call that is made has not been made before.
LEMMA Asking ==
  ASSUME OnboardingTypeOK, CallsInOrder, NEW u \in Users, NEW shows \in Face,
         NEW receiver \in BOOLEAN, Ask(u, shows, receiver)
  PROVE  /\ \E c \in Calls : Made(c, u, shows, receiver)
         /\ call' \in [Calls -> Call]
         /\ \E n \in 0..MaxCalls : {d \in Calls : call'[d].step # "none"} = 1..n
<1> DEFINE Used == {k \in Calls : call[k].step # "none"}
           r == [step |-> "upload", user |-> u, shows |-> shows, receiver |-> receiver]
<1>1. PICK n \in 0..MaxCalls : Used = 1..n
  BY DEF CallsInOrder
<1>2. PICK c \in Calls :
        /\ c = Cardinality(Used) + 1
        /\ call' = [call EXCEPT ![c] = r]
        /\ work' = [work EXCEPT !.step = "wait", !.user = u, !.asked = c]
  BY DEF Ask
<1>3. Cardinality(1..n) = n
  <2>1. n \in Nat
    BY <1>1, OnboardingAssumption
  <2> QED BY <2>1, FS_Interval
<1> HIDE DEF Used
<1>4. c = n + 1 /\ c \notin Used
  <2>1. c = n + 1
    BY <1>1, <1>2, <1>3, Zenon
  <2> QED BY <2>1, <1>1, OnboardingAssumption
<1>5. call[c].step = "none"
  BY <1>4 DEF Used
<1>6. r \in Call /\ r.step = "upload"
  BY DEF Call, CallSteps
<1> HIDE DEF r
<1>7. call' \in [Calls -> Call]
  BY <1>2, <1>6 DEF OnboardingTypeOK
<1>8. {d \in Calls : call'[d].step # "none"} = Used \cup {c}
  BY <1>2, <1>6 DEF OnboardingTypeOK, Used
<1>9. Used \cup {c} = 1..(n + 1) /\ n + 1 \in 0..MaxCalls
  BY <1>1, <1>2, <1>4, OnboardingAssumption DEF Calls
<1>10. Made(c, u, shows, receiver)
  BY <1>2, <1>5 DEF Made, r
<1> QED BY <1>7, <1>8, <1>9, <1>10

\* A save marks the users to whom it gave back an older field.
LEMMA Saving ==
  ASSUME OnboardingTypeOK, NEW u \in Users, NEW copy \in Document, NEW new \in Document,
         Save(u, copy, new)
  PROVE  /\ doc' = [doc EXCEPT ![u] = new] /\ doc' \in [Users -> Document]
         /\ had' \in [Users -> Seq(Int)]
         /\ stale' \in [wallet : SUBSET Users, phone : SUBSET Users, points : SUBSET Users]
         /\ stale.wallet \subseteq stale'.wallet /\ stale.phone \subseteq stale'.phone
         /\ stale.points \subseteq stale'.points
         /\ u \notin stale'.wallet /\ (copy.wallet => new.wallet) /\ doc[u].wallet => new.wallet
         /\ u \notin stale'.phone /\ (new.phone => copy.phone) /\ new.phone => doc[u].phone
         /\ u \notin stale'.points /\ new.points = copy.points => doc[u].points = new.points
<1>0. /\ doc \in [Users -> Document] /\ had \in [Users -> Seq(Int)]
      /\ stale \in [wallet : SUBSET Users, phone : SUBSET Users, points : SUBSET Users]
  BY DEF OnboardingTypeOK
<1>1. doc' = [doc EXCEPT ![u] = new] /\ doc' \in [Users -> Document]
  BY <1>0 DEF Save, Write
<1>2. had' \in [Users -> Seq(Int)]
  <2>1. new.points \in Int
    BY DEF Document
  <2>2. Append(had[u], new.points) \in Seq(Int)
    BY <1>0, <2>1
  <2> QED BY <1>0, <2>2 DEF Save, Write
<1>3. /\ stale'.wallet = Mark(stale.wallet, u, new.wallet = copy.wallet /\ doc[u].wallet # new.wallet)
      /\ stale'.phone = Mark(stale.phone, u, new.phone = copy.phone /\ doc[u].phone # new.phone)
      /\ stale'.points = Mark(stale.points, u, new.points = copy.points /\ doc[u].points # new.points)
      /\ stale' = [wallet |-> stale'.wallet, phone |-> stale'.phone, points |-> stale'.points]
  BY DEF Save
<1>4. /\ stale.wallet \subseteq stale'.wallet /\ stale.phone \subseteq stale'.phone
      /\ stale.points \subseteq stale'.points
      /\ stale' \in [wallet : SUBSET Users, phone : SUBSET Users, points : SUBSET Users]
  BY <1>0, <1>3 DEF Mark
<1>5. /\ new.wallet \in BOOLEAN /\ copy.wallet \in BOOLEAN /\ doc[u].wallet \in BOOLEAN
      /\ new.phone \in BOOLEAN /\ copy.phone \in BOOLEAN /\ doc[u].phone \in BOOLEAN
  BY <1>0 DEF Document
<1>6. u \notin stale'.wallet /\ (copy.wallet => new.wallet) /\ doc[u].wallet => new.wallet
  BY <1>3, <1>5 DEF Mark
<1>7. u \notin stale'.phone /\ (new.phone => copy.phone) /\ new.phone => doc[u].phone
  BY <1>3, <1>5 DEF Mark
<1>8. u \notin stale'.points /\ new.points = copy.points => doc[u].points = new.points
  BY <1>3 DEF Mark
<1> QED BY <1>1, <1>2, <1>4, <1>6, <1>7, <1>8

\* The consumer is idle again, and its task is gone.
LEMMA Finishing ==
  ASSUME OnboardingTypeOK, Consumer, ~Working("idle"), Finish
  PROVE  /\ work' = Idle /\ work' \in Work
         /\ create' \subseteq create /\ update' \in [Users -> Nat]
         /\ \A u \in Users : update'[u] <= update[u]
         /\ \A u \in Users :
              u # work.user \/ work.task = "wallet" => update'[u] = update[u]
         /\ work.task = "card" => update'[work.user] = update[work.user] - 1
<1>1. work' = Idle /\ work' \in Work
  BY IdleWork DEF Finish
<1>2. work.user \in Users /\ work.task \in {"wallet", "card"}
  BY DEF OnboardingTypeOK, Work
<1>3. CASE work.task = "wallet"
  BY <1>1, <1>2, <1>3 DEF Finish, OnboardingTypeOK
<1>4. CASE work.task = "card"
  <2>1. Working("wait") /\ update[work.user] \in Nat \ {0}
    BY <1>2, <1>4 DEF Consumer, Working, OnboardingTypeOK, Work
  <2>2. update' = [update EXCEPT ![work.user] = @ - 1] /\ create' = create
    BY <1>4 DEF Finish
  <2> QED BY <1>1, <1>2, <1>4, <2>1, <2>2 DEF OnboardingTypeOK
<1> QED BY <1>2, <1>3, <1>4

LEMMA NewUser ==
  /\ NewDocument \in Document
  /\ NewDocument.saved /\ ~NewDocument.wallet /\ ~NewDocument.phone
  /\ NewDocument.points = 0
BY DEF NewDocument, Document

LEMMA Stepping ==
  ASSUME thread \in [Logins -> Thread], NEW l \in Logins, NEW s \in Steps, Step(l, s)
  PROVE  thread' \in [Logins -> Thread]
<1>1. thread[l] \in Thread
  OBVIOUS
<1>2. [thread[l] EXCEPT !.step = s] \in Thread
  BY <1>1 DEF Thread
<1> QED BY <1>2 DEF Step

\* A call of addPoints that goes on.
LEMMA Adding ==
  ASSUME addition \in [Additions -> Addition], NEW k \in Additions,
         NEW s \in {"read", "saved", "done"}, NEW copy \in Document,
         addition' = [addition EXCEPT ![k].step = s, ![k].copy = copy]
  PROVE  addition' \in [Additions -> Addition]
<1>1. addition \in [Additions -> Addition] /\ addition[k] \in Addition
  OBVIOUS
<1>2. [addition[k] EXCEPT !.step = s, !.copy = copy] \in Addition
  BY <1>1 DEF Addition
<1>3. addition' = [addition EXCEPT ![k] = [addition[k] EXCEPT !.step = s, !.copy = copy]]
  BY <1>1
<1> QED BY <1>1, <1>2, <1>3

LEMMA Added ==
  ASSUME NEW copy \in Document, NEW n \in Int
  PROVE  [copy EXCEPT !.points = @ + n] \in Document
<1>1. copy.points + n \in Int
  BY DEF Document
<1> QED BY <1>1 DEF Document

LEMMA Begun ==
  ASSUME addition \in [Additions -> Addition], NEW k \in Additions, NEW u \in Users,
         NEW s \in {"priced", "read"}, NEW n \in {1, -1}, NEW copy \in Document
  PROVE  [addition EXCEPT ![k] = [step |-> s, user |-> u, amount |-> n, copy |-> copy]]
           \in [Additions -> Addition]
<1>1. [step |-> s, user |-> u, amount |-> n, copy |-> copy] \in Addition
  BY DEF Addition
<1> QED BY <1>1

\* What the type invariant says of the consumer and of the count of failures.
LEMMA Values ==
  ASSUME OnboardingTypeOK
  PROVE  work \in Work /\ work.user \in Users /\ failures \in Nat
<1>1. work \in Work /\ failures \in 0..MaxFailures
  BY DEF OnboardingTypeOK
<1>2. work.user \in Users
  BY <1>1 DEF Work
<1> QED BY <1>1, <1>2, OnboardingAssumption

\* The same after a step.
LEMMA FailuresNext ==
  ASSUME OnboardingTypeOK'
  PROVE  failures' \in Nat
<1>1. failures' \in 0..MaxFailures
  BY DEF OnboardingTypeOK
<1> QED BY <1>1, OnboardingAssumption

LEMMA BlankDocument == Blank \in Document
BY DEF Blank, Document

LEMMA TypeStep ==
  ASSUME OnboardingTypeOK, Consumer, CallsInOrder, OnboardingNext
  PROVE  OnboardingTypeOK'
<1> USE DEF OnboardingTypeOK
<1>1. ASSUME NEW l \in Logins, Web(l) PROVE OnboardingTypeOK'
  <2>0. thread[l] \in Thread /\ thread[l].user \in Users /\ thread[l].copy \in Document
        /\ l \in Users
    BY DEF Thread, Users
  <2>1. CASE LookUp(l)
    <3>1. thread' \in [Logins -> Thread]
      <4>1. CASE Step(l, "fresh") \/ Step(l, "failed")
        BY <4>1, Stepping DEF Steps
      <4>2. ASSUME NEW u \in Users,
                   thread' = [thread EXCEPT ![l] = [step |-> "known", user |-> u,
                                                    copy |-> doc[u]]]
            PROVE  thread' \in [Logins -> Thread]
        <5>1. [step |-> "known", user |-> u, copy |-> doc[u]] \in Thread
          BY DEF Thread, Steps
        <5> QED BY <4>2, <5>1
      <4> QED BY <2>1, <4>1, <4>2 DEF LookUp, Found
    <3>2. emailRace' \in BOOLEAN
      BY <2>1, Zenon DEF LookUp
    <3> QED BY <2>1, <3>1, <3>2 DEF LookUp, queue, nft, documents
  <2>2. CASE SaveToken(l)
    BY <2>0, <2>2, Saving DEF SaveToken, Step, Thread, Steps, queue, nft, history
  <2>3. CASE SaveUser(l)
    <3>1. /\ doc' = [doc EXCEPT ![l] = NewDocument] /\ NewDocument.points = 0
          /\ had' = had \/ had' = [had EXCEPT ![l] = Append(@, 0)]
      BY <2>3, NewUser DEF SaveUser, Write
    <3>2. had' \in [Users -> Seq(Int)]
      <4>1. Append(had[l], 0) \in Seq(Int)
        BY <2>0
      <4> QED BY <3>1, <4>1
    <3> QED BY <2>0, <2>3, <3>1, <3>2, NewUser DEF SaveUser, Thread, Steps, queue, nft, history
  <2>4. CASE SaveUserToken(l)
    BY <2>0, <2>4, Saving DEF SaveUserToken, Step, Thread, Steps, queue, nft,
       history
  <2>5. CASE SendCreateWallet(l)
    BY <2>0, <2>5 DEF SendCreateWallet, Step, Thread, Steps, nft, history,
       documents
  <2>6. CASE CheckPhone(l)
    <3>1. thread' = [thread EXCEPT ![l].step = "checked", ![l].copy = doc[thread[l].user]]
      BY <2>6 DEF CheckPhone
    <3>2. thread' \in [Logins -> Thread]
      BY <2>0, <3>1 DEF Thread, Steps
    <3>3. phoneRace' \in BOOLEAN
      BY <2>6, Zenon DEF CheckPhone
    <3> QED BY <2>6, <3>2, <3>3 DEF CheckPhone, queue, nft, documents
  <2>7. CASE SavePhone(l)
    <3>1. [thread[l].copy EXCEPT !.phone = TRUE] \in Document
      BY <2>0 DEF Document
    <3> QED BY <2>0, <2>7, <3>1, Saving DEF SavePhone, Step, Thread, Steps, queue, nft,
       history
  <2> QED BY <1>1, <2>1, <2>2, <2>3, <2>4, <2>5, <2>6, <2>7 DEF Web
<1>2. ASSUME NEW k \in Additions, AddPoints(k) \/ AdditionFails(k) PROVE OnboardingTypeOK'
  <2>0. /\ addition[k] \in Addition /\ addition[k].user \in Users
        /\ addition[k].copy \in Document /\ addition[k].amount \in Int
    BY DEF Addition
  <2>1. CASE Purchase(k)
    <3>1. addition' \in [Additions -> Addition]
      <4>1. PICK u \in Users : addition' = [addition EXCEPT ![k] = [step |-> "priced",
                                 user |-> u, amount |-> -1, copy |-> Blank]]
        BY <2>1 DEF Purchase
      <4>2. -1 \in {1, -1}
        OBVIOUS
      <4> QED BY <4>1, <4>2, BlankDocument, Begun
    <3> QED BY <2>1, <3>1 DEF Purchase, queue, nft, history, documents
  <2>2. CASE ReadPoints(k)
    <3>1. addition' \in [Additions -> Addition]
      <4>1. CASE addition[k].step = "priced"
        <5>1. addition' = [addition EXCEPT ![k].step = "read",
                                           ![k].copy = doc[addition[k].user]]
          BY <2>2, <4>1 DEF ReadPoints, Comes
        <5>2. doc[addition[k].user] \in Document
          BY <2>0
        <5> QED BY <5>1, <5>2, Adding
      <4>2. CASE addition[k].step # "priced"
        <5>1. PICK u \in Users : addition' = [addition EXCEPT ![k] = [step |-> "read",
                                   user |-> u, amount |-> 1, copy |-> doc[u]]]
          BY <2>2, <4>2 DEF ReadPoints
        <5>2. doc[u] \in Document
          OBVIOUS
        <5> QED BY <5>1, <5>2, Begun
      <4> QED BY <4>1, <4>2
    <3> QED BY <2>2, <3>1 DEF ReadPoints, queue, nft, history, documents
  <2>3. CASE SavePoints(k)
    <3>1. [addition[k].copy EXCEPT !.points = @ + addition[k].amount] \in Document
      BY <2>0, Added
    <3>2. addition' \in [Additions -> Addition]
      BY <2>0, <2>3 DEF SavePoints, Addition
    <3> QED BY <2>0, <2>3, <3>1, <3>2, Saving DEF SavePoints, queue, nft, history
  <2>4. CASE SendUpdate(k)
    <3>1. addition' \in [Additions -> Addition]
      BY <2>0, <2>4 DEF SendUpdate, Addition
    <3> QED BY <2>0, <2>4, <3>1 DEF SendUpdate, nft, documents
  <2>5. CASE AdditionFails(k)
    <3>1. addition' \in [Additions -> Addition]
      BY <2>0, <2>5 DEF AdditionFails, Addition
    <3> QED BY <2>5, <3>1, OnboardingAssumption DEF AdditionFails, Fail, queue, nft, documents
  <2> QED BY <1>2, <2>1, <2>2, <2>3, <2>4, <2>5 DEF AddPoints
<1>3. CASE Consume
  <2>0. work \in Work /\ work.user \in Users /\ work.copy \in Document
    BY DEF Work
  <2>1. ASSUME NEW u \in Users, TakeCreateWallet(u) PROVE OnboardingTypeOK'
    <3>1. [Idle EXCEPT !.step = "okto", !.task = "wallet", !.user = u] \in Work
      BY IdleWork DEF Work
    <3> QED BY <2>1, <3>1 DEF TakeCreateWallet, nft, history, documents
  <2>2. ASSUME NEW u \in Users, TakeUpdate(u) PROVE OnboardingTypeOK'
    <3>1. FaceNow(u) \in Face /\ Ask(u, FaceNow(u), FALSE)
      BY <2>2, FaceOf DEF TakeUpdate
    <3>2. /\ \E c \in Calls : Made(c, u, FaceNow(u), FALSE)
          /\ call' \in [Calls -> Call]
      BY <3>1, Asking
    <3>3. work' \in Work
      BY <2>0, <3>2 DEF Made, Work
    <3> QED BY <2>2, <3>2, <3>3 DEF TakeUpdate, queue, history, documents
  <2>3. CASE CreateWallet
    BY <2>0, <2>3 DEF CreateWallet, Work, queue, nft, history, documents
  <2>4. CASE ReadForWallet
    BY <2>0, <2>4 DEF ReadForWallet, Work, queue, nft, history, documents
  <2>5. CASE SaveWallet
    <3>1. [work.copy EXCEPT !.wallet = TRUE] \in Document
      BY <2>0 DEF Document
    <3>2. work' \in Work
      BY <2>0, <2>5 DEF SaveWallet, Work
    <3> QED BY <2>0, <2>5, <3>1, <3>2, Saving DEF SaveWallet, queue, nft, history
  <2>6. CASE AskForCard
    <3>1. /\ \E c \in Calls : Made(c, work.user, First, TRUE)
          /\ call' \in [Calls -> Call]
      BY <2>0, <2>6, Asking, FirstIsFace DEF AskForCard
    <3>2. work' \in Work
      BY <2>0, <3>1 DEF Made, Work
    <3> QED BY <2>6, <3>1, <3>2 DEF AskForCard, queue, history, documents
  <2>7. CASE TakeAnswer
    <3>0. ~Working("idle")
      BY <2>7 DEF TakeAnswer, Working
    <3>1. CASE work.task = "wallet"
      <4>1. work' \in Work
        BY <2>0, <2>7, <3>1 DEF TakeAnswer, Work
      <4> QED BY <2>7, <3>1, <4>1 DEF TakeAnswer, queue, nft, history, documents
    <3>2. CASE work.task # "wallet"
      BY <2>7, <3>0, <3>2, Finishing DEF TakeAnswer, nft, history, documents
    <3> QED BY <3>1, <3>2
  <2>8. CASE AddBadge
    <3>0. ~Working("idle")
      BY <2>8 DEF AddBadge, Working
    <3>1. badge' \in [Users -> {None, Unknown} \cup Calls]
      BY <2>0, <2>8 DEF AddBadge, Work
    <3> QED BY <2>8, <3>0, <3>1, Finishing DEF AddBadge, nft, history, documents
  <2> QED BY <1>3, <2>1, <2>2, <2>3, <2>4, <2>5, <2>6, <2>7, <2>8 DEF Consume
<1>4. CASE GiveUp
  <2>0. ~Working("idle")
    BY <1>4 DEF GiveUp, Working
  <2>1. failures' \in 0..MaxFailures
    BY <1>4, OnboardingAssumption DEF GiveUp, Fail
  <2> QED BY <1>4, <2>0, <2>1, Finishing DEF GiveUp, nft, documents
<1>5. ASSUME NEW c \in Calls, Serve(c) \/ NftFails(c) PROVE OnboardingTypeOK'
  <2>0. call[c] \in Call /\ call[c].user \in Users /\ call[c].shows \in Face
    BY DEF Call
  <2>1. ASSUME NEW s \in CallSteps, Advances(c, s) PROVE call' \in [Calls -> Call]
    BY <2>0, <2>1 DEF Advances, Call
  <2>2. CASE UploadMetadata(c)
    BY <2>1, <2>2 DEF UploadMetadata, CallSteps, queue, history,
       documents
  <2>3. CASE CreateNft(c)
    BY <2>1, <2>3 DEF CreateNft, CallSteps, queue, history,
       documents
  <2>4. CASE VerifyCollection(c)
    BY <2>1, <2>4 DEF VerifyCollection, CallSteps, queue, history,
       documents
  <2>5. CASE TransferNft(c)
    BY <2>0, <2>1, <2>5 DEF TransferNft, CallSteps, queue, history,
       documents
  <2>6. CASE UpdateNftUri(c)
    BY <2>0, <2>1, <2>6 DEF UpdateNftUri, CallSteps, queue, history,
       documents
  <2>7. CASE NftFails(c)
    BY <2>1, <2>7, OnboardingAssumption DEF NftFails, Fail, CallSteps, queue,
       documents
  <2> QED BY <1>5, <2>2, <2>3, <2>4, <2>5, <2>6, <2>7 DEF Serve
<1>6. CASE CrashCore
  <2>1. thread' \in [Logins -> Thread]
    <3>1. \A l \in Logins : thread[l] \in Thread /\ [thread[l] EXCEPT !.step = "failed"] \in Thread
      BY DEF Thread, Steps
    <3> QED BY <1>6, <3>1 DEF CrashCore
  <2>2. addition' \in [Additions -> Addition]
    <3>1. \A k \in Additions :
            addition[k] \in Addition /\ [addition[k] EXCEPT !.step = "done"] \in Addition
      BY DEF Addition
    <3> QED BY <1>6, <3>1 DEF CrashCore
  <2> QED BY <1>6, <2>1, <2>2, IdleWork, OnboardingAssumption
      DEF CrashCore, Fail, queue, nft, documents
<1>7. ASSUME NEW l \in Logins, RequestFails(l) PROVE OnboardingTypeOK'
  <2>1. thread' \in [Logins -> Thread]
    <3>1. thread' = [thread EXCEPT ![l].step = "failed"] /\ thread[l] \in Thread
      BY <1>7 DEF RequestFails, Step
    <3> QED BY <3>1 DEF Thread, Steps
  <2> QED BY <1>7, <2>1, OnboardingAssumption DEF RequestFails, Fail, queue, nft, documents
<1> QED BY <1>1, <1>2, <1>3, <1>4, <1>5, <1>6, <1>7 DEF OnboardingNext

\* What the kinds of steps leave alone.
LEMMA WebFrame ==
  ASSUME NEW l \in Logins, Web(l)
  PROVE  UNCHANGED <<badge, update, addition, work, call, card, failures, early>>
BY DEF Web, LookUp, SaveToken, SaveUser, SaveUserToken, SendCreateWallet, CheckPhone,
   SavePhone, queue, nft, history

LEMMA FailFrame ==
  ASSUME NEW l \in Logins, RequestFails(l)
  PROVE  /\ UNCHANGED <<doc, had, stale, badge, create, update, addition, work, call, card,
                        emailRace, phoneRace, early>>
         /\ failures' = failures + 1
         /\ thread[l].step \notin {"none", "in", "failed"} /\ Step(l, "failed")
BY DEF RequestFails, Fail, documents, queue, nft

LEMMA PointsFrame ==
  ASSUME NEW k \in Additions, AddPoints(k) \/ AdditionFails(k)
  PROVE  /\ UNCHANGED <<badge, thread, create, work, call, card, emailRace, phoneRace>>
         /\ UNCHANGED <<doc, had, stale>> \/ SavePoints(k)
         /\ failures' = failures \/ failures' = failures + 1
         /\ UNCHANGED <<update, early>> \/ SendUpdate(k)
BY DEF AddPoints, AdditionFails, Purchase, ReadPoints, SavePoints, SendUpdate, Fail,
   documents, queue, nft, history

\* A step of a request or of addPoints is not one of the consumer or of nft-service.
LEMMA Otherwise ==
  ASSUME OnboardingNext
  PROVE  \/ Consume \/ GiveUp \/ CrashCore
         \/ \E c \in Calls : Serve(c) \/ NftFails(c)
         \/ /\ UNCHANGED <<badge, work, call, card>>
            /\ failures' = failures \/ failures' = failures + 1
<1>1. ASSUME NEW l \in Logins, Web(l) \/ RequestFails(l)
      PROVE  /\ UNCHANGED <<badge, work, call, card>>
             /\ failures' = failures \/ failures' = failures + 1
  BY <1>1, WebFrame, FailFrame
<1>2. ASSUME NEW k \in Additions, AddPoints(k) \/ AdditionFails(k)
      PROVE  /\ UNCHANGED <<badge, work, call, card>>
             /\ failures' = failures \/ failures' = failures + 1
  BY <1>2, PointsFrame
<1> QED BY <1>1, <1>2, Zenon DEF OnboardingNext

LEMMA ServeFrame ==
  ASSUME NEW c \in Calls, Serve(c) \/ NftFails(c)
  PROVE  UNCHANGED <<doc, had, stale, badge, thread, create, update, addition, work,
                     emailRace, phoneRace, early>>
BY DEF Serve, UploadMetadata, CreateNft, VerifyCollection, TransferNft, UpdateNftUri,
   NftFails, documents, queue, nft, history

LEMMA ConsumeFrame ==
  ASSUME Consume \/ GiveUp
  PROVE  UNCHANGED <<thread, addition, card, emailRace, phoneRace, early>>
BY DEF Consume, GiveUp, TakeCreateWallet, TakeUpdate, CreateWallet, ReadForWallet,
   SaveWallet, AskForCard, TakeAnswer, AddBadge, queue, nft, history

LEMMA ConsumerStep ==
  ASSUME OnboardingTypeOK, OnboardingTypeOK', Consumer, CallsInOrder, OnboardingNext
  PROVE  Consumer'
<1> USE DEF Consumer, Working
<1>1. ASSUME UNCHANGED work, \A u \in Users : update'[u] >= update[u]
      PROVE  Consumer'
  <2>1. work.user \in Users
    BY DEF OnboardingTypeOK, Work
  <2>2. update[work.user] \in Nat /\ update'[work.user] \in Nat
    BY <2>1 DEF OnboardingTypeOK
  <2>3. update'[work.user] >= update[work.user]
    BY <1>1, <2>1
  <2> QED BY <1>1, <2>2, <2>3
<1>2. ASSUME NEW l \in Logins, Web(l) \/ RequestFails(l) PROVE Consumer'
  <2>1. UNCHANGED <<work, update>>
    BY <1>2, WebFrame, FailFrame
  <2> QED BY <1>1, <2>1 DEF OnboardingTypeOK
<1>3. ASSUME NEW k \in Additions, AddPoints(k) \/ AdditionFails(k) PROVE Consumer'
  <2>0. addition[k].user \in Users /\ update \in [Users -> Nat]
    BY DEF OnboardingTypeOK, Addition
  <2>1. \A u \in Users : update'[u] >= update[u]
    BY <1>3, <2>0, PointsFrame DEF SendUpdate
  <2> QED BY <1>1, <1>3, <2>1, PointsFrame
<1>5. ASSUME NEW c \in Calls, Serve(c) \/ NftFails(c) PROVE Consumer'
  BY <1>1, <1>5, ServeFrame DEF OnboardingTypeOK
<1>6. ASSUME work' = Idle PROVE Consumer'
  BY <1>6 DEF Idle
<1>7. CASE Consume
  <2>0. work \in Work /\ work.user \in Users
    BY DEF OnboardingTypeOK, Work
  <2>1. ASSUME NEW u \in Users, TakeCreateWallet(u) PROVE Consumer'
    <3>1. CASE UNCHANGED work
      BY <1>1, <2>1, <3>1 DEF TakeCreateWallet
    <3>2. CASE work' = [Idle EXCEPT !.step = "okto", !.task = "wallet", !.user = u]
      BY <3>2 DEF Idle
    <3> QED BY <2>1, <3>1, <3>2 DEF TakeCreateWallet
  <2>2. ASSUME NEW u \in Users, TakeUpdate(u) PROVE Consumer'
    <3>1. FaceNow(u) \in Face /\ Ask(u, FaceNow(u), FALSE)
      BY <2>2, FaceOf DEF TakeUpdate
    <3>2. PICK c \in Calls : Made(c, u, FaceNow(u), FALSE)
      BY <3>1, Asking
    <3> QED BY <2>0, <2>2, <3>2 DEF Made, TakeUpdate, Work, queue
  <2>3. CASE CreateWallet
    BY <2>0, <2>3 DEF CreateWallet, Work, queue
  <2>4. CASE ReadForWallet
    BY <2>0, <2>4 DEF ReadForWallet, Work, queue
  <2>5. CASE SaveWallet
    BY <2>0, <2>5 DEF SaveWallet, Work, queue
  <2>6. CASE AskForCard
    <3>1. PICK c \in Calls : Made(c, work.user, First, TRUE)
      BY <2>0, <2>6, Asking, FirstIsFace DEF AskForCard
    <3> QED BY <2>0, <2>6, <3>1 DEF Made, AskForCard, Work, queue
  <2>7. CASE TakeAnswer
    <3>1. CASE work.task = "wallet"
      BY <2>0, <2>7, <3>1 DEF TakeAnswer, Work
    <3> QED BY <1>6, <2>7, <3>1 DEF TakeAnswer, Finish
  <2>8. CASE AddBadge
    BY <1>6, <2>8 DEF AddBadge, Finish
  <2> QED BY <1>7, <2>1, <2>2, <2>3, <2>4, <2>5, <2>6, <2>7, <2>8 DEF Consume
<1>8. CASE GiveUp \/ CrashCore
  BY <1>6, <1>8 DEF GiveUp, CrashCore, Finish
<1> QED BY <1>2, <1>3, <1>5, <1>7, <1>8 DEF OnboardingNext

-----------------------------------------------------------------------------
(***************************************************************************)
(* Accounts                                                                *)
(***************************************************************************)

\* The actions that save a document over the one that is there; what they save is a
\* user who has been saved.
Resaves(u, copy, new) ==
  /\ Save(u, copy, new)
  /\ doc[u].saved /\ copy.saved /\ new.saved
  /\ copy.wallet => new.wallet
  /\ new.phone => \/ copy.phone
                  \/ \E l \in Logins : SavePhone(l) /\ u = thread[l].user
  /\ \/ new.points = copy.points
     \/ \E k \in Additions : SavePoints(k) /\ u = addition[k].user

LEMMA Documents ==
  ASSUME OnboardingTypeOK, OnboardingTypeOK', Consumer, Accounts, OnboardingNext
  PROVE  \/ UNCHANGED <<doc, had, stale>>
         \/ \E l \in Logins : SaveUser(l)
         \/ \E u \in Users, copy \in Document, new \in Document : Resaves(u, copy, new)
<1> DEFINE Again == \E u \in Users, copy \in Document, new \in Document : Resaves(u, copy, new)
<1>1. ASSUME NEW l \in Logins, SaveToken(l) \/ SaveUserToken(l) \/ SavePhone(l)
      PROVE  Again
  <2> DEFINE u == thread[l].user
             copy == thread[l].copy
             new == IF thread[l].step = "checked" THEN [copy EXCEPT !.phone = TRUE] ELSE copy
  <2>1. u \in Users /\ copy \in Document
    BY DEF OnboardingTypeOK, Thread
  <2>2. /\ new \in Document /\ new.saved = copy.saved /\ new.wallet = copy.wallet
        /\ new.points = copy.points
    BY <2>1 DEF Document
  <2>3. doc[u].saved /\ copy.saved
    BY <1>1 DEF Accounts, SaveToken, SaveUserToken, SavePhone
  <2>4. Save(u, copy, new)
    <3>1. CASE SaveToken(l)
      BY <3>1 DEF SaveToken
    <3>2. CASE SaveUserToken(l)
      <4>1. l = u
        BY <3>2 DEF Accounts, SaveUserToken
      <4> QED BY <3>2, <4>1 DEF SaveUserToken
    <3>3. CASE SavePhone(l)
      BY <3>3 DEF SavePhone
    <3> QED BY <1>1, <3>1, <3>2, <3>3
  <2>5. new.phone => copy.phone \/ SavePhone(l)
    BY <1>1 DEF SaveToken, SaveUserToken
  <2> HIDE DEF new
  <2> QED BY <2>1, <2>2, <2>3, <2>4, <2>5, Zenon DEF Resaves
<1>2. ASSUME NEW l \in Logins, Web(l)
      PROVE  SaveToken(l) \/ SaveUserToken(l) \/ SavePhone(l) \/ SaveUser(l)
             \/ UNCHANGED <<doc, had, stale>>
  BY <1>2 DEF Web, LookUp, SendCreateWallet, CheckPhone, documents
<1>3. CASE SaveWallet
  <2> DEFINE u == work.user
             copy == work.copy
             new == [copy EXCEPT !.wallet = TRUE]
  <2>1. u \in Users /\ copy \in Document
    BY DEF OnboardingTypeOK, Work
  <2>2. /\ new \in Document /\ new.saved = copy.saved /\ new.wallet /\ new.phone = copy.phone
        /\ new.points = copy.points
    BY <2>1 DEF Document
  <2>3. work.task = "wallet" /\ Working("save")
    BY <1>3 DEF Consumer, SaveWallet, Working
  <2>4. doc[u].saved /\ copy.saved
    BY <2>3 DEF Accounts
  <2>5. Save(u, copy, new)
    BY <1>3 DEF SaveWallet
  <2> HIDE DEF new
  <2> QED BY <2>1, <2>2, <2>4, <2>5, Zenon DEF Resaves
<1>4. ASSUME NEW k \in Additions, SavePoints(k) PROVE Again
  <2> DEFINE u == addition[k].user
             copy == addition[k].copy
             new == [copy EXCEPT !.points = @ + addition[k].amount]
  <2>1. u \in Users /\ copy \in Document /\ addition[k].amount \in Int
    BY DEF OnboardingTypeOK, Addition
  <2>2. new \in Document /\ new.saved = copy.saved /\ new.wallet = copy.wallet
        /\ new.phone = copy.phone
    BY <2>1, Added DEF Document
  <2>3. doc[u].saved /\ copy.saved
    BY <1>4 DEF Accounts, SavePoints
  <2>4. Save(u, copy, new)
    BY <1>4 DEF SavePoints
  <2> HIDE DEF new
  <2> QED BY <1>4, <2>1, <2>2, <2>3, <2>4, Zenon DEF Resaves
<1>5. CASE Consume /\ ~SaveWallet
  BY <1>5 DEF Consume, TakeCreateWallet, TakeUpdate, CreateWallet, ReadForWallet,
     AskForCard, TakeAnswer, AddBadge, documents
<1>6. CASE GiveUp \/ CrashCore
  BY <1>6 DEF GiveUp, CrashCore, documents
<1> HIDE DEF Again
<1>7. ASSUME NEW l \in Logins, Web(l) \/ RequestFails(l)
      PROVE  UNCHANGED <<doc, had, stale>> \/ Again \/ \E k \in Logins : SaveUser(k)
  BY <1>1, <1>2, <1>7, FailFrame, Zenon
<1>8. ASSUME NEW k \in Additions, AddPoints(k) \/ AdditionFails(k)
      PROVE  UNCHANGED <<doc, had, stale>> \/ Again
  BY <1>4, <1>8, PointsFrame, Zenon
<1>9. ASSUME NEW c \in Calls, Serve(c) \/ NftFails(c) PROVE UNCHANGED <<doc, had, stale>>
  BY <1>9, ServeFrame
<1> QED BY <1>3, <1>5, <1>6, <1>7, <1>8, <1>9, Zenon DEF OnboardingNext, Again

\* Only SaveUser makes a document of one who has none, and no document goes away.
LEMMA SavedDocuments ==
  ASSUME OnboardingTypeOK, OnboardingTypeOK', Consumer, Accounts, OnboardingNext
  PROVE  /\ \A u \in Users : doc[u].saved => doc'[u].saved
         /\ \A u \in Users : doc'[u].saved => doc[u].saved \/ SaveUser(u)
<1>1. CASE UNCHANGED <<doc, had, stale>>
  BY <1>1
<1>2. ASSUME NEW l \in Logins, SaveUser(l)
      PROVE  /\ \A u \in Users : doc[u].saved => doc'[u].saved
             /\ \A u \in Users : doc'[u].saved => doc[u].saved \/ SaveUser(u)
  <2>1. doc' = [doc EXCEPT ![l] = NewDocument] /\ NewDocument.saved
    BY <1>2, NewUser DEF SaveUser, Write
  <2>2. \A u \in Users : u # l => doc'[u] = doc[u]
    BY <2>1 DEF OnboardingTypeOK
  <2>3. doc'[l].saved
    BY <2>1 DEF OnboardingTypeOK, Users
  <2> QED BY <1>2, <2>2, <2>3, Zenon
<1>3. ASSUME NEW u \in Users, NEW copy \in Document, NEW new \in Document,
             Resaves(u, copy, new)
      PROVE  \A v \in Users : doc[v].saved <=> doc'[v].saved
  <2>1. Save(u, copy, new) /\ doc[u].saved /\ new.saved
    BY <1>3 DEF Resaves
  <2>2. doc' = [doc EXCEPT ![u] = new]
    BY <2>1, Saving
  <2> QED BY <2>1, <2>2 DEF OnboardingTypeOK
<1> QED BY <1>1, <1>2, <1>3, Documents, Zenon

LEMMA AccountsStep ==
  ASSUME OnboardingTypeOK, OnboardingTypeOK', Consumer, Accounts, CallsInOrder,
         OnboardingNext
  PROVE  Accounts'
<1> DEFINE Threads ==
             \A l \in Logins :
               /\ IF thread[l].step \in {"none", "fresh"} THEN ~doc[l].saved
                  ELSE thread[l].step # "failed" => doc[thread[l].user].saved
               /\ thread[l].step \in {"known", "saved", "checked"} => thread[l].copy.saved
               /\ thread[l].step \in {"saved", "registered"} => thread[l].user = l
           Adds == \A k \in Additions :
                     /\ addition[k].step \in {"priced", "read", "saved"}
                          => doc[addition[k].user].saved
                     /\ addition[k].step = "read" => addition[k].copy.saved
           Queued == \A u \in create : doc[u].saved
           InHand == /\ work.task = "wallet" => doc[work.user].saved
                     /\ Working("save") => work.copy.saved
           Penniless == \A u \in Users : doc[u].saved \/ doc[u].points = 0
<1>0. Threads /\ Adds /\ Queued /\ InHand /\ Penniless
  BY DEF Accounts
<1>1. /\ \A u \in Users : doc[u].saved => doc'[u].saved
      /\ \A u \in Users : doc'[u].saved => doc[u].saved \/ SaveUser(u)
  BY SavedDocuments
<1>2. /\ \A l \in Logins : l \in Users /\ thread[l] \in Thread /\ thread[l].user \in Users
      /\ work \in Work /\ work.user \in Users
  BY DEF OnboardingTypeOK, Thread, Work, Users
<1>3. Threads'
  <2>1. CASE UNCHANGED thread
    <3>1. \A l \in Logins : ~SaveUser(l)
      BY <2>1 DEF SaveUser, OnboardingTypeOK, Thread
    <3> QED BY <1>0, <1>1, <1>2, <2>1, <3>1, Zenon DEF Users
  <2>2. ASSUME NEW l \in Logins, Web(l) PROVE Threads'
    <3> SUFFICES ASSUME NEW k \in Logins
                 PROVE  /\ IF thread'[k].step \in {"none", "fresh"} THEN ~doc'[k].saved
                           ELSE thread'[k].step # "failed" => doc'[thread'[k].user].saved
                        /\ thread'[k].step \in {"known", "saved", "checked"}
                             => thread'[k].copy.saved
                        /\ thread'[k].step \in {"saved", "registered"}
                             => thread'[k].user = k
      OBVIOUS
    <3>1. CASE k # l
      <4>1. thread'[k] = thread[k]
        BY <2>2, <3>1 DEF Web, LookUp, SaveToken, SaveUser, SaveUserToken,
           SendCreateWallet, CheckPhone, SavePhone, Step, OnboardingTypeOK
      <4>2. ~SaveUser(k)
        BY <4>1 DEF SaveUser, OnboardingTypeOK, Thread
      <4> QED BY <1>0, <1>1, <1>2, <4>1, <4>2, Zenon
    <3>2. CASE k = l
      <4> USE <3>2, <1>2
      <4>0. thread \in [Logins -> Thread] /\ doc \in [Users -> Document]
        BY DEF OnboardingTypeOK
      <4>1. CASE LookUp(l)
        <5>1. CASE Found(l) = {}
          <6>1. thread' = [thread EXCEPT ![l].step = "fresh"]
            BY <4>1, <5>1 DEF LookUp, Step
          <6>2. ~doc[l].saved /\ doc' = doc
            BY <4>1, <5>1 DEF LookUp, Found, documents
          <6> QED BY <4>0, <6>1, <6>2 DEF Thread
        <5>2. CASE Found(l) # {}
          <6>1. PICK u \in Found(l) :
                  \/ thread' = [thread EXCEPT ![l] = [step |-> "known", user |-> u,
                                                      copy |-> doc[u]]]
                  \/ thread' = [thread EXCEPT ![l].step = "failed"]
            BY <4>1, <5>2 DEF LookUp, Step
          <6>2. u \in Users /\ doc[u].saved /\ doc' = doc
            BY <4>1 DEF LookUp, Found, documents
          <6> QED BY <4>0, <6>1, <6>2 DEF Thread
        <5> QED BY <5>1, <5>2
      <4>2. CASE SaveToken(l)
        BY <1>0, <1>1, <4>0, <4>2 DEF SaveToken, Step, Thread
      <4>3. CASE SaveUser(l)
        BY <4>0, <4>3, NewUser DEF SaveUser, Write, Users
      <4>4. CASE SaveUserToken(l)
        BY <1>0, <1>1, <4>0, <4>4 DEF SaveUserToken, Step, Thread
      <4>5. CASE SendCreateWallet(l)
        BY <1>0, <1>1, <4>0, <4>5 DEF SendCreateWallet, Step, Thread
      <4>6. CASE CheckPhone(l)
        <5>1. /\ thread' = [thread EXCEPT ![l].step = "checked",
                                          ![l].copy = doc[thread[l].user]]
              /\ thread[l].step = "in" /\ doc' = doc
          BY <4>6 DEF CheckPhone, documents
        <5> QED BY <1>0, <4>0, <5>1 DEF Thread
      <4>7. CASE SavePhone(l)
        BY <1>0, <1>1, <4>0, <4>7 DEF SavePhone, Step, Thread
      <4> QED BY <2>2, <4>1, <4>2, <4>3, <4>4, <4>5, <4>6, <4>7 DEF Web
    <3> QED BY <3>1, <3>2
  <2>3. CASE CrashCore
    <3>1. doc' = doc
      BY <2>3 DEF CrashCore, documents
    <3>2. \A l \in Logins :
            /\ thread'[l].user = thread[l].user /\ thread'[l].copy = thread[l].copy
            /\ thread[l].step \in {"none", "in", "failed"} => thread'[l] = thread[l]
            /\ thread[l].step \notin {"none", "in", "failed"} => thread'[l].step = "failed"
      BY <2>3 DEF CrashCore, OnboardingTypeOK, Thread
    <3> QED BY <1>0, <3>1, <3>2
  <2>4. ASSUME NEW l \in Logins, RequestFails(l) PROVE Threads'
    <3>2. /\ doc' = doc /\ thread[l].step # "failed"
          /\ thread' = [thread EXCEPT ![l].step = "failed"]
      BY <2>4, FailFrame DEF Step
    <3>3. thread \in [Logins -> Thread]
      BY DEF OnboardingTypeOK
    <3>4. /\ thread'[l].step = "failed"
          /\ \A k \in Logins : k # l => thread'[k] = thread[k]
      BY <3>2, <3>3 DEF Thread
    <3> QED BY <1>0, <3>2, <3>4
  <2>5. ASSUME NEW k \in Additions, AddPoints(k) \/ AdditionFails(k) PROVE UNCHANGED thread
    BY <2>5, PointsFrame
  <2> QED BY <2>1, <2>2, <2>3, <2>4, <2>5, ServeFrame, ConsumeFrame, Zenon DEF OnboardingNext
<1>4. Queued'
  <2>1. CASE create' \subseteq create
    BY <1>0, <1>1, <2>1 DEF OnboardingTypeOK
  <2>2. ASSUME NEW l \in Logins, SendCreateWallet(l) PROVE Queued'
    <3>1. doc[l].saved /\ create' = create \cup {l} /\ doc' = doc
      BY <1>0, <2>2 DEF SendCreateWallet, documents
    <3> QED BY <1>0, <3>1
  <2>3. ASSUME NEW l \in Logins, Web(l), ~SendCreateWallet(l) PROVE create' = create
    BY <2>3 DEF Web, LookUp, SaveToken, SaveUser, SaveUserToken, CheckPhone, SavePhone,
       queue
  <2>4. CASE Consume \/ GiveUp
    BY <2>1, <2>4 DEF Consume, GiveUp, TakeCreateWallet, TakeUpdate, CreateWallet,
       ReadForWallet, SaveWallet, AskForCard, TakeAnswer, AddBadge, Finish, queue
  <2>5. CASE CrashCore
    BY <2>1, <2>5 DEF CrashCore, queue
  <2>6. ASSUME NEW l \in Logins, RequestFails(l) PROVE create' = create
    BY <2>6, FailFrame
  <2>7. ASSUME NEW k \in Additions, AddPoints(k) \/ AdditionFails(k) PROVE create' = create
    BY <2>7, PointsFrame
  <2>8. ASSUME NEW l \in Logins, Web(l) PROVE Queued'
    BY <2>1, <2>2, <2>3, <2>8
  <2>9. ASSUME NEW c \in Calls, Serve(c) \/ NftFails(c) PROVE create' = create
    BY <2>9, ServeFrame
  <2> QED BY <2>1, <2>4, <2>5, <2>6, <2>7, <2>8, <2>9 DEF OnboardingNext
<1>5. InHand'
  <2>1. CASE UNCHANGED work
    BY <1>0, <1>1, <1>2, <2>1, Zenon DEF Working
  <2>2. CASE work' = Idle
    BY <2>2 DEF Idle, Working
  <2>3. CASE Consume
    <3>1. ASSUME NEW u \in Users, TakeCreateWallet(u) PROVE InHand'
      <4>1. CASE UNCHANGED work
        BY <2>1, <4>1
      <4>2. CASE work' = [Idle EXCEPT !.step = "okto", !.task = "wallet", !.user = u]
        <5>1. work'.user = u /\ work'.step = "okto" /\ u \in create
          BY <3>1, <4>2 DEF TakeCreateWallet, Idle
        <5> QED BY <1>0, <1>1, <5>1 DEF Working
      <4> QED BY <3>1, <4>1, <4>2 DEF TakeCreateWallet
    <3>2. ASSUME NEW u \in Users, TakeUpdate(u) PROVE InHand'
      <4>1. work.task = "card"
        BY <3>2 DEF TakeUpdate, Consumer
      <4>2. work'.task = "card" /\ work'.step = "wait"
        BY <1>2, <3>2, <4>1 DEF TakeUpdate, Ask, Work
      <4> QED BY <4>2 DEF Working
    <3>3. CASE CreateWallet \/ SaveWallet
      BY <1>0, <1>1, <1>2, <3>3 DEF CreateWallet, SaveWallet, Work, Working
    <3>4. CASE ReadForWallet
      <4>1. doc[work.user].saved
        BY <1>0, <3>4 DEF ReadForWallet, Working, Consumer
      <4> QED BY <1>2, <3>4, <4>1 DEF ReadForWallet, Work, Working, documents
    <3>5. CASE AskForCard
      BY <1>0, <1>1, <1>2, <3>5 DEF AskForCard, Ask, Work, Working
    <3>6. CASE TakeAnswer
      <4>1. CASE work.task = "wallet"
        BY <1>0, <1>1, <1>2, <3>6, <4>1 DEF TakeAnswer, Work, Working
      <4> QED BY <2>2, <3>6, <4>1 DEF TakeAnswer, Finish
    <3>7. CASE AddBadge
      BY <2>2, <3>7 DEF AddBadge, Finish
    <3> QED BY <2>3, <3>1, <3>2, <3>3, <3>4, <3>5, <3>6, <3>7 DEF Consume
  <2>4. CASE GiveUp \/ CrashCore
    BY <2>2, <2>4 DEF GiveUp, CrashCore, Finish
  <2>5. ASSUME NEW l \in Logins, Web(l) \/ RequestFails(l) PROVE UNCHANGED work
    BY <2>5, WebFrame, FailFrame
  <2>6. ASSUME NEW k \in Additions, AddPoints(k) \/ AdditionFails(k) PROVE UNCHANGED work
    BY <2>6, PointsFrame
  <2>7. ASSUME NEW c \in Calls, Serve(c) \/ NftFails(c) PROVE UNCHANGED work
    BY <2>7, ServeFrame
  <2> HIDE DEF InHand
  <2> QED BY <2>1, <2>3, <2>4, <2>5, <2>6, <2>7 DEF OnboardingNext
<1>6. Adds'
  <2>0. /\ doc \in [Users -> Document] /\ addition \in [Additions -> Addition]
        /\ \A k \in Additions : addition[k].user \in Users
    BY DEF OnboardingTypeOK, Addition
  <2>1. CASE UNCHANGED addition
    BY <1>0, <1>1, <2>0, <2>1
  <2>2. ASSUME NEW k \in Additions, AddPoints(k) \/ AdditionFails(k) PROVE Adds'
    <3>1. \A j \in Additions : j # k => addition'[j] = addition[j]
      BY <2>0, <2>2 DEF AddPoints, Purchase, ReadPoints, SavePoints, SendUpdate, AdditionFails
    <3>2. /\ addition'[k].step \in {"priced", "read", "saved"}
               => doc[addition'[k].user].saved /\ addition'[k].user \in Users
          /\ addition'[k].step = "read" => addition'[k].copy.saved
      <4>1. CASE Purchase(k)
        BY <2>0, <4>1 DEF Purchase
      <4>2. CASE ReadPoints(k)
        BY <1>0, <2>0, <4>2 DEF ReadPoints, Addition
      <4>3. CASE SavePoints(k)
        BY <1>0, <2>0, <4>3 DEF SavePoints, Addition
      <4>4. CASE SendUpdate(k)
        BY <2>0, <4>4 DEF SendUpdate, Addition
      <4>5. CASE AdditionFails(k)
        BY <2>0, <4>5 DEF AdditionFails, Addition
      <4> QED BY <2>2, <4>1, <4>2, <4>3, <4>4, <4>5 DEF AddPoints
    <3> QED BY <1>0, <1>1, <2>0, <3>1, <3>2
  <2>3. CASE CrashCore
    BY <1>0, <1>1, <2>0, <2>3 DEF CrashCore, Addition
  <2>4. ASSUME NEW l \in Logins, Web(l) \/ RequestFails(l) PROVE UNCHANGED addition
    BY <2>4, WebFrame, FailFrame
  <2>5. CASE Consume \/ GiveUp
    BY <2>1, <2>5, ConsumeFrame
  <2>6. ASSUME NEW c \in Calls, Serve(c) \/ NftFails(c) PROVE UNCHANGED addition
    BY <2>6, ServeFrame
  <2> HIDE DEF Adds
  <2> QED BY <2>1, <2>2, <2>3, <2>4, <2>5, <2>6 DEF OnboardingNext
<1>7. Penniless'
  <2>0. doc \in [Users -> Document]
    BY DEF OnboardingTypeOK
  <2>1. CASE UNCHANGED <<doc, had, stale>>
    BY <1>0, <2>1
  <2>2. ASSUME NEW l \in Logins, SaveUser(l) PROVE Penniless'
    <3>1. doc' = [doc EXCEPT ![l] = NewDocument]
      BY <2>2 DEF SaveUser, Write
    <3> QED BY <1>0, <2>0, <3>1, NewUser
  <2>3. ASSUME NEW u \in Users, NEW copy \in Document, NEW new \in Document,
               Resaves(u, copy, new)
        PROVE  Penniless'
    <3>1. Save(u, copy, new) /\ new.saved
      BY <2>3 DEF Resaves
    <3>2. doc' = [doc EXCEPT ![u] = new]
      BY <3>1, Saving
    <3> QED BY <1>0, <2>0, <3>1, <3>2
  <2> HIDE DEF Penniless
  <2> QED BY <2>1, <2>2, <2>3, Documents, Zenon
<1> QED BY <1>3, <1>4, <1>5, <1>6, <1>7 DEF Accounts, Working

LEMMA EmailsStep ==
  ASSUME OnboardingTypeOK, OnboardingTypeOK', Consumer, Accounts, Emails,
         LockedOutOnlyByOverlap, OnboardingNext
  PROVE  Emails' /\ LockedOutOnlyByOverlap'
<1>0. thread \in [Logins -> Thread] /\ doc \in [Users -> Document]
  BY DEF OnboardingTypeOK
<1>1. ASSUME NEW l \in Logins, SaveUser(l)
      PROVE  Emails' /\ LockedOutOnlyByOverlap'
  <2>1. /\ Fresh(l) /\ emailRace' = emailRace
        /\ \A k \in Logins : Fresh(k)' <=> Fresh(k) /\ k # l
    BY <1>0, <1>1 DEF SaveUser, Fresh, history
  <2>2. \A u \in Users : doc'[u].saved => doc[u].saved \/ u = l
    BY <1>0, <1>1 DEF SaveUser, Write
  <2> QED BY <2>1, <2>2 DEF Emails, LockedOutOnlyByOverlap, Users
<1>2. ASSUME NEW l \in Logins, LookUp(l)
      PROVE  Emails' /\ LockedOutOnlyByOverlap'
  <2>1. /\ doc' = doc /\ (emailRace => emailRace')
        /\ \A k \in Logins : k # l => (Fresh(k)' <=> Fresh(k))
    <3>0. doc' = doc
      BY <1>2 DEF LookUp, documents
    <3>1. emailRace => emailRace'
      <4>1. CASE UNCHANGED emailRace
        BY <4>1
      <4>2. CASE emailRace' = (emailRace \/ \E k \in Logins \ {l} :
                                 thread[k].step = "fresh" /\ EmailOf[k] = EmailOf[l])
        BY <4>2, Zenon
      <4> QED BY <1>2, <4>1, <4>2, Zenon DEF LookUp
    <3>2. \A k \in Logins : k # l => thread'[k] = thread[k]
      BY <1>0, <1>2 DEF LookUp, Step
    <3> QED BY <3>0, <3>1, <3>2, Zenon DEF Fresh
  <2>2. CASE Fresh(l)'
    <3>1. Found(l) = {}
      <4> SUFFICES ASSUME Found(l) # {} PROVE FALSE
        OBVIOUS
      <4>1. PICK u \in Found(l) :
              \/ thread' = [thread EXCEPT ![l] = [step |-> "known", user |-> u,
                                                  copy |-> doc[u]]]
              \/ thread' = [thread EXCEPT ![l].step = "failed"]
        BY <1>2 DEF LookUp, Step
      <4> QED BY <1>0, <2>2, <4>1 DEF Fresh, Thread
    <3>2. \A k \in Logins \ {l} : Fresh(k) /\ EmailOf[k] = EmailOf[l] => emailRace'
      BY <1>2, <3>1, Zenon DEF LookUp, Fresh
    <3>3. \A u \in Users : ~(doc[u].saved /\ EmailOf[u] = EmailOf[l])
      BY <3>1 DEF Found
    <3> QED BY <2>1, <3>2, <3>3 DEF Emails, LockedOutOnlyByOverlap
  <2>3. CASE ~Fresh(l)'
    BY <2>1, <2>3 DEF Emails, LockedOutOnlyByOverlap
  <2> QED BY <2>2, <2>3
<1>3. ASSUME \A l \in Logins : ~SaveUser(l) /\ ~LookUp(l)
      PROVE  Emails' /\ LockedOutOnlyByOverlap'
  <2>1. \A u \in Users : doc'[u].saved => doc[u].saved
    BY <1>3, SavedDocuments DEF Users
  <2>2. emailRace' = emailRace /\ \A l \in Logins : Fresh(l)' => Fresh(l)
    <3>1. ASSUME NEW l \in Logins, Web(l)
          PROVE  emailRace' = emailRace /\ \A k \in Logins : Fresh(k)' => Fresh(k)
      <4>1. SaveToken(l) \/ SaveUserToken(l) \/ SendCreateWallet(l) \/ CheckPhone(l)
            \/ SavePhone(l)
        BY <1>3, <3>1, Zenon DEF Web
      <4>2. UNCHANGED emailRace
        BY <4>1 DEF SaveToken, SaveUserToken, SendCreateWallet, CheckPhone, SavePhone,
           history
      <4>3. thread'[l].step # "fresh"
        BY <1>0, <4>1 DEF SaveToken, SaveUserToken, SendCreateWallet, CheckPhone,
           SavePhone, Step, Thread
      <4>4. \A k \in Logins : k # l => thread'[k] = thread[k]
        BY <1>0, <4>1 DEF SaveToken, SaveUserToken, SendCreateWallet, CheckPhone,
           SavePhone, Step
      <4> QED BY <4>2, <4>3, <4>4, Zenon DEF Fresh
    <3>2. ASSUME CrashCore
          PROVE  emailRace' = emailRace /\ \A k \in Logins : Fresh(k)' => Fresh(k)
      BY <1>0, <3>2 DEF CrashCore, Fresh
    <3>3. ASSUME NEW l \in Logins, RequestFails(l)
          PROVE  emailRace' = emailRace /\ \A k \in Logins : Fresh(k)' => Fresh(k)
      BY <1>0, <3>3, FailFrame DEF Step, Fresh, Thread
    <3>4. ASSUME UNCHANGED <<thread, emailRace>>
          PROVE  emailRace' = emailRace /\ \A k \in Logins : Fresh(k)' => Fresh(k)
      BY <3>4 DEF Fresh
    <3>5. ASSUME NEW k \in Additions, AddPoints(k) \/ AdditionFails(k)
          PROVE  UNCHANGED <<thread, emailRace>>
      BY <3>5, PointsFrame
    <3>6. ASSUME NEW c \in Calls, Serve(c) \/ NftFails(c) PROVE UNCHANGED <<thread, emailRace>>
      BY <3>6, ServeFrame
    <3>7. CASE Consume \/ GiveUp
      BY <3>4, <3>7, ConsumeFrame
    <3> QED BY <3>1, <3>2, <3>3, <3>4, <3>5, <3>6, <3>7, Zenon DEF OnboardingNext
  <2> QED BY <2>1, <2>2 DEF Emails, LockedOutOnlyByOverlap
<1> QED BY <1>1, <1>2, <1>3

LEMMA PhonesStep ==
  ASSUME OnboardingTypeOK, OnboardingTypeOK', Consumer, Accounts, Phones,
         SharedPhoneOnlyByOverlap, OnboardingNext
  PROVE  Phones' /\ SharedPhoneOnlyByOverlap'
<1>0. thread \in [Logins -> Thread] /\ doc \in [Users -> Document]
  BY DEF OnboardingTypeOK
<1>1. ASSUME NEW l \in Logins, CheckPhone(l)
      PROVE  Phones' /\ SharedPhoneOnlyByOverlap'
  <2>1. /\ doc' = doc /\ stale' = stale /\ (phoneRace => phoneRace')
        /\ \A u \in Users : ~doc[u].phone
    BY <1>1 DEF CheckPhone, PhoneFree, documents
  <2>2. \A k \in Logins : k # l => (Checked(k)' <=> Checked(k))
    <3>1. thread' = [thread EXCEPT ![l].step = "checked",
                                   ![l].copy = doc[thread[l].user]]
      BY <1>1 DEF CheckPhone
    <3> QED BY <1>0, <3>1 DEF Checked
  <2>3. \A k \in Logins \ {l} : Checked(k) => phoneRace'
    BY <1>1, Zenon DEF CheckPhone, Checked
  <2> QED BY <2>1, <2>2, <2>3 DEF Phones, SharedPhoneOnlyByOverlap
<1>2. ASSUME NEW l \in Logins, SavePhone(l)
      PROVE  Phones' /\ SharedPhoneOnlyByOverlap'
  <2> DEFINE u == thread[l].user
  <2>1. /\ Checked(l) /\ phoneRace' = phoneRace
        /\ \A k \in Logins : Checked(k)' <=> Checked(k) /\ k # l
    BY <1>0, <1>2 DEF SavePhone, Step, Checked, Thread, history
  <2>2. /\ \A v \in Users : v # u => doc'[v] = doc[v]
        /\ stale.phone \subseteq stale'.phone
    <3>1. u \in Users /\ thread[l].copy \in Document
      BY <1>0 DEF Thread
    <3>2. [thread[l].copy EXCEPT !.phone = TRUE] \in Document
      BY <3>1 DEF Document
    <3>3. Save(u, thread[l].copy, [thread[l].copy EXCEPT !.phone = TRUE])
      BY <1>2 DEF SavePhone
    <3> QED BY <1>0, <3>1, <3>2, <3>3, Saving
  <2> HIDE DEF u
  <2> QED BY <2>1, <2>2 DEF Phones, SharedPhoneOnlyByOverlap
<1>3. ASSUME \A l \in Logins : ~CheckPhone(l) /\ ~SavePhone(l)
      PROVE  Phones' /\ SharedPhoneOnlyByOverlap'
  <2>1. phoneRace' = phoneRace /\ \A l \in Logins : Checked(l)' => Checked(l)
    <3>1. ASSUME NEW l \in Logins, Web(l)
          PROVE  phoneRace' = phoneRace /\ \A k \in Logins : Checked(k)' => Checked(k)
      <4>1. LookUp(l) \/ SaveToken(l) \/ SaveUser(l) \/ SaveUserToken(l)
            \/ SendCreateWallet(l)
        BY <1>3, <3>1, Zenon DEF Web
      <4>2. UNCHANGED phoneRace
        BY <4>1 DEF LookUp, SaveToken, SaveUser, SaveUserToken, SendCreateWallet, history
      <4>3. thread'[l].step # "checked"
        BY <1>0, <4>1 DEF LookUp, SaveToken, SaveUser, SaveUserToken,
           SendCreateWallet, Step, Thread
      <4>4. \A k \in Logins : k # l => thread'[k] = thread[k]
        BY <1>0, <4>1 DEF LookUp, SaveToken, SaveUser, SaveUserToken,
           SendCreateWallet, Step
      <4> QED BY <4>2, <4>3, <4>4, Zenon DEF Checked
    <3>2. ASSUME CrashCore
          PROVE  phoneRace' = phoneRace /\ \A k \in Logins : Checked(k)' => Checked(k)
      BY <1>0, <3>2 DEF CrashCore, Checked
    <3>3. ASSUME NEW l \in Logins, RequestFails(l)
          PROVE  phoneRace' = phoneRace /\ \A k \in Logins : Checked(k)' => Checked(k)
      BY <1>0, <3>3, FailFrame DEF Step, Checked, Thread
    <3>4. ASSUME UNCHANGED <<thread, phoneRace>>
          PROVE  phoneRace' = phoneRace /\ \A k \in Logins : Checked(k)' => Checked(k)
      BY <3>4 DEF Checked
    <3>5. ASSUME NEW k \in Additions, AddPoints(k) \/ AdditionFails(k)
          PROVE  UNCHANGED <<thread, phoneRace>>
      BY <3>5, PointsFrame
    <3>6. ASSUME NEW c \in Calls, Serve(c) \/ NftFails(c) PROVE UNCHANGED <<thread, phoneRace>>
      BY <3>6, ServeFrame
    <3>7. CASE Consume \/ GiveUp
      BY <3>4, <3>7, ConsumeFrame
    <3> QED BY <3>1, <3>2, <3>3, <3>4, <3>5, <3>6, <3>7, Zenon DEF OnboardingNext
  <2>2. /\ stale.phone \subseteq stale'.phone
        /\ \A u \in Users : doc'[u].phone => doc[u].phone \/ stale'.phone # {}
    <3>1. CASE UNCHANGED <<doc, had, stale>>
      BY <3>1
    <3>2. ASSUME NEW l \in Logins, SaveUser(l)
          PROVE  stale' = stale /\ \A u \in Users : doc'[u].phone => doc[u].phone
      BY <1>0, <3>2, NewUser DEF SaveUser, Write
    <3>3. ASSUME NEW u \in Users, NEW copy \in Document, NEW new \in Document,
                 Resaves(u, copy, new)
          PROVE  /\ stale.phone \subseteq stale'.phone
                 /\ \A v \in Users : doc'[v].phone => doc[v].phone \/ stale'.phone # {}
      <4>1. Save(u, copy, new) /\ (new.phone => copy.phone)
        BY <1>3, <3>3, Zenon DEF Resaves
      <4>2. /\ doc' = [doc EXCEPT ![u] = new] /\ stale.phone \subseteq stale'.phone
            /\ u \notin stale'.phone => (new.phone => doc[u].phone)
        BY <4>1, Saving
      <4> QED BY <1>0, <4>2
    <3> QED BY <3>1, <3>2, <3>3, Documents, Zenon
  <2> QED BY <2>1, <2>2 DEF Phones, SharedPhoneOnlyByOverlap
<1> QED BY <1>1, <1>2, <1>3

-----------------------------------------------------------------------------
(***************************************************************************)
(* Wallets and cards                                                       *)
(***************************************************************************)

\* A call changes hands only when it is made.
LEMMA CallsKept ==
  ASSUME OnboardingTypeOK, OnboardingNext
  PROVE  \/ AskForCard
         \/ \E u \in Users : TakeUpdate(u)
         \/ \A c \in Calls : /\ call'[c].user = call[c].user
                             /\ call'[c].receiver = call[c].receiver
                             /\ call'[c].shows = call[c].shows
<1>1. ASSUME NEW c \in Calls, Serve(c) \/ NftFails(c)
      PROVE  \A d \in Calls : /\ call'[d].user = call[d].user
                              /\ call'[d].receiver = call[d].receiver
                              /\ call'[d].shows = call[d].shows
  <2>1. \E s \in CallSteps : Advances(c, s)
    BY <1>1 DEF Serve, UploadMetadata, CreateNft, VerifyCollection, TransferNft,
       UpdateNftUri, NftFails, CallSteps
  <2>2. call \in [Calls -> Call]
    BY DEF OnboardingTypeOK
  <2> QED BY <2>1, <2>2 DEF Advances, Call
<1>2. CASE Consume /\ ~AskForCard /\ \A u \in Users : ~TakeUpdate(u)
  <2>1. UNCHANGED call
    BY <1>2 DEF Consume, TakeCreateWallet, CreateWallet, ReadForWallet, SaveWallet,
       TakeAnswer, AddBadge, nft
  <2> QED BY <2>1
<1>3. CASE GiveUp \/ CrashCore
  BY <1>3 DEF GiveUp, CrashCore, nft
<1>4. CASE UNCHANGED call
  BY <1>4
<1> QED BY <1>1, <1>2, <1>3, <1>4, Otherwise, Zenon

\* The cards asked for are what they were, or the consumer asks for one more.
LEMMA MintsKept ==
  ASSUME OnboardingTypeOK, OnboardingTypeOK', Consumer, CallsInOrder, OnboardingNext
  PROVE  \/ \A u \in Users : Mints(u)' = Mints(u)
         \/ /\ AskForCard
            /\ \E c \in Calls : \A u \in Users :
                 Mints(u)' = IF u = work.user THEN Mints(u) \cup {c} ELSE Mints(u)
<1>1. ASSUME NEW u \in Users, NEW shows \in Face, NEW receiver \in BOOLEAN,
             Ask(u, shows, receiver)
      PROVE  \E c \in Calls : \A v \in Users :
               Mints(v)' = IF v = u /\ receiver THEN Mints(v) \cup {c} ELSE Mints(v)
  <2>1. PICK c \in Calls : Made(c, u, shows, receiver)
    BY <1>1, Asking, Zenon
  <2>2. ~call[c].receiver
    BY <2>1 DEF Made, CallsInOrder, Kind
  <2>3. \A d \in Calls : d # c => call'[d] = call[d]
    BY <2>1 DEF Made, OnboardingTypeOK
  <2>4. call'[c].user = u /\ call'[c].receiver = receiver
    BY <2>1 DEF Made, OnboardingTypeOK
  <2>5. ASSUME NEW v \in Users
        PROVE  Mints(v)' = IF v = u /\ receiver THEN Mints(v) \cup {c} ELSE Mints(v)
    BY <2>2, <2>3, <2>4 DEF Mints
  <2> QED BY <2>5
<1>2. CASE AskForCard
  <2>1. work.user \in Users /\ Ask(work.user, First, TRUE)
    BY <1>2 DEF AskForCard, OnboardingTypeOK, Work
  <2> QED BY <1>1, <1>2, <2>1, FirstIsFace
<1>3. ASSUME NEW u \in Users, TakeUpdate(u) PROVE \A v \in Users : Mints(v)' = Mints(v)
  <2>1. FaceNow(u) \in Face
    BY FaceOf
  <2>2. Ask(u, FaceNow(u), FALSE)
    BY <1>3 DEF TakeUpdate
  <2>3. PICK c \in Calls : \A v \in Users :
          Mints(v)' = IF v = u /\ FALSE THEN Mints(v) \cup {c} ELSE Mints(v)
    BY <1>1, <2>1, <2>2, Zenon
  <2> QED BY <2>3, Zenon
<1>4. CASE \A c \in Calls : /\ call'[c].user = call[c].user
                            /\ call'[c].receiver = call[c].receiver
  BY <1>4 DEF Mints
<1> QED BY <1>2, <1>3, <1>4, CallsKept

\* Where the consumer's step comes from, as long as it is about a wallet.
LEMMA WorkSteps ==
  ASSUME OnboardingTypeOK, Consumer, Consume \/ GiveUp
  PROVE  \/ \E u \in Users : TakeCreateWallet(u) /\ work'.step = "okto" /\ work' # work
         \/ /\ work.step \in {"okto", "read"} /\ work'.step \in {"read", "save"}
            /\ work'.user = work.user
         \/ /\ SaveWallet /\ work.step = "save" /\ work'.step = "ask"
            /\ work'.user = work.user
         \/ work'.step \in {"idle", "wait", "add"}
<1>0. work \in Work
  BY DEF OnboardingTypeOK
<1>1. ASSUME NEW u \in Users, TakeCreateWallet(u)
      PROVE  work'.step = "idle" \/ (work'.step = "okto" /\ work' # work)
  <2>1. CASE UNCHANGED work
    BY <1>1, <2>1 DEF TakeCreateWallet, Working
  <2>2. CASE work' = [Idle EXCEPT !.step = "okto", !.task = "wallet", !.user = u]
    <3>1. work'.step = "okto" /\ work.step = "idle"
      BY <1>1, <2>2 DEF TakeCreateWallet, Idle, Working
    <3> QED BY <3>1
  <2> QED BY <1>1, <2>1, <2>2, Zenon DEF TakeCreateWallet
<1>2. ASSUME NEW u \in Users, TakeUpdate(u) PROVE work'.step = "wait"
  BY <1>0, <1>2 DEF TakeUpdate, Ask, Work
<1>3. CASE CreateWallet \/ ReadForWallet
  BY <1>0, <1>3 DEF CreateWallet, ReadForWallet, Work, Working
<1>4. CASE SaveWallet
  BY <1>0, <1>4 DEF SaveWallet, Work, Working
<1>5. CASE AskForCard
  <2>1. PICK c \in Calls :
          work' = [work EXCEPT !.step = "wait", !.user = work.user, !.asked = c]
    BY <1>5, Zenon DEF AskForCard, Ask
  <2> QED BY <1>0, <2>1 DEF Work
<1>6. CASE TakeAnswer
  <2>1. CASE work.task = "wallet"
    <3>1. PICK t \in {Unknown, work.asked} :
            work' = [work EXCEPT !.step = "add", !.token = t]
      BY <1>6, <2>1 DEF TakeAnswer
    <3> QED BY <1>0, <3>1 DEF Work
  <2>2. CASE work.task # "wallet"
    <3>1. work' = Idle
      BY <1>6, <2>2 DEF TakeAnswer, Finish
    <3> QED BY <3>1 DEF Idle
  <2> QED BY <2>1, <2>2
<1>7. CASE AddBadge \/ GiveUp
  BY <1>7 DEF AddBadge, GiveUp, Finish, Idle
<1> QED BY <1>1, <1>2, <1>3, <1>4, <1>5, <1>6, <1>7 DEF Consume

LEMMA WalletsStep ==
  ASSUME OnboardingTypeOK, OnboardingTypeOK', Consumer, Accounts, CallsInOrder, Wallets,
         OneCardPerUser, OnboardingNext
  PROVE  Wallets' /\ OneCardPerUser'
<1>0. /\ doc \in [Users -> Document] /\ work \in Work /\ work.user \in Users
      /\ doc' \in [Users -> Document]
  BY DEF OnboardingTypeOK, Work
\* A document keeps its wallet, unless it is saved over.
<1>1. /\ stale.wallet \subseteq stale'.wallet
      /\ \A u \in Users \ stale'.wallet :
           doc[u].saved /\ doc[u].wallet => doc'[u].saved /\ doc'[u].wallet
  <2>1. CASE UNCHANGED <<doc, had, stale>>
    BY <2>1
  <2>2. ASSUME NEW l \in Logins, SaveUser(l)
        PROVE  stale' = stale /\ \A u \in Users : doc[u].saved => doc'[u] = doc[u]
    BY <1>0, <2>2 DEF SaveUser, Write, Accounts
  <2>3. ASSUME NEW u \in Users, NEW copy \in Document, NEW new \in Document,
               Resaves(u, copy, new)
        PROVE  /\ stale.wallet \subseteq stale'.wallet
               /\ \A v \in Users \ stale'.wallet :
                    doc[v].saved /\ doc[v].wallet => doc'[v].saved /\ doc'[v].wallet
    <3>1. Save(u, copy, new) /\ new.saved /\ (copy.wallet => new.wallet)
      BY <2>3 DEF Resaves
    <3>2. /\ doc' = [doc EXCEPT ![u] = new] /\ stale.wallet \subseteq stale'.wallet
          /\ u \notin stale'.wallet => (doc[u].wallet => new.wallet)
      BY <3>1, Saving
    <3> QED BY <1>0, <3>1, <3>2
  <2> QED BY <2>1, <2>2, <2>3, Documents, Zenon
\* Who has none gets one only by being asked for.
<1>2. CASE AskForCard
  <2>1. /\ Working("ask") /\ work.task = "wallet" /\ doc' = doc /\ stale' = stale
        /\ work'.step = "wait"
    BY <1>0, <1>2 DEF AskForCard, Ask, Consumer, Working, Work, documents
  <2>2. work.user \notin stale.wallet =>
          Mints(work.user) = {} /\ doc[work.user].saved /\ doc[work.user].wallet
    BY <2>1 DEF Wallets, Accounts, Working
  <2>3. PICK C \in SUBSET Calls :
          \A u \in Users :
            /\ u # work.user => Mints(u)' = Mints(u)
            /\ u = work.user => Mints(u)' = Mints(u) \cup C
            /\ \A c, d \in C : c = d
    <3>1. ASSUME \A u \in Users : Mints(u)' = Mints(u)
          PROVE  \E C \in SUBSET Calls :
                   \A u \in Users :
                     /\ u # work.user => Mints(u)' = Mints(u)
                     /\ u = work.user => Mints(u)' = Mints(u) \cup C
                     /\ \A b, d \in C : b = d
      <4> WITNESS {} \in SUBSET Calls
      <4> QED BY <3>1
    <3>2. ASSUME NEW c \in Calls,
                 \A u \in Users :
                   Mints(u)' = IF u = work.user THEN Mints(u) \cup {c} ELSE Mints(u)
          PROVE  \E C \in SUBSET Calls :
                   \A u \in Users :
                     /\ u # work.user => Mints(u)' = Mints(u)
                     /\ u = work.user => Mints(u)' = Mints(u) \cup C
                     /\ \A b, d \in C : b = d
      <4> WITNESS {c} \in SUBSET Calls
      <4> QED BY <3>2
    <3> QED BY <3>1, <3>2, MintsKept
  <2>4. \A u \in Users \ stale'.wallet : Mints(u)' # {} => doc'[u].saved /\ doc'[u].wallet
    BY <2>1, <2>2, <2>3 DEF Wallets
  <2>5. OneCardPerUser'
    BY <1>0, <2>1, <2>2, <2>3 DEF OneCardPerUser
  <2> QED BY <2>1, <2>4, <2>5 DEF Wallets, Working
<1>3. CASE \A u \in Users : Mints(u)' = Mints(u)
  <2>1. OneCardPerUser'
    BY <1>1, <1>3 DEF OneCardPerUser
  <2>2. \A u \in Users \ stale'.wallet : Mints(u)' # {} => doc'[u].saved /\ doc'[u].wallet
    BY <1>1, <1>3 DEF Wallets
  <2>3. work'.step \in {"okto", "read", "save", "ask"} /\ work'.user \notin stale'.wallet =>
          Mints(work'.user) = {}
    <3>1. CASE work'.user = work.user /\ work.step \in {"okto", "read", "save", "ask"}
      BY <1>1, <3>1 DEF Wallets
    <3>2. ASSUME NEW u \in Users, TakeCreateWallet(u), work' # work
          PROVE  Mints(work'.user) = {} \/ work'.user \in stale'.wallet
      <4>1. work'.user = u /\ ~doc[u].wallet
        BY <1>0, <3>2 DEF TakeCreateWallet, Idle, NeedsWallet
      <4> QED BY <1>1, <4>1 DEF Wallets
    <3>3. CASE Consume \/ GiveUp
      BY <3>1, <3>2, <3>3, WorkSteps
    <3>4. CASE CrashCore
      BY <3>4 DEF CrashCore, Idle
    <3>5. CASE work' = work
      BY <1>1, <3>5 DEF Wallets
    <3>6. ASSUME NEW c \in Calls, Serve(c) \/ NftFails(c) PROVE work' = work
      BY <3>6, ServeFrame
    <3> QED BY <3>3, <3>4, <3>5, <3>6, Otherwise, Zenon
  <2>4. work'.step = "ask" /\ work'.user \notin stale'.wallet => doc'[work'.user].wallet
    <3>1. CASE SaveWallet
      <4>1. work'.user = work.user /\ doc'[work.user].wallet
        BY <1>0, <3>1 DEF SaveWallet, Save, Write, Work, Document
      <4> QED BY <4>1
    <3>2. CASE work' = work
      <4>1. work.step = "ask" /\ work.user \notin stale'.wallet =>
              doc[work.user].saved /\ doc[work.user].wallet
        BY <1>1 DEF Wallets, Accounts, Consumer, Working
      <4> QED BY <1>0, <1>1, <3>2, <4>1
    <3>3. CASE Consume \/ GiveUp
      BY <3>1, <3>3, WorkSteps
    <3>4. CASE CrashCore
      BY <3>4 DEF CrashCore, Idle
    <3>5. ASSUME NEW c \in Calls, Serve(c) \/ NftFails(c) PROVE work' = work
      BY <3>5, ServeFrame
    <3> QED BY <3>2, <3>3, <3>4, <3>5, Otherwise, Zenon
  <2>5. work'.user \in Users
    BY DEF OnboardingTypeOK, Work
  <2>6. \A u \in Users : Mints(u) = {c \in Calls : call'[c].receiver /\ call'[c].user = u}
    BY <1>3 DEF Mints
  <2>7. work'.step \in {"okto", "read", "save", "ask"} /\ work'.user \notin stale'.wallet =>
          Mints(work.user)' = {}
    BY <2>3, <2>5, <2>6 DEF Mints
  <2> QED BY <2>1, <2>2, <2>4, <2>7 DEF Wallets, Working
<1> QED BY <1>2, <1>3, MintsKept

-----------------------------------------------------------------------------
(***************************************************************************)
(* Calls of nft-service                                                    *)
(***************************************************************************)

\* A step of a call, or its failure.
LEMMA Progress ==
  ASSUME OnboardingTypeOK, OnboardingTypeOK', CallsInOrder, BadgesMatchCards,
         NEW c \in Calls, Serve(c) \/ NftFails(c)
  PROVE  /\ InProgress(c)
         /\ call'[c].step \notin {"none", "upload"}
         /\ \A d \in Calls : d # c => call'[d] = call[d]
         /\ \A d \in Calls : /\ call'[d].user = call[d].user
                             /\ call'[d].receiver = call[d].receiver
                             /\ call'[d].shows = call[d].shows
         /\ Kind(c)'
<1>0. /\ call \in [Calls -> Call] /\ failures \in Nat /\ failures' \in Nat
      /\ call[c].user \in Users /\ badge[call[c].user] \in {None, Unknown} \cup Calls
  <2>1. /\ call \in [Calls -> Call] /\ call[c] \in Call
        /\ badge \in [Users -> {None, Unknown} \cup Calls]
    BY DEF OnboardingTypeOK
  <2>2. call[c].user \in Users
    BY <2>1 DEF Call
  <2> QED BY <2>1, <2>2, Values, FailuresNext
<1>1. Kind(c)
  BY DEF CallsInOrder
<1>2. UNCHANGED badge
  BY ServeFrame
<1>3. ASSUME NEW s \in CallSteps, Advances(c, s)
      PROVE  /\ call'[c].step = s
             /\ \A d \in Calls : d # c => call'[d] = call[d]
             /\ \A d \in Calls : /\ call'[d].user = call[d].user
                                 /\ call'[d].receiver = call[d].receiver
                                 /\ call'[d].shows = call[d].shows
  BY <1>0, <1>3 DEF Advances, Call
<1>4. CASE UploadMetadata(c)
  <2>1. /\ call[c].step = "upload" /\ failures' = failures
        /\ Advances(c, IF IsMint(c) THEN "create" ELSE "update")
    BY <1>4 DEF UploadMetadata, history
  <2>2. CASE IsMint(c)
    <3>1. call'[c].step = "create"
      BY <1>3, <2>1, <2>2 DEF CallSteps
    <3>2. call[c].receiver \/ failures > 0
      <4>1. CASE call[c].receiver
        BY <4>1
      <4>2. CASE ~call[c].receiver
        <5>1. badge[call[c].user] \notin Calls
          BY <2>2, <4>2 DEF IsMint
        <5>2. badge[call[c].user] # None
          BY <1>1, <2>1, <4>2 DEF Kind
        <5>3. badge[call[c].user] = Unknown
          BY <1>0, <5>1, <5>2
        <5> QED BY <1>0, <5>3 DEF BadgesMatchCards
      <4> QED BY <4>1, <4>2
    <3> QED BY <1>0, <1>1, <1>2, <1>3, <2>1, <2>2, <3>1, <3>2 DEF Kind, InProgress, CallSteps
  <2>3. CASE ~IsMint(c)
    <3>1. call'[c].step = "update" /\ ~call[c].receiver
      BY <1>3, <2>1, <2>3 DEF CallSteps, IsMint
    <3> QED BY <1>0, <1>1, <1>2, <1>3, <2>1, <2>3, <3>1 DEF Kind, InProgress, CallSteps
  <2> QED BY <2>2, <2>3
<1>5. CASE CreateNft(c)
  BY <1>0, <1>1, <1>2, <1>3, <1>5 DEF CreateNft, Kind, InProgress, CallSteps, history
<1>6. CASE VerifyCollection(c)
  BY <1>0, <1>1, <1>2, <1>3, <1>6 DEF VerifyCollection, Kind, InProgress, CallSteps,
     history
<1>7. CASE TransferNft(c)
  BY <1>0, <1>1, <1>2, <1>3, <1>7 DEF TransferNft, Kind, InProgress, CallSteps, history
<1>8. CASE UpdateNftUri(c)
  BY <1>0, <1>1, <1>2, <1>3, <1>8 DEF UpdateNftUri, Kind, InProgress, CallSteps, history
<1>9. CASE NftFails(c)
  <2>1. failures' > 0 /\ Advances(c, "failed")
    BY <1>0, <1>9 DEF NftFails, Fail
  <2>2. InProgress(c)
    BY <1>9 DEF NftFails, InProgress
  <2> QED BY <1>0, <1>1, <1>2, <1>3, <2>1, <2>2 DEF Kind, InProgress, CallSteps
<1> QED BY <1>4, <1>5, <1>6, <1>7, <1>8, <1>9 DEF Serve

\* A badge stays, and failures are not forgotten.
LEMMA Monotone ==
  ASSUME OnboardingTypeOK, OnboardingTypeOK', Consumer, Accounts, OnboardingNext
  PROVE  /\ \A u \in Users : badge[u] # None => badge'[u] = badge[u]
         /\ failures > 0 => failures' > 0
         /\ stale.wallet \subseteq stale'.wallet /\ stale.points \subseteq stale'.points
         /\ early \subseteq early'
<1>0. failures \in Nat /\ failures' \in Nat
  BY OnboardingAssumption DEF OnboardingTypeOK
<1>1. \A u \in Users : badge[u] # None => badge'[u] = badge[u]
  <2>1. ASSUME AddBadge PROVE \A u \in Users : badge[u] # None => badge'[u] = badge[u]
    BY <2>1 DEF AddBadge, OnboardingTypeOK
  <2>2. CASE Consume /\ ~AddBadge
    BY <2>2 DEF Consume, TakeCreateWallet, TakeUpdate, CreateWallet, ReadForWallet,
       SaveWallet, AskForCard, TakeAnswer
  <2>3. CASE GiveUp \/ CrashCore
    BY <2>3 DEF GiveUp, CrashCore
  <2> QED BY <2>1, <2>2, <2>3, Otherwise, ServeFrame
<1>2. failures' = failures \/ failures' = failures + 1
  <2>1. CASE Consume
    BY <2>1 DEF Consume, TakeCreateWallet, TakeUpdate, CreateWallet, ReadForWallet,
       SaveWallet, AskForCard, TakeAnswer, AddBadge, history
  <2>2. CASE GiveUp \/ CrashCore
    BY <2>2 DEF GiveUp, CrashCore, Fail
  <2>3. ASSUME NEW c \in Calls, Serve(c) \/ NftFails(c)
        PROVE  failures' = failures \/ failures' = failures + 1
    BY <2>3 DEF Serve, UploadMetadata, CreateNft, VerifyCollection, TransferNft,
       UpdateNftUri, NftFails, Fail, history
  <2> QED BY <2>1, <2>2, <2>3, Otherwise, Zenon
<1>3. early \subseteq early'
  <2>1. ASSUME NEW k \in Additions, AddPoints(k) \/ AdditionFails(k)
        PROVE  early \subseteq early'
    <3>1. CASE SendUpdate(k)
      BY <3>1 DEF SendUpdate
    <3>2. CASE UNCHANGED early
      BY <3>2
    <3> QED BY <2>1, <3>1, <3>2, PointsFrame
  <2>2. CASE CrashCore
    BY <2>2 DEF CrashCore
  <2>3. ASSUME NEW l \in Logins, Web(l) \/ RequestFails(l) PROVE early \subseteq early'
    BY <2>3, WebFrame, FailFrame
  <2>4. ASSUME NEW c \in Calls, Serve(c) \/ NftFails(c) PROVE early \subseteq early'
    BY <2>4, ServeFrame
  <2>5. CASE Consume \/ GiveUp
    BY <2>5, ConsumeFrame
  <2> QED BY <2>1, <2>2, <2>3, <2>4, <2>5, Zenon DEF OnboardingNext
<1>4. stale.wallet \subseteq stale'.wallet /\ stale.points \subseteq stale'.points
  <2>1. CASE UNCHANGED <<doc, had, stale>>
    BY <2>1
  <2>2. ASSUME NEW l \in Logins, SaveUser(l) PROVE stale' = stale
    BY <2>2 DEF SaveUser
  <2>3. ASSUME NEW u \in Users, NEW copy \in Document, NEW new \in Document,
               Resaves(u, copy, new)
        PROVE  stale.wallet \subseteq stale'.wallet /\ stale.points \subseteq stale'.points
    <3>1. Save(u, copy, new)
      BY <2>3 DEF Resaves
    <3> QED BY <3>1, Saving
  <2> QED BY <2>1, <2>2, <2>3, Documents, Zenon
<1> QED BY <1>0, <1>1, <1>2, <1>3, <1>4

\* The consumer asks when no call is in progress that it has not given up.
LEMMA AskStep ==
  ASSUME OnboardingTypeOK, CallsInOrder, NEW u \in Users, NEW shows \in Face,
         NEW receiver \in BOOLEAN, Ask(u, shows, receiver),
         receiver => shows = First, receiver <=> work.task = "wallet",
         ~receiver => badge[u] # None, work.asked = None,
         UNCHANGED <<badge, failures, update>>
  PROVE  CallsInOrder'
<1> DEFINE r == [step |-> "upload", user |-> u, shows |-> shows, receiver |-> receiver]
<1>1. PICK c \in Calls : Made(c, u, shows, receiver)
  BY Asking, Zenon
<1>2. /\ r.step = "upload" /\ r.user = u /\ r.shows = shows
      /\ r.receiver = receiver
  OBVIOUS
<1>3. call'[c] = r /\ \A d \in Calls : d # c => call'[d] = call[d]
  <2>1. call' = [call EXCEPT ![c] = r] /\ call[c].step = "none"
    BY <1>1 DEF Made
  <2> HIDE DEF r
  <2> QED BY <2>1 DEF OnboardingTypeOK
<1> HIDE DEF r
<1>4. work'.step = "wait" /\ work'.user = u /\ work'.asked = c /\ work'.task = work.task
  BY <1>1 DEF Made, OnboardingTypeOK, Work
<1>5. ASSUME NEW d \in Calls PROVE Kind(d)'
  <2>1. CASE d = c
    BY <1>2, <1>3, <2>1 DEF Kind
  <2>2. CASE d # c
    <3>1. Kind(d) /\ call'[d] = call[d]
      BY <1>3, <2>2 DEF CallsInOrder
    <3> QED BY <3>1 DEF Kind
  <2> QED BY <2>1, <2>2
<1>6. ASSUME NEW d \in Calls PROVE InProgress(d)' => work'.asked = d \/ failures' > 0
  <2>1. CASE d = c
    BY <1>4, <2>1
  <2>2. CASE d # c
    BY <1>3, <2>2, Numbers DEF CallsInOrder, InProgress
  <2> QED BY <2>1, <2>2
<1>7. \A v \in Users : update'[v] > 0 => badge'[v] # None
  BY DEF CallsInOrder
<1>8. call'[work'.asked].user = work'.user /\ call'[work'.asked].step # "none"
  BY <1>2, <1>3, <1>4
<1>9. call'[work'.asked].receiver <=> work'.task = "wallet"
  BY <1>2, <1>3, <1>4
<1>10. \E n \in 0..MaxCalls : {d \in Calls : call'[d].step # "none"} = 1..n
  BY Asking, Zenon
<1> QED BY <1>5, <1>6, <1>7, <1>8, <1>9, <1>10 DEF CallsInOrder

\* Otherwise a step lets calls go on and the consumer wait, or gives up.
LEMMA CallsStep ==
  ASSUME OnboardingTypeOK, OnboardingTypeOK', Consumer, Accounts, CallsInOrder, Token,
         BadgesMatchCards, OnboardingNext
  PROVE  CallsInOrder'
<1>0. /\ failures \in Nat /\ failures' \in Nat /\ work \in Work /\ work.user \in Users
      /\ update \in [Users -> Nat] /\ update' \in [Users -> Nat]
      /\ call \in [Calls -> Call]
  BY OnboardingAssumption DEF OnboardingTypeOK, Work
<1>1. CASE AskForCard
  <2>1. /\ Ask(work.user, First, TRUE) /\ work.task = "wallet" /\ work.asked = None
        /\ UNCHANGED <<badge, failures, update>>
    BY <1>1 DEF AskForCard, Consumer, Working, queue, history
  <2> QED BY <1>0, <2>1, FirstIsFace, AskStep
<1>2. ASSUME NEW u \in Users, TakeUpdate(u) PROVE CallsInOrder'
  <2>1. /\ Ask(u, FaceNow(u), FALSE) /\ work.task = "card" /\ work.asked = None
        /\ UNCHANGED <<badge, failures, update>> /\ update[u] > 0
    BY <1>2 DEF TakeUpdate, Consumer, Working, queue, history
  <2>2. badge[u] # None /\ FaceNow(u) \in Face
    BY <2>1, FaceOf DEF CallsInOrder
  <2> QED BY <2>1, <2>2, AskStep
<1>3. ASSUME NEW c \in Calls, Serve(c) \/ NftFails(c) PROVE CallsInOrder'
  <2>1. /\ InProgress(c) /\ call'[c].step \notin {"none", "upload"}
        /\ \A d \in Calls : d # c => call'[d] = call[d]
        /\ \A d \in Calls : /\ call'[d].user = call[d].user
                            /\ call'[d].receiver = call[d].receiver
        /\ Kind(c)'
    BY <1>3, Progress
  <2>2. UNCHANGED <<update, badge, work>> /\ (failures > 0 => failures' > 0)
    BY <1>3, ServeFrame, Monotone
  <2>3. {d \in Calls : call'[d].step # "none"} = {d \in Calls : call[d].step # "none"}
    BY <2>1 DEF InProgress
  <2>4. ASSUME NEW d \in Calls PROVE Kind(d)'
    <3>1. CASE d # c
      <4>1. Kind(d) /\ call'[d] = call[d]
        BY <2>1, <3>1 DEF CallsInOrder
      <4> QED BY <1>0, <2>2, <4>1 DEF Kind
    <3> QED BY <2>1, <3>1
  <2>5. \A d \in Calls : InProgress(d)' => InProgress(d)
    BY <2>1 DEF InProgress
  <2>6. \A d \in Calls : InProgress(d)' => work'.asked = d \/ failures' > 0
    BY <2>2, <2>5 DEF CallsInOrder
  <2>7. work'.step \in {"wait", "add"} =>
          /\ call'[work'.asked].user = work'.user
          /\ call'[work'.asked].step # "none"
          /\ call'[work'.asked].receiver <=> work'.task = "wallet"
    <3>1. work.step \in {"wait", "add"} => work.asked \in Calls
      BY DEF Consumer
    <3> QED BY <2>1, <2>2, <3>1 DEF CallsInOrder
  <2> QED BY <2>2, <2>3, <2>4, <2>6, <2>7 DEF CallsInOrder
\* The calls stay as they are.
<1>4. ASSUME UNCHANGED call,
             \A c \in Calls : InProgress(c) => work'.asked = c \/ failures' > 0,
             \A u \in Users : update'[u] > 0 => badge'[u] # None,
             \/ work'.step \notin {"wait", "add"}
             \/ /\ work.step \in {"wait", "add"} /\ work'.user = work.user
                /\ work'.task = work.task /\ work'.asked = work.asked
      PROVE  CallsInOrder'
  <2>1. \A c \in Calls : Kind(c)'
    <3>1. /\ \A u \in Users : badge[u] # None => badge'[u] # None
          /\ failures > 0 => failures' > 0
      BY Monotone
    <3>2. ASSUME NEW c \in Calls PROVE Kind(c)'
      <4>1. call[c].user \in Users /\ call'[c] = call[c] /\ Kind(c)
        BY <1>0, <1>4 DEF Call, CallsInOrder
      <4> QED BY <1>0, <3>1, <4>1 DEF Kind
    <3> QED BY <3>2
  <2>2. \A c \in Calls : InProgress(c)' => work'.asked = c \/ failures' > 0
    BY <1>4 DEF InProgress
  <2>3. work'.step \in {"wait", "add"} =>
          /\ call'[work'.asked].user = work'.user
          /\ call'[work'.asked].step # "none"
          /\ call'[work'.asked].receiver <=> work'.task = "wallet"
    BY <1>4 DEF CallsInOrder
  <2>4. \E n \in 0..MaxCalls : {c \in Calls : call'[c].step # "none"} = 1..n
    BY <1>4 DEF CallsInOrder
  <2> QED BY <1>4, <2>1, <2>2, <2>3, <2>4 DEF CallsInOrder
<1>5. ASSUME UNCHANGED <<call, work, update, badge>> PROVE CallsInOrder'
  <2>1. /\ \A c \in Calls : InProgress(c) => work'.asked = c \/ failures' > 0
        /\ \A u \in Users : update'[u] > 0 => badge'[u] # None
    BY <1>5, Monotone DEF CallsInOrder
  <2>2. \/ work'.step \notin {"wait", "add"}
        \/ /\ work.step \in {"wait", "add"} /\ work'.user = work.user
           /\ work'.task = work.task /\ work'.asked = work.asked
    BY <1>5
  <2> QED BY <1>4, <1>5, <2>1, <2>2
<1>6. ASSUME NEW l \in Logins, Web(l) \/ RequestFails(l) PROVE CallsInOrder'
  <2>1. UNCHANGED <<call, work, update, badge>>
    BY <1>6, WebFrame, FailFrame
  <2> QED BY <1>5, <2>1
<1>7. ASSUME NEW k \in Additions, AddPoints(k) \/ AdditionFails(k), ~SendUpdate(k)
      PROVE  CallsInOrder'
  <2>1. UNCHANGED <<call, work, update, badge>>
    BY <1>7, PointsFrame
  <2> QED BY <1>5, <2>1
<1>8. ASSUME NEW k \in Additions, SendUpdate(k) PROVE CallsInOrder'
  <2>0. addition[k].user \in Users
    BY DEF OnboardingTypeOK, Addition
  <2>1. /\ UNCHANGED <<call, work, badge, failures>>
        /\ \A v \in Users : update'[v] > 0 => update[v] > 0 \/ badge[v] # None
    BY <1>0, <1>8, <2>0 DEF SendUpdate, nft
  <2>2. /\ \A c \in Calls : InProgress(c) => work'.asked = c \/ failures' > 0
        /\ \A v \in Users : update'[v] > 0 => badge'[v] # None
    BY <2>1 DEF CallsInOrder
  <2>3. \/ work'.step \notin {"wait", "add"}
        \/ /\ work.step \in {"wait", "add"} /\ work'.user = work.user
           /\ work'.task = work.task /\ work'.asked = work.asked
    BY <2>1
  <2> QED BY <1>4, <2>1, <2>2, <2>3
<1>9. CASE GiveUp \/ CrashCore
  <2>1. failures' > 0 /\ UNCHANGED <<call, badge>> /\ work' = Idle
    BY <1>0, <1>9 DEF GiveUp, CrashCore, Fail, Finish, nft
  <2>2. \A u \in Users : update'[u] <= update[u]
    <3>1. CASE GiveUp
      <4>1. ~Working("idle") /\ Finish
        BY <3>1 DEF GiveUp, Working
      <4> QED BY <4>1, Finishing
    <3>2. CASE CrashCore
      BY <1>0, <3>2 DEF CrashCore, queue
    <3> QED BY <1>9, <3>1, <3>2
  <2>3. \A u \in Users : update'[u] > 0 => badge'[u] # None
    BY <1>0, <2>1, <2>2 DEF CallsInOrder
  <2>4. work'.step \notin {"wait", "add"}
    BY <2>1 DEF Idle
  <2> QED BY <1>4, <2>1, <2>3, <2>4
<1>10. CASE TakeAnswer
  <2>1. /\ work.step = "wait" /\ Answered(call[work.asked])
        /\ UNCHANGED <<call, badge, failures>>
    BY <1>10 DEF TakeAnswer, Working, nft, history
  <2>2. CASE work.task = "wallet"
    <3>1. PICK t \in {Unknown, work.asked} :
            work' = [work EXCEPT !.step = "add", !.token = t]
      BY <1>10, <2>2 DEF TakeAnswer
    <3>2. work'.user = work.user /\ work'.task = work.task /\ work'.asked = work.asked
      BY <1>0, <3>1 DEF Work
    <3>3. UNCHANGED update
      BY <1>10, <2>2 DEF TakeAnswer, queue
    <3> QED BY <1>4, <2>1, <3>2, <3>3 DEF CallsInOrder
  <2>3. CASE work.task # "wallet"
    <3>1. ~Working("idle") /\ Finish
      BY <1>10, <2>3 DEF TakeAnswer, Working
    <3>2. work' = Idle /\ \A u \in Users : update'[u] <= update[u]
      BY <3>1, Finishing
    <3>3. ~InProgress(work.asked)
      BY <2>1 DEF Answered, InProgress
    <3>4. \A c \in Calls : InProgress(c) => failures' > 0
      BY <2>1, <3>3 DEF CallsInOrder
    <3>5. \A u \in Users : update'[u] > 0 => badge'[u] # None
      BY <1>0, <2>1, <3>2 DEF CallsInOrder
    <3>6. work'.step \notin {"wait", "add"}
      BY <3>2 DEF Idle
    <3> QED BY <1>4, <2>1, <3>4, <3>5, <3>6
  <2> QED BY <2>2, <2>3
<1>11. CASE AddBadge
  <2>1. /\ work.step = "add" /\ Finish /\ UNCHANGED <<call, failures>>
        /\ ~Working("idle") /\ Working("add")
    BY <1>11 DEF AddBadge, Working, nft, history
  <2>2. work' = Idle /\ \A u \in Users : update'[u] <= update[u]
    BY <2>1, Finishing
  <2>3. ~InProgress(work.asked) \/ failures > 0
    BY <2>1 DEF Token, InProgress
  <2>4. \A c \in Calls : InProgress(c) => failures' > 0
    BY <2>1, <2>3 DEF CallsInOrder
  <2>5. \A u \in Users : update'[u] > 0 => badge'[u] # None
    BY <1>0, <2>2, Monotone DEF CallsInOrder
  <2>6. work'.step \notin {"wait", "add"}
    BY <2>2 DEF Idle
  <2> QED BY <1>4, <2>1, <2>4, <2>5, <2>6
<1>12. ASSUME NEW u \in Users, TakeCreateWallet(u) PROVE CallsInOrder'
  <2>1. /\ Working("idle") /\ UNCHANGED <<call, update, badge, failures>>
        /\ work'.step \in {"idle", "okto"}
    BY <1>12 DEF TakeCreateWallet, nft, history, Working, Idle
  <2>2. \A c \in Calls : InProgress(c) => failures' > 0
    BY <2>1, Numbers DEF CallsInOrder, Consumer, Working
  <2> QED BY <1>4, <2>1, <2>2 DEF CallsInOrder
<1>13. CASE CreateWallet \/ ReadForWallet \/ SaveWallet
  <2>1. /\ work.step \notin {"wait", "add"} /\ UNCHANGED <<call, update, badge, failures>>
        /\ work'.step \notin {"wait", "add"}
    BY <1>0, <1>13 DEF CreateWallet, ReadForWallet, SaveWallet, queue, nft, history,
       Working, Work
  <2>2. \A c \in Calls : InProgress(c) => failures' > 0
    BY <2>1, Numbers DEF CallsInOrder, Consumer
  <2> QED BY <1>4, <2>1, <2>2 DEF CallsInOrder
<1> QED BY <1>1, <1>2, <1>3, <1>6, <1>7, <1>8, <1>9, <1>10, <1>11, <1>12, <1>13
    DEF OnboardingNext, Consume

-----------------------------------------------------------------------------
(***************************************************************************)
(* Badges                                                                  *)
(***************************************************************************)

\* What has been transferred stays so, and only TransferNft transfers.
LEMMA Settled ==
  ASSUME OnboardingTypeOK, OnboardingTypeOK', Consumer, CallsInOrder, BadgesMatchCards,
         OnboardingNext, NEW c \in Calls
  PROVE  /\ call[c].step \notin {"none", "upload"} /\ ~InProgress(c) => call'[c] = call[c]
         /\ call'[c].step = "sent" => call[c].step = "sent" \/ TransferNft(c)
<1>1. ASSUME NEW d \in Calls, Serve(d) \/ NftFails(d)
      PROVE  /\ call[c].step \notin {"none", "upload"} /\ ~InProgress(c) =>
                  call'[c] = call[c]
             /\ call'[c].step = "sent" => call[c].step = "sent" \/ TransferNft(c)
  <2>1. InProgress(d) /\ \A b \in Calls : b # d => call'[b] = call[b]
    BY <1>1, Progress
  <2>2. CASE d # c
    BY <2>1, <2>2
  <2>3. CASE d = c
    <3>1. CASE TransferNft(d)
      BY <2>1, <2>3, <3>1
    <3>2. ASSUME NEW s \in CallSteps \ {"sent"}, Advances(d, s) PROVE call'[d].step # "sent"
      BY <3>2 DEF Advances, OnboardingTypeOK, Call
    <3>3. CASE ~TransferNft(d)
      <4>1. call'[d].step # "sent"
        BY <1>1, <3>2, <3>3 DEF Serve, UploadMetadata, CreateNft, VerifyCollection,
           UpdateNftUri, NftFails, CallSteps
      <4> QED BY <2>1, <2>3, <4>1
    <3> QED BY <3>1, <3>3
  <2> QED BY <2>2, <2>3
<1>2. ASSUME NEW u \in Users, NEW shows \in Face, NEW receiver \in BOOLEAN,
             Ask(u, shows, receiver)
      PROVE  /\ call[c].step # "none" => call'[c] = call[c]
             /\ call'[c].step = "sent" => call[c].step = "sent"
  <2>1. PICK d \in Calls : Made(d, u, shows, receiver)
    BY <1>2, Asking, Zenon
  <2>2. call[d].step = "none" /\ call'[d].step = "upload"
        /\ \A b \in Calls : b # d => call'[b] = call[b]
    BY <2>1 DEF Made, OnboardingTypeOK
  <2> QED BY <2>2
<1>3. CASE AskForCard
  <2>1. work.user \in Users /\ Ask(work.user, First, TRUE)
    BY <1>3 DEF AskForCard, OnboardingTypeOK, Work
  <2> QED BY <1>2, <2>1, FirstIsFace
<1>4. ASSUME NEW u \in Users, TakeUpdate(u)
      PROVE  /\ call[c].step # "none" => call'[c] = call[c]
             /\ call'[c].step = "sent" => call[c].step = "sent"
  <2>1. FaceNow(u) \in Face
    BY FaceOf
  <2>2. Ask(u, FaceNow(u), FALSE)
    BY <1>4 DEF TakeUpdate
  <2> QED BY <1>2, <2>1, <2>2
<1>5. CASE UNCHANGED call
  BY <1>5
<1>6. CASE Consume /\ ~AskForCard /\ \A u \in Users : ~TakeUpdate(u)
  BY <1>5, <1>6 DEF Consume, TakeCreateWallet, CreateWallet, ReadForWallet, SaveWallet,
     TakeAnswer, AddBadge, nft
<1>7. CASE GiveUp \/ CrashCore
  BY <1>5, <1>7 DEF GiveUp, CrashCore, nft
<1> QED BY <1>1, <1>3, <1>4, <1>5, <1>6, <1>7, Otherwise

\* The steps that end what the consumer has in hand, or leave it as it is.
LEMMA InHand ==
  ASSUME OnboardingTypeOK, OnboardingTypeOK', Consumer, OnboardingNext
  PROVE  \/ work' = work
         \/ TakeAnswer /\ work.task = "wallet"
         \/ TakeAnswer /\ work.task = "card" /\ Finish
         \/ AddBadge /\ Finish
         \/ (GiveUp \/ CrashCore) /\ failures' > 0 /\ work' = Idle
         \/ work.step \notin {"wait", "add"} /\ work'.step # "add"
<1>0. work \in Work /\ failures \in Nat
  BY OnboardingAssumption DEF OnboardingTypeOK
<1>1. CASE Consume
  <2>1. CASE TakeAnswer
    BY <1>0, <2>1 DEF TakeAnswer, Work
  <2>2. CASE AddBadge
    BY <2>2 DEF AddBadge
  <2>3. CASE ~TakeAnswer /\ ~AddBadge
    <3>1. work.step \notin {"wait", "add"}
      BY <1>1, <2>3 DEF Consume, TakeCreateWallet, TakeUpdate, CreateWallet,
         ReadForWallet, SaveWallet, AskForCard, Working
    <3>2. work'.step # "add"
      <4>1. ASSUME NEW u \in Users, TakeUpdate(u) PROVE work'.step = "wait"
        BY <1>0, <4>1 DEF TakeUpdate, Ask, Work
      <4>2. ASSUME NEW u \in Users, TakeCreateWallet(u) PROVE work'.step # "add"
        BY <4>2 DEF TakeCreateWallet, Working, Idle
      <4>3. CASE AskForCard
        <5>1. PICK c \in Calls :
                work' = [work EXCEPT !.step = "wait", !.user = work.user, !.asked = c]
          BY <4>3, Zenon DEF AskForCard, Ask
        <5> QED BY <1>0, <5>1 DEF Work
      <4>4. CASE CreateWallet \/ ReadForWallet \/ SaveWallet
        BY <1>0, <4>4 DEF CreateWallet, ReadForWallet, SaveWallet, Work
      <4> QED BY <1>1, <2>3, <4>1, <4>2, <4>3, <4>4 DEF Consume
    <3> QED BY <3>1, <3>2
  <2> QED BY <2>1, <2>2, <2>3
<1>2. CASE GiveUp \/ CrashCore
  BY <1>0, <1>2 DEF GiveUp, CrashCore, Fail, Finish
<1> QED BY <1>1, <1>2, Otherwise, ServeFrame

LEMMA TokenStep ==
  ASSUME OnboardingTypeOK, OnboardingTypeOK', Consumer, Accounts, CallsInOrder, Token,
         BadgesMatchCards, OnboardingNext
  PROVE  Token'
<1>0. work \in Work /\ (failures > 0 => failures' > 0)
  BY Monotone DEF OnboardingTypeOK
<1>1. CASE work' = work
  <2>1. CASE work.step = "add"
    <3>1. work.asked \in Calls
      BY <2>1 DEF Consumer
    <3>2. call[work.asked].step = "sent" => call'[work.asked].step = "sent"
      BY <3>1, Settled DEF InProgress
    <3> QED BY <1>0, <1>1, <2>1, <3>2 DEF Token, Working
  <2>2. CASE work.step # "add"
    BY <1>1, <2>2 DEF Token, Working
  <2> QED BY <2>1, <2>2
<1>2. CASE TakeAnswer /\ work.task = "wallet"
  <2> DEFINE c == call[work.asked]
  <2>1. /\ work.step = "wait" /\ Answered(c) /\ UNCHANGED <<call, failures>>
        /\ work' = [work EXCEPT !.step = "add",
                      !.token = IF c.step = "failed" THEN Unknown ELSE work.asked]
    BY <1>2 DEF TakeAnswer, Working, nft, history
  <2>2. work.asked \in Calls /\ c.receiver /\ Kind(work.asked)
    BY <1>2, <2>1 DEF Consumer, CallsInOrder
  <2>3. c.step = "sent" \/ (c.step = "failed" /\ failures > 0)
    BY <2>1, <2>2 DEF Answered, Kind
  <2>4. /\ work'.asked = work.asked
        /\ work'.token = IF c.step = "failed" THEN Unknown ELSE work.asked
    BY <1>0, <2>1 DEF Work
  <2> QED BY <2>1, <2>3, <2>4 DEF Token
<1>3. CASE Finish \/ work' = Idle
  BY <1>3 DEF Finish, Idle, Token, Working
<1>4. CASE work'.step # "add"
  BY <1>4 DEF Token, Working
<1> QED BY <1>1, <1>2, <1>3, <1>4, InHand

LEMMA BadgesStep ==
  ASSUME OnboardingTypeOK, OnboardingTypeOK', Consumer, Accounts, CallsInOrder, OneCardPerUser,
         Token, BadgesMatchCards, OnboardingNext
  PROVE  BadgesMatchCards'
<1>0. /\ work \in Work /\ work.user \in Users /\ call \in [Calls -> Call]
      /\ badge \in [Users -> {None, Unknown} \cup Calls]
      /\ \A c \in Calls : call[c].user \in Users
  BY DEF OnboardingTypeOK, Work, Call
<1>1. /\ \A u \in Users : badge[u] # None => badge'[u] = badge[u]
      /\ failures > 0 => failures' > 0
      /\ stale.wallet \subseteq stale'.wallet
  BY Monotone
<1>2. \A c \in Calls : call[c].step = "sent" => call'[c] = call[c]
  BY Settled DEF InProgress
<1>3. \A c \in Calls : call[c].step = "sent" => call[c].receiver
  BY DEF CallsInOrder, Kind
\* The badge that is added.
<1>4. ASSUME AddBadge
      PROVE  /\ \A u \in Users : badge'[u] = badge[u] \/ (u = work.user /\ badge[u] = None)
             /\ badge[work.user] = None => badge'[work.user] = work.token
             /\ \/ work.token = Unknown /\ failures > 0
                \/ /\ work.token = work.asked /\ work.asked \in Mints(work.user)
                   /\ call[work.asked].step = "sent"
  <2>1. \A u \in Users : badge'[u] = badge[u] \/ (u = work.user /\ badge[u] = None)
    BY <1>0, <1>4 DEF AddBadge
  <2>2. badge[work.user] = None => badge'[work.user] = work.token
    BY <1>0, <1>4 DEF AddBadge
  <2>3. work.step = "add" /\ work.task = "wallet" /\ work.asked \in Calls
    BY <1>4 DEF AddBadge, Working, Consumer
  <2>4. work.asked \in Mints(work.user)
    BY <2>3 DEF Mints, CallsInOrder
  <2> QED BY <2>1, <2>2, <2>3, <2>4 DEF Token, Working
<1>5. CASE \A u \in Users : badge'[u] = badge[u]
  <2>1. ASSUME NEW u \in Users, badge'[u] \in Calls
        PROVE  badge'[u] \in Mints(u)' /\ call'[badge'[u]].step = "sent"
    BY <1>2, <1>5, <2>1 DEF BadgesMatchCards, Mints
  <2>2. ASSUME NEW u \in Users, badge'[u] = Unknown PROVE failures' > 0
    BY <1>1, <1>5, <2>2 DEF BadgesMatchCards
  <2>3. ASSUME NEW c \in Calls, call'[c].step = "sent"
        PROVE  \/ badge'[call'[c].user] = c \/ work'.asked = c
               \/ failures' > 0 \/ call'[c].user \in stale'.wallet
    <3>1. CASE call[c].step = "sent"
      <4>1. call'[c] = call[c]
        BY <1>2, <3>1
      <4>2. \/ badge[call[c].user] = c \/ work.asked = c
            \/ failures > 0 \/ call[c].user \in stale.wallet
        BY <3>1 DEF BadgesMatchCards
      <4>3. work.asked = c => \/ work'.asked = c \/ failures' > 0
                              \/ badge'[call[c].user] = c \/ call[c].user \in stale.wallet
        <5> SUFFICES ASSUME work.asked = c
                     PROVE  \/ work'.asked = c \/ failures' > 0
                            \/ badge'[call[c].user] = c \/ call[c].user \in stale.wallet
          OBVIOUS
        <5>1. work.step \in {"wait", "add"}
          BY <1>0, Numbers DEF Consumer
        <5>2. CASE TakeAnswer /\ work.task = "wallet"
          <6>1. PICK t \in {Unknown, work.asked} :
                  work' = [work EXCEPT !.step = "add", !.token = t]
            BY <5>2 DEF TakeAnswer
          <6> QED BY <1>0, <6>1 DEF Work
        <5>3. CASE TakeAnswer /\ work.task = "card"
          BY <1>3, <3>1, <5>1, <5>3 DEF CallsInOrder
        <5>4. CASE AddBadge
          <6>1. call[c].user = work.user
            BY <5>1 DEF CallsInOrder
          <6>2. \/ failures > 0
                \/ /\ c \in Mints(work.user)
                   /\ badge[work.user] = None => badge'[work.user] = c
            BY <1>4, <5>4
          <6>3. badge[work.user] = Unknown => failures > 0
            BY <1>0 DEF BadgesMatchCards
          <6>4. badge[work.user] \in Calls /\ c \in Mints(work.user) =>
                  badge[work.user] = c \/ work.user \in stale.wallet
            BY <1>0 DEF BadgesMatchCards, OneCardPerUser
          <6> QED BY <1>0, <1>1, <1>5, <6>1, <6>2, <6>3, <6>4
        <5> QED BY <5>1, <5>2, <5>3, <5>4, InHand
      <4> QED BY <1>1, <1>5, <4>1, <4>2, <4>3, <1>0
    <3>2. CASE TransferNft(c)
      <4>1. InProgress(c) /\ work' = work
        BY <3>2, ServeFrame DEF TransferNft, InProgress, Serve
      <4> QED BY <1>1, <4>1 DEF CallsInOrder
    <3> QED BY <2>3, <3>1, <3>2, Settled
  <2> QED BY <2>1, <2>2, <2>3 DEF BadgesMatchCards
<1>6. CASE AddBadge /\ badge[work.user] = None
  <2>0. UNCHANGED <<call, failures>> /\ work' = Idle
    BY <1>6 DEF AddBadge, Finish, nft, history
  <2>1. ASSUME NEW u \in Users, badge'[u] \in Calls
        PROVE  badge'[u] \in Mints(u)' /\ call'[badge'[u]].step = "sent"
    <3>1. CASE badge'[u] = badge[u]
      BY <2>0, <2>1, <3>1 DEF BadgesMatchCards, Mints
    <3>2. CASE u = work.user /\ badge'[u] = work.token
      BY <1>4, <1>6, <2>0, <2>1, <3>2, Numbers DEF Mints
    <3> QED BY <1>4, <1>6, <3>1, <3>2
  <2>2. ASSUME NEW u \in Users, badge'[u] = Unknown PROVE failures' > 0
    <3>1. CASE badge'[u] = badge[u]
      BY <2>0, <2>2, <3>1 DEF BadgesMatchCards
    <3>2. CASE u = work.user /\ badge'[u] = work.token
      BY <1>4, <1>6, <2>0, <2>2, <3>2, Numbers DEF Mints
    <3> QED BY <1>4, <1>6, <3>1, <3>2
  <2>3. ASSUME NEW c \in Calls, call'[c].step = "sent"
        PROVE  \/ badge'[call'[c].user] = c \/ work'.asked = c
               \/ failures' > 0 \/ call'[c].user \in stale'.wallet
    <3>1. call'[c] = call[c] /\ call[c].step = "sent"
      BY <2>0, <2>3
    <3>2. \/ badge[call[c].user] = c \/ work.asked = c
          \/ failures > 0 \/ call[c].user \in stale.wallet
      BY <3>1 DEF BadgesMatchCards
    <3>3. badge[call[c].user] = c => badge'[call[c].user] = c
      BY <1>0, <1>1, Numbers
    <3>4. work.asked = c => failures > 0 \/ badge'[call[c].user] = c
      <4> SUFFICES ASSUME work.asked = c PROVE failures > 0 \/ badge'[call[c].user] = c
        OBVIOUS
      <4>1. call[c].user = work.user
        BY <1>6 DEF CallsInOrder, AddBadge, Working
      <4> QED BY <1>4, <1>6, <4>1
    <3> QED BY <1>1, <3>1, <3>2, <3>3, <3>4
  <2> QED BY <2>1, <2>2, <2>3 DEF BadgesMatchCards
<1>7. (\A u \in Users : badge'[u] = badge[u]) \/ (AddBadge /\ badge[work.user] = None)
  <2>1. CASE AddBadge
    BY <1>4, <2>1
  <2>2. CASE Consume /\ ~AddBadge
    BY <2>2 DEF Consume, TakeCreateWallet, TakeUpdate, CreateWallet, ReadForWallet,
       SaveWallet, AskForCard, TakeAnswer
  <2>3. CASE GiveUp \/ CrashCore
    BY <2>3 DEF GiveUp, CrashCore
  <2> QED BY <2>1, <2>2, <2>3, Otherwise, ServeFrame
<1> QED BY <1>5, <1>6, <1>7

-----------------------------------------------------------------------------
(***************************************************************************)
(* What the card shows                                                     *)
(***************************************************************************)

CardsOf(u) ==
  /\ badge[u] = None => card[u] = First
  /\ Undisturbed(u) /\ badge[u] = None => u \in Owed \/ doc[u].points = 0
  /\ Undisturbed(u) /\ badge[u] \in Calls /\ update[u] = 0 /\ u \notin Owed =>
       card[u].points = doc[u].points

\* The card that the consumer has asked to be rewritten for a user.
AskedOf(u) ==
  Undisturbed(u) /\ Working("wait") /\ work.task = "card" /\ work.user = u =>
    /\ update[u] = 1 /\ u \notin Owed => call[work.asked].shows.points = doc[u].points
    /\ call[work.asked].step = "updated" => card[u] = call[work.asked].shows

LEMMA CardsByUser ==
  ASSUME failures \in Nat
  PROVE  Cards /\ CardIsCurrent <=> \A u \in Users : CardsOf(u) /\ AskedOf(u)
BY DEF Cards, CardIsCurrent, CardsOf, AskedOf, Undisturbed

\* The points of a user change only with a task still owed, or by an old document.
LEMMA PointsKept ==
  ASSUME OnboardingTypeOK, OnboardingTypeOK', Consumer, Accounts, OnboardingNext,
         \A k \in Additions : ~SendUpdate(k),
         NEW u \in Users, Undisturbed(u)', u \notin Owed'
  PROVE  doc'[u].points = doc[u].points /\ u \notin Owed
<1>0. /\ doc \in [Users -> Document] /\ addition \in [Additions -> Addition]
      /\ failures \in Nat /\ failures' = 0 /\ u \notin stale'.points
  BY OnboardingAssumption DEF OnboardingTypeOK, Undisturbed
<1>1. Owed \subseteq Owed'
  <2>1. CASE UNCHANGED addition
    BY <2>1 DEF Owed
  <2>2. ASSUME NEW k \in Additions, AddPoints(k) PROVE Owed \subseteq Owed'
    <3>1. \A j \in Additions : j # k => addition'[j] = addition[j]
      BY <1>0, <2>2 DEF AddPoints, Purchase, ReadPoints, SavePoints, SendUpdate
    <3>2. addition[k].step # "saved"
      BY <2>2 DEF AddPoints, Purchase, ReadPoints, SavePoints, Comes
    <3> QED BY <3>1, <3>2 DEF Owed
  <2>3. ASSUME NEW k \in Additions PROVE ~AdditionFails(k)
    BY <1>0 DEF AdditionFails, Fail
  <2>4. ~CrashCore
    BY <1>0 DEF CrashCore, Fail
  <2>5. ASSUME NEW l \in Logins, Web(l) \/ RequestFails(l) PROVE UNCHANGED addition
    BY <2>5, WebFrame, FailFrame
  <2>6. ASSUME NEW c \in Calls, Serve(c) \/ NftFails(c) PROVE UNCHANGED addition
    BY <2>6, ServeFrame
  <2> QED BY <2>1, <2>2, <2>3, <2>4, <2>5, <2>6, ConsumeFrame, Zenon DEF OnboardingNext
<1>2. CASE UNCHANGED <<doc, had, stale>>
  BY <1>1, <1>2
<1>3. ASSUME NEW l \in Logins, SaveUser(l) PROVE doc'[u].points = doc[u].points
  <2>1. doc' = [doc EXCEPT ![l] = NewDocument] /\ ~doc[l].saved /\ l \in Users
    BY <1>3 DEF SaveUser, Write, Accounts, Users
  <2>2. doc[l].points = 0
    BY <2>1 DEF Accounts
  <2> QED BY <1>0, <2>1, <2>2, NewUser
<1>4. ASSUME NEW v \in Users, NEW copy \in Document, NEW new \in Document,
             Resaves(v, copy, new)
      PROVE  doc'[u].points = doc[u].points
  <2>1. Save(v, copy, new)
    BY <1>4 DEF Resaves
  <2>2. /\ doc' = [doc EXCEPT ![v] = new]
        /\ v \notin stale'.points /\ new.points = copy.points => doc[v].points = new.points
    BY <2>1, Saving
  <2>3. ASSUME NEW k \in Additions, SavePoints(k) PROVE addition[k].user \in Owed'
    <3>1. addition' = [addition EXCEPT ![k].step = "saved"]
      BY <2>3 DEF SavePoints
    <3>2. addition'[k].step = "saved" /\ addition'[k].user = addition[k].user
      BY <1>0, <3>1 DEF Addition
    <3> QED BY <3>2 DEF Owed
  <2>4. v # u \/ new.points = copy.points
    BY <1>4, <2>3, Zenon DEF Resaves
  <2> QED BY <1>0, <2>2, <2>4
<1> QED BY <1>1, <1>2, <1>3, <1>4, Documents, Zenon

\* Points for which no task is owed are what they were.
Kept(u) ==
  Undisturbed(u)' /\ u \notin Owed' => doc'[u].points = doc[u].points /\ u \notin Owed

LEMMA CardsStep ==
  ASSUME OnboardingTypeOK, OnboardingTypeOK', Consumer, Accounts, CallsInOrder,
         OneCardPerUser, BadgesMatchCards, Cards, CardIsCurrent, OnboardingNext
  PROVE  Cards' /\ CardIsCurrent'
<1> DEFINE Goal == \A u \in Users : CardsOf(u)' /\ AskedOf(u)'
<1>0. /\ work \in Work /\ work.user \in Users /\ call \in [Calls -> Call]
      /\ failures \in Nat /\ failures' \in Nat
      /\ card \in [Users -> Face] /\ update \in [Users -> Nat]
      /\ update' \in [Users -> Nat]
      /\ badge \in [Users -> {None, Unknown} \cup Calls]
      /\ \A c \in Calls : call[c].user \in Users
  BY OnboardingAssumption DEF OnboardingTypeOK, Work, Call
<1> SUFFICES Goal
  BY <1>0 DEF Cards, CardIsCurrent, CardsOf, AskedOf, Undisturbed
<1>1. \A u \in Users : CardsOf(u) /\ AskedOf(u)
  BY <1>0, CardsByUser
<1>2. /\ \A u \in Users : badge[u] # None => badge'[u] = badge[u]
      /\ \A u \in Users : Undisturbed(u)' => Undisturbed(u)
  BY <1>0, Monotone DEF Undisturbed
\* Nothing that counts changes, but the call may go on.
<1>3. ASSUME UNCHANGED <<badge, update, card>>, \A u \in Users : Kept(u),
             \/ work'.step # "wait" \/ work'.task # "card"
             \/ /\ work' = work
                /\ work.step = "wait" =>
                     /\ call'[work.asked].shows = call[work.asked].shows
                     /\ call'[work.asked].step = "updated" =>
                          call[work.asked].step = "updated"
      PROVE  Goal
  <2>1. \A u \in Users : CardsOf(u)'
    BY <1>1, <1>2, <1>3 DEF CardsOf, Kept
  <2>2. ASSUME NEW u \in Users PROVE AskedOf(u)'
    <3>1. CASE work'.step # "wait" \/ work'.task # "card"
      BY <3>1 DEF AskedOf, Working
    <3>2. CASE /\ work' = work
               /\ work.step = "wait" =>
                    /\ call'[work.asked].shows = call[work.asked].shows
                    /\ call'[work.asked].step = "updated" =>
                         call[work.asked].step = "updated"
      BY <1>1, <1>2, <1>3, <3>2 DEF AskedOf, Kept, Working
    <3> QED BY <1>3, <3>1, <3>2
  <2> QED BY <2>1, <2>2
<1>4. ASSUME NEW l \in Logins, Web(l) \/ RequestFails(l), \A u \in Users : Kept(u) PROVE Goal
  <2>1. UNCHANGED <<badge, update, card, work, call>>
    BY <1>4, WebFrame, FailFrame
  <2> QED BY <1>3, <1>4, <2>1
<1>5. ASSUME NEW k \in Additions, AddPoints(k) \/ AdditionFails(k), ~SendUpdate(k),
             \A u \in Users : Kept(u)
      PROVE  Goal
  <2>1. UNCHANGED <<badge, update, card, work, call>>
    BY <1>5, PointsFrame
  <2> QED BY <1>3, <1>5, <2>1
<1>6. ASSUME NEW k \in Additions, SendUpdate(k) PROVE Goal
  <2>10. PICK u \in Users : u = addition[k].user
    BY DEF OnboardingTypeOK, Addition
  <2>0. u = addition[k].user /\ u \in Users /\ addition \in [Additions -> Addition]
    BY <2>10 DEF OnboardingTypeOK
  <2>1. /\ UNCHANGED <<doc, badge, work, call, card>> /\ u \in Owed
        /\ \A v \in Users : v # u => update'[v] = update[v]
    BY <1>0, <1>6, <2>0 DEF SendUpdate, Owed, nft, documents
  <2>2. \A v \in Users : v # u => (v \in Owed' <=> v \in Owed)
    <3>1. /\ \A j \in Additions : j # k => addition'[j] = addition[j]
          /\ addition'[k].user = u
      BY <1>6, <2>0 DEF SendUpdate, Addition
    <3> QED BY <2>0, <3>1 DEF Owed
  <2>3. \A v \in Users : v # u => CardsOf(v)' /\ AskedOf(v)'
    BY <1>1, <1>2, <2>1, <2>2 DEF CardsOf, AskedOf, Working
  <2>4. CASE badge[u] = None
    <3>1. u \in early' /\ update' = update
      BY <1>6, <2>0, <2>4 DEF SendUpdate
    <3>2. ~Undisturbed(u)'
      BY <3>1 DEF Undisturbed
    <3> QED BY <1>1, <2>0, <2>1, <2>3, <3>2 DEF CardsOf, AskedOf
  <2>5. CASE badge[u] # None
    <3>1. update'[u] = update[u] + 1
      BY <1>0, <1>6, <2>0, <2>5 DEF SendUpdate
    <3>2. CardsOf(u)'
      BY <1>0, <2>0, <2>1, <2>5, <3>1 DEF CardsOf
    <3>3. AskedOf(u)'
      <4>1. Working("wait") /\ work.task = "card" /\ work.user = u => update[u] > 0
        BY DEF Consumer
      <4>2. AskedOf(u) /\ (Undisturbed(u)' => Undisturbed(u)) /\ update[u] \in Nat
        BY <1>0, <1>1, <1>2, <2>0
      <4> QED BY <2>1, <3>1, <4>1, <4>2 DEF AskedOf, Working
    <3> QED BY <2>3, <3>2, <3>3
  <2> QED BY <2>4, <2>5
<1>7. ASSUME NEW u \in Users, TakeUpdate(u), \A v \in Users : Kept(v) PROVE Goal
  <2>1. FaceNow(u) \in Face /\ FaceNow(u).points = doc[u].points
    BY FaceOf DEF FaceNow
  <2>2. Ask(u, FaceNow(u), FALSE) /\ UNCHANGED <<doc, badge, update, card>>
    BY <1>7 DEF TakeUpdate, queue, documents
  <2>3. PICK c \in Calls : Made(c, u, FaceNow(u), FALSE)
    BY <2>1, <2>2, Asking
  <2>4. /\ work'.user = u /\ work'.asked = c
        /\ call'[c].shows = FaceNow(u) /\ call'[c].step = "upload"
    BY <1>0, <2>3 DEF Made, Work
  <2>5. \A v \in Users : CardsOf(v)'
    BY <1>1, <1>2, <1>7, <2>2 DEF CardsOf, Kept
  <2>6. \A v \in Users : AskedOf(v)'
    BY <2>1, <2>2, <2>4 DEF AskedOf
  <2> QED BY <2>5, <2>6
<1>8. CASE AskForCard /\ \A u \in Users : Kept(u)
  <2>1. work.task = "wallet"
    BY <1>8 DEF AskForCard, Consumer, Working
  <2>2. work'.task = work.task
    <3>1. PICK c \in Calls :
            work' = [work EXCEPT !.step = "wait", !.user = work.user, !.asked = c]
      BY <1>8, Zenon DEF AskForCard, Ask
    <3> QED BY <1>0, <3>1 DEF Work
  <2>3. UNCHANGED <<badge, update, card>>
    BY <1>8 DEF AskForCard, queue
  <2> QED BY <1>3, <1>8, <2>1, <2>2, <2>3
<1>9. ASSUME Consume, ~AskForCard, ~TakeAnswer, ~AddBadge, \A u \in Users : ~TakeUpdate(u),
             \A u \in Users : Kept(u)
      PROVE  Goal
  <2>1. UNCHANGED <<badge, update, card>>
    BY <1>9 DEF Consume, TakeCreateWallet, CreateWallet, ReadForWallet, SaveWallet,
       queue, nft
  <2>2. work'.step # "wait"
    BY <1>0, <1>9 DEF Consume, TakeCreateWallet, CreateWallet, ReadForWallet, SaveWallet,
       Working, Idle, Work
  <2> QED BY <1>3, <1>9, <2>1, <2>2
<1>10. CASE TakeAnswer /\ \A u \in Users : Kept(u)
  <2> DEFINE c == call[work.asked]
  <2>0. PICK u \in Users : u = work.user
    BY <1>0
  <2>1. /\ Working("wait") /\ work.step = "wait" /\ Answered(c)
        /\ UNCHANGED <<doc, badge, card, call, failures, early, stale>>
    BY <1>10 DEF TakeAnswer, Working, nft, history, documents
  <2>2. CASE work.task = "wallet"
    <3>1. PICK t \in {Unknown, work.asked} :
            work' = [work EXCEPT !.step = "add", !.token = t]
      BY <1>10, <2>2 DEF TakeAnswer
    <3>2. work'.step # "wait"
      BY <1>0, <3>1 DEF Work
    <3>3. UNCHANGED update
      BY <1>10, <2>2 DEF TakeAnswer, queue
    <3> QED BY <1>3, <1>10, <2>1, <3>2, <3>3
  <2>3. CASE work.task = "card"
    <3>1. Finish /\ ~Working("idle")
      BY <1>10, <2>1, <2>3 DEF TakeAnswer, Working
    <3>2. /\ work' = Idle /\ update'[u] = update[u] - 1
          /\ \A v \in Users : v # u => update'[v] = update[v]
      BY <2>0, <2>3, <3>1, Finishing
    <3>3. \A v \in Users : AskedOf(v)'
      BY <3>2 DEF AskedOf, Working, Idle
    <3>4. \A v \in Users : v # u => CardsOf(v)'
      BY <1>1, <1>2, <1>10, <2>1, <3>2 DEF CardsOf, Kept
    <3>5. failures = 0 => c.step = "updated"
      <4>1. work.asked \in Calls /\ ~c.receiver /\ Kind(work.asked) /\ c.step # "none"
        BY <2>1, <2>3 DEF Consumer, CallsInOrder
      <4> QED BY <2>1, <4>1 DEF Answered, Kind
    <3>6. Undisturbed(u) /\ update[u] = 1 /\ u \notin Owed =>
            card[u].points = doc[u].points
      <4>1. AskedOf(u)
        BY <1>0, <1>1
      <4> QED BY <2>0, <2>1, <2>3, <3>5, <4>1 DEF AskedOf, Undisturbed
    <3>7. CardsOf(u)'
      <4>1. CardsOf(u) /\ (Undisturbed(u)' => Undisturbed(u)) /\ update[u] \in Nat
        BY <1>0, <1>1, <1>2
      <4>2. update'[u] = 0 => update[u] = 1
        BY <3>2, <4>1
      <4>3. Kept(u)
        BY <1>10
      <4> QED BY <2>1, <3>2, <3>6, <4>1, <4>2, <4>3 DEF CardsOf, Kept
    <3> QED BY <3>3, <3>4, <3>7
  <2> QED BY <1>0, <2>2, <2>3 DEF Work
<1>11. CASE AddBadge /\ \A u \in Users : Kept(u)
  <2>1. /\ work.task = "wallet" /\ Finish /\ ~Working("idle")
        /\ UNCHANGED <<doc, card>>
    BY <1>11 DEF AddBadge, Consumer, Working, nft, documents
  <2>2. work' = Idle /\ \A u \in Users : update'[u] = update[u]
    BY <2>1, Finishing
  <2>3. \A u \in Users : AskedOf(u)'
    BY <2>2 DEF AskedOf, Working, Idle
  <2>4. \A u \in Users : CardsOf(u)'
    BY <1>0, <1>1, <1>2, <1>11, <2>1, <2>2, Numbers, FirstIsFace DEF CardsOf, Kept
  <2> QED BY <2>3, <2>4
<1>12. CASE GiveUp \/ CrashCore
  <2>1. failures' # 0 /\ UNCHANGED <<badge, card>>
    BY <1>0, <1>12 DEF GiveUp, CrashCore, Fail, nft
  <2> QED BY <1>1, <2>1 DEF CardsOf, AskedOf, Undisturbed
<1>13. ASSUME NEW c \in Calls, Serve(c) \/ NftFails(c), \A u \in Users : Kept(u) PROVE Goal
  <2>1. /\ InProgress(c)
        /\ \A d \in Calls : d # c => call'[d] = call[d]
        /\ \A d \in Calls : /\ call'[d].user = call[d].user
                            /\ call'[d].receiver = call[d].receiver
                            /\ call'[d].shows = call[d].shows
    BY <1>13, Progress
  <2>2. UNCHANGED <<doc, addition, badge, update, work>> /\ Owed' = Owed
    BY <1>13, ServeFrame DEF Owed
  <2>3. work.step \in {"wait", "add"} => work.asked \in Calls
    BY DEF Consumer
  <2>4. work.asked = c \/ failures > 0
    BY <2>1 DEF CallsInOrder
  <2> DEFINE u == call[c].user
  <2>5. ASSUME ~UpdateNftUri(c), UNCHANGED card PROVE Goal
    <3>1. ASSUME NEW s \in CallSteps \ {"updated"}, Advances(c, s)
          PROVE  call'[c].step # "updated"
      BY <1>0, <3>1 DEF Advances, Call
    <3>2. call'[c].step # "updated"
      BY <1>13, <2>5, <3>1 DEF Serve, UploadMetadata, CreateNft, VerifyCollection,
         TransferNft, NftFails, CallSteps
    <3> QED BY <1>3, <1>13, <2>1, <2>2, <2>3, <2>5, <3>2
  <2>6. CASE TransferNft(c) /\ call[c].receiver
    <3>1. card' = [card EXCEPT ![u] = First]
      BY <2>6 DEF TransferNft, CallsInOrder, Kind
    <3>2. badge[u] \in Calls => ~Undisturbed(u)
      <4>1. c \in Mints(u) /\ call[c].step = "send"
        BY <2>6 DEF TransferNft, Mints
      <4>2. badge[u] \in Calls => badge[u] \in Mints(u) /\ badge[u] # c
        BY <1>0, <4>1 DEF BadgesMatchCards
      <4> QED BY <1>0, <4>1, <4>2 DEF OneCardPerUser, Undisturbed
    <3>3. ~Working("wait") \/ work.task # "card" \/ failures > 0
      BY <2>4, <2>6 DEF CallsInOrder, Working
    <3>4. ASSUME NEW v \in Users PROVE CardsOf(v)' /\ AskedOf(v)'
      <4>1. AskedOf(v)'
        BY <1>0, <1>2, <2>2, <3>3, <3>4 DEF AskedOf, Undisturbed, Working
      <4>2. CardsOf(v) /\ (Undisturbed(v)' => Undisturbed(v))
        BY <1>1, <1>2
      <4>3. card'[v] = IF v = u THEN First ELSE card[v]
        BY <1>0, <3>1
      <4>4. CardsOf(v)'
        BY <2>2, <3>2, <4>2, <4>3 DEF CardsOf
      <4> QED BY <4>1, <4>4
    <3> QED BY <3>4
  <2>7. CASE UpdateNftUri(c)
    <3>1. /\ ~call[c].receiver /\ badge[u] # None /\ call[c].step = "update"
          /\ card' = [card EXCEPT ![u] = call[c].shows]
      BY <2>7 DEF UpdateNftUri, CallsInOrder, Kind
    <3>2. failures = 0 =>
            /\ Working("wait") /\ work.task = "card" /\ work.asked = c /\ work.user = u
            /\ update[u] > 0
      <4> SUFFICES ASSUME failures = 0
                   PROVE  /\ Working("wait") /\ work.task = "card" /\ work.asked = c
                          /\ work.user = u /\ update[u] > 0
        OBVIOUS
      <4>1. work.asked = c /\ work.step \in {"wait", "add"}
        BY <1>0, <2>4, Numbers DEF Consumer
      <4>2. work.user = u /\ work.task = "card"
        BY <1>0, <3>1, <4>1 DEF CallsInOrder, Work
      <4> QED BY <4>1, <4>2 DEF Consumer, Working
    <3>3. ASSUME NEW v \in Users PROVE CardsOf(v)' /\ AskedOf(v)'
      <4>1. /\ CardsOf(v) /\ AskedOf(v) /\ (Undisturbed(v)' => Undisturbed(v))
            /\ update[v] \in Nat
        BY <1>0, <1>1, <1>2
      <4>2. card'[v] = IF v = u THEN call[c].shows ELSE card[v]
        BY <1>0, <3>1
      <4>3. Undisturbed(v) => failures = 0
        BY DEF Undisturbed
      <4>4. CardsOf(v)'
        BY <2>2, <3>1, <3>2, <4>1, <4>2, <4>3 DEF CardsOf
      <4>5. AskedOf(v)'
        BY <2>1, <2>2, <3>2, <4>1, <4>2, <4>3 DEF AskedOf, Working
      <4> QED BY <4>4, <4>5
    <3> QED BY <3>3
  <2>8. \/ UpdateNftUri(c)
        \/ TransferNft(c) /\ call[c].receiver
        \/ ~UpdateNftUri(c) /\ UNCHANGED card
    BY <1>13 DEF Serve, UploadMetadata, CreateNft, VerifyCollection, TransferNft,
       NftFails
  <2> QED BY <2>5, <2>6, <2>7, <2>8
<1>14. CASE \A k \in Additions : ~SendUpdate(k)
  <2>1. \A u \in Users : Kept(u)
    BY <1>14, PointsKept DEF Kept
  <2> HIDE DEF Goal
  <2> QED BY <1>4, <1>5, <1>7, <1>8, <1>9, <1>10, <1>11, <1>12, <1>13, <1>14, <2>1, Zenon
      DEF OnboardingNext
<1> QED BY <1>6, <1>14

-----------------------------------------------------------------------------
(***************************************************************************)
(* The invariant holds                                                     *)
(***************************************************************************)

LEMMA OnboardingInvInit ==
  ASSUME OnboardingInit
  PROVE  OnboardingInv
<1>0. /\ AnyUser \in Users /\ Idle \in Work
      /\ MaxAdditions \in Nat /\ MaxCalls \in Nat /\ MaxFailures \in Nat
  BY SomeUser, IdleWork, OnboardingAssumption
<1>1. /\ \A u \in Users : /\ doc[u] = Blank /\ badge[u] = None
                          /\ update[u] = 0 /\ card[u] = First
      /\ \A l \in Logins : thread[l].step = "none"
      /\ \A c \in Calls : call[c].step = "none" /\ call[c].receiver = FALSE
      /\ \A k \in Additions : addition[k].step = "none"
      /\ Blank.saved = FALSE /\ Blank.phone = FALSE /\ Blank.points = 0
      /\ First.points = 0 /\ create = {} /\ failures = 0
      /\ work = Idle /\ Idle.step = "idle" /\ Idle.task = "card" /\ Idle.asked = None
  BY FirstIsFace DEF OnboardingInit, Blank, Idle
<1>2. OnboardingTypeOK
  <2>1. Blank \in Document
    BY BlankDocument
  <2>2. doc \in [Users -> Document] /\ thread \in [Logins -> Thread]
    BY <2>1 DEF OnboardingInit, Thread, Steps, Users
  <2>3. call \in [Calls -> Call]
    BY <1>0, FirstIsFace DEF OnboardingInit, Call, CallSteps
  <2>4. /\ badge \in [Users -> {None, Unknown} \cup Calls]
        /\ update \in [Users -> Nat] /\ card \in [Users -> Face]
        /\ failures \in 0..MaxFailures
    BY <1>0, FirstIsFace DEF OnboardingInit
  <2>5. /\ emailRace \in BOOLEAN /\ phoneRace \in BOOLEAN
        /\ early \subseteq Users /\ create \subseteq Users
        /\ stale \in [wallet : SUBSET Users, phone : SUBSET Users, points : SUBSET Users]
    BY DEF OnboardingInit
  <2>6. addition \in [Additions -> Addition]
    BY <1>0, <2>1 DEF OnboardingInit, Addition
  <2>7. had \in [Users -> Seq(Int)]
    BY DEF OnboardingInit
  <2> QED BY <1>0, <1>1, <2>2, <2>3, <2>4, <2>5, <2>6, <2>7 DEF OnboardingTypeOK
<1>3. Consumer /\ Accounts /\ Emails /\ Phones /\ Token
  BY <1>1 DEF Consumer, Accounts, Emails, Phones, Token, Working, Fresh, Checked, Users
<1>4. LockedOutOnlyByOverlap /\ SharedPhoneOnlyByOverlap
  BY <1>1 DEF LockedOutOnlyByOverlap, SharedPhoneOnlyByOverlap
<1>5. \A u \in Users : Mints(u) = {}
  BY <1>1 DEF Mints
<1>6. Wallets /\ OneCardPerUser
  BY <1>1, <1>5 DEF Wallets, OneCardPerUser, Working
<1>7. BadgesMatchCards /\ Cards /\ CardIsCurrent
  BY <1>0, <1>1, <1>5, Numbers DEF BadgesMatchCards, Cards, CardIsCurrent, Working
<1>8. CallsInOrder
  <2>1. {c \in Calls : call[c].step # "none"} = 1..0 /\ 0 \in 0..MaxCalls
    BY <1>0, <1>1
  <2>2. \A c \in Calls : Kind(c) /\ ~InProgress(c)
    BY <1>1 DEF Kind, InProgress
  <2> QED BY <1>1, <2>1, <2>2 DEF CallsInOrder
<1> QED BY <1>2, <1>3, <1>4, <1>6, <1>7, <1>8 DEF OnboardingInv

LEMMA OnboardingInvStep ==
  ASSUME OnboardingInv, [OnboardingNext]_onboardingVars
  PROVE  OnboardingInv'
<1> USE DEF OnboardingInv
<1>1. CASE OnboardingNext
  <2>1. OnboardingTypeOK'
    BY <1>1, TypeStep
  <2>2. Consumer'
    BY <1>1, <2>1, ConsumerStep
  <2>3. Accounts'
    BY <1>1, <2>1, AccountsStep
  <2>4. Emails' /\ LockedOutOnlyByOverlap'
    BY <1>1, <2>1, EmailsStep
  <2>5. Phones' /\ SharedPhoneOnlyByOverlap'
    BY <1>1, <2>1, PhonesStep
  <2>6. CallsInOrder'
    BY <1>1, <2>1, CallsStep
  <2>7. Wallets' /\ OneCardPerUser'
    BY <1>1, <2>1, WalletsStep
  <2>8. Token'
    BY <1>1, <2>1, TokenStep
  <2>9. BadgesMatchCards'
    BY <1>1, <2>1, BadgesStep
  <2>10. Cards' /\ CardIsCurrent'
    BY <1>1, <2>1, CardsStep
  <2> QED BY <2>1, <2>2, <2>3, <2>4, <2>5, <2>6, <2>7, <2>8, <2>9, <2>10
<1>2. CASE UNCHANGED onboardingVars
  <2>1. UNCHANGED <<doc, had, stale, badge, thread, create, update, addition, work, call,
                    card, failures, emailRace, phoneRace, early>>
    BY <1>2 DEF onboardingVars, documents, queue, nft, history
  <2>2. \A u \in Users : Mints(u)' = Mints(u)
    BY <2>1 DEF Mints
  <2>3. OnboardingTypeOK' /\ Consumer' /\ Accounts'
    BY <2>1 DEF OnboardingTypeOK, Consumer, Accounts, Working
  <2>4. Emails' /\ LockedOutOnlyByOverlap' /\ Phones' /\ SharedPhoneOnlyByOverlap'
    BY <2>1 DEF Emails, LockedOutOnlyByOverlap, Phones, SharedPhoneOnlyByOverlap, Fresh,
       Checked
  <2>5. CallsInOrder' /\ Token'
    BY <2>1 DEF CallsInOrder, Token, Kind, InProgress, Working
  <2>6. Wallets' /\ OneCardPerUser' /\ BadgesMatchCards'
    BY <2>1 DEF Wallets, OneCardPerUser, BadgesMatchCards, Mints, Working
  <2>7. Cards' /\ CardIsCurrent'
    BY <2>1 DEF Cards, CardIsCurrent, Undisturbed, Owed, Working
  <2> QED BY <2>3, <2>4, <2>5, <2>6, <2>7
<1> QED BY <1>1, <1>2

LEMMA OnboardingInvAlways == OnboardingSpec => []OnboardingInv
<1>1. OnboardingInit => OnboardingInv
  BY OnboardingInvInit
<1>2. OnboardingInv /\ [OnboardingNext]_onboardingVars => OnboardingInv'
  BY OnboardingInvStep
<1> QED BY <1>1, <1>2, PTL DEF OnboardingSpec

-----------------------------------------------------------------------------
(***************************************************************************)
(* Nobody is forgotten                                                     *)
(***************************************************************************)

\* Who is due a badge stays so: the task ends with a badge or a failure.
LEMMA DueStays ==
  ASSUME OnboardingInv, OnboardingInv', OnboardingNext, NEW u \in Users, u \in Due
  PROVE  u \in Due'
<1>0. /\ OnboardingTypeOK /\ OnboardingTypeOK' /\ Consumer /\ Accounts /\ Token
      /\ work \in Work /\ work.user \in Users
      /\ failures \in Nat /\ failures' \in Nat
  <2>1. OnboardingTypeOK /\ OnboardingTypeOK' /\ Consumer /\ Accounts /\ Token
    BY DEF OnboardingInv
  <2> QED BY <2>1, Values, FailuresNext
<1>1. CASE badge[u] # None \/ failures > 0
  BY <1>0, <1>1, Monotone DEF Due
<1>2. CASE work.task = "wallet" /\ work.user = u /\ work.step \in {"ask", "wait", "add"}
  <2>1. CASE UNCHANGED work
    BY <1>2, <2>1 DEF Due
  <2>2. CASE GiveUp \/ CrashCore
    BY <1>0, <2>2 DEF GiveUp, CrashCore, Fail, Due
  <2>3. CASE AskForCard
    <3>1. PICK c \in Calls :
            work' = [work EXCEPT !.step = "wait", !.user = work.user, !.asked = c]
      BY <2>3, Zenon DEF AskForCard, Ask
    <3>2. work'.task = "wallet" /\ work'.user = u /\ work'.step = "wait"
      BY <1>0, <1>2, <3>1 DEF Work
    <3> QED BY <3>2 DEF Due
  <2>4. CASE TakeAnswer
    <3>1. PICK t \in {Unknown, work.asked} :
            work' = [work EXCEPT !.step = "add", !.token = t]
      BY <1>2, <2>4 DEF TakeAnswer
    <3>2. work'.task = "wallet" /\ work'.user = u /\ work'.step = "add"
      BY <1>0, <1>2, <3>1 DEF Work
    <3> QED BY <3>2 DEF Due
  <2>5. CASE AddBadge
    <3>1. work.token # None
      <4>1. work.token \in Calls \cup {Unknown}
        BY <1>0, <2>5 DEF AddBadge, Token, Consumer, Working
      <4> QED BY <4>1, Numbers
    <3>2. badge'[u] # None
      BY <1>0, <1>2, <2>5, <3>1 DEF AddBadge, OnboardingTypeOK
    <3> QED BY <3>2 DEF Due
  <2>6. CASE Consume /\ ~AskForCard /\ ~TakeAnswer /\ ~AddBadge
    BY <1>2, <2>6 DEF Consume, TakeCreateWallet, TakeUpdate, CreateWallet, ReadForWallet,
       SaveWallet, Working
  <2>7. ASSUME NEW c \in Calls, Serve(c) \/ NftFails(c) PROVE UNCHANGED work
    BY <2>7, ServeFrame
  <2> QED BY <2>1, <2>2, <2>3, <2>4, <2>5, <2>6, <2>7, Otherwise, Zenon
<1> QED BY <1>1, <1>2 DEF Due

LEMMA WalletsSettledStep ==
  ASSUME OnboardingInv, OnboardingInv', WalletsAreSettled, OnboardingNext
  PROVE  WalletsAreSettled'
<1>0. /\ OnboardingTypeOK /\ OnboardingTypeOK' /\ Consumer /\ Accounts
      /\ doc \in [Users -> Document] /\ thread \in [Logins -> Thread]
      /\ work \in Work /\ work.user \in Users /\ work.copy \in Document
      /\ \A l \in Logins : thread[l].user \in Users /\ thread[l].copy \in Document
      /\ Logins = Users
  BY DEF OnboardingInv, OnboardingTypeOK, Work, Thread, Users
<1>1. \A u \in Users : u \in Due => u \in Due'
  BY DueStays
<1>2. ASSUME NEW u \in Users, doc'[u].wallet PROVE u \in Due'
  <2>0. doc[u].wallet => u \in Due'
    BY <1>1 DEF WalletsAreSettled
  <2>1. CASE UNCHANGED doc
    BY <1>2, <2>0, <2>1
  \* A document is saved with the wallet that it had when it was read.
  <2>2. ASSUME NEW v \in Users, NEW new \in Document, doc' = [doc EXCEPT ![v] = new],
               new.wallet => v \in Due'
        PROVE  u \in Due'
    BY <1>0, <1>2, <2>0, <2>2
  <2>3. ASSUME NEW l \in Logins, SaveUser(l) PROVE u \in Due'
    <3>1. doc' = [doc EXCEPT ![l] = NewDocument] /\ l \in Users
      BY <1>0, <2>3 DEF SaveUser, Write
    <3> QED BY <2>2, <3>1, NewUser
  <2>4. ASSUME NEW l \in Logins, SaveToken(l) \/ SaveUserToken(l) \/ SavePhone(l)
        PROVE  u \in Due'
    <3>1. thread[l].step \in {"known", "saved", "checked"}
      BY <2>4 DEF SaveToken, SaveUserToken, SavePhone
    <3>2. SaveUserToken(l) => thread[l].user = l
      BY <1>0 DEF Accounts, SaveUserToken
    <3>3. PICK new \in Document :
            doc' = [doc EXCEPT ![thread[l].user] = new] /\ new.wallet = thread[l].copy.wallet
      <4>1. [thread[l].copy EXCEPT !.phone = TRUE] \in Document
        BY <1>0 DEF Document
      <4>2. [thread[l].copy EXCEPT !.phone = TRUE].wallet = thread[l].copy.wallet
        BY <1>0 DEF Document
      <4> QED BY <1>0, <2>4, <3>2, <4>1, <4>2
              DEF SaveToken, SaveUserToken, SavePhone, Save, Write
    <3>4. thread[l].copy.wallet => thread[l].user \in Due'
      BY <1>0, <1>1, <3>1 DEF WalletsAreSettled
    <3> QED BY <1>0, <2>2, <3>3, <3>4
  <2>5. ASSUME NEW k \in Additions, SavePoints(k) PROVE u \in Due'
    <3>1. /\ addition[k].step = "read" /\ addition[k].user \in Users
          /\ addition[k].copy \in Document /\ addition[k].amount \in Int
      BY <1>0, <2>5 DEF SavePoints, OnboardingTypeOK, Addition
    <3>2. PICK new \in Document : /\ doc' = [doc EXCEPT ![addition[k].user] = new]
                                  /\ new.wallet = addition[k].copy.wallet
      <4>1. [addition[k].copy EXCEPT !.points = @ + addition[k].amount] \in Document
        BY <3>1, Added
      <4>2. [addition[k].copy EXCEPT !.points = @ + addition[k].amount].wallet
              = addition[k].copy.wallet
        BY <3>1 DEF Document
      <4> QED BY <2>5, <4>1, <4>2 DEF SavePoints, Save, Write
    <3>3. addition[k].copy.wallet => addition[k].user \in Due'
      BY <1>1, <3>1 DEF WalletsAreSettled
    <3> QED BY <2>2, <3>1, <3>2, <3>3
  <2>6. CASE SaveWallet
    <3>1. work'.task = "wallet" /\ work'.user = work.user /\ work'.step = "ask"
      BY <1>0, <2>6 DEF SaveWallet, Consumer, Working, Work
    <3>2. work.user \in Due'
      BY <1>0, <3>1 DEF Due
    <3>3. doc' = [doc EXCEPT ![work.user] = [work.copy EXCEPT !.wallet = TRUE]]
      BY <2>6 DEF SaveWallet, Save, Write
    <3>4. [work.copy EXCEPT !.wallet = TRUE] \in Document
      BY <1>0 DEF Document
    <3> QED BY <1>0, <2>2, <3>2, <3>3, <3>4
  <2>7. CASE Consume /\ ~SaveWallet
    <3>1. UNCHANGED doc
      BY <2>7 DEF Consume, TakeCreateWallet, TakeUpdate, CreateWallet, ReadForWallet,
         AskForCard, TakeAnswer, AddBadge, documents
    <3> QED BY <2>1, <3>1
  <2>8. ASSUME NEW l \in Logins, Web(l) \/ RequestFails(l)
        PROVE  \/ SaveToken(l) \/ SaveUserToken(l) \/ SavePhone(l) \/ SaveUser(l)
               \/ UNCHANGED doc
    BY <2>8, FailFrame DEF Web, LookUp, SendCreateWallet, CheckPhone, documents
  <2>9. CASE GiveUp \/ CrashCore
    BY <2>1, <2>9 DEF GiveUp, CrashCore, documents
  <2>10. ASSUME NEW k \in Additions, AddPoints(k) \/ AdditionFails(k)
         PROVE  SavePoints(k) \/ UNCHANGED doc
    BY <2>10, PointsFrame
  <2>11. ASSUME NEW c \in Calls, Serve(c) \/ NftFails(c) PROVE UNCHANGED doc
    BY <2>11, ServeFrame
  <2> QED BY <2>1, <2>3, <2>4, <2>5, <2>6, <2>7, <2>8, <2>9, <2>10, <2>11, Zenon
      DEF OnboardingNext
<1>3. ASSUME NEW l \in Logins, thread'[l].step \in {"known", "saved", "checked"},
             thread'[l].copy.wallet
      PROVE  thread'[l].user \in Due'
  <2>1. CASE thread'[l] = thread[l]
    BY <1>0, <1>1, <1>3, <2>1 DEF WalletsAreSettled
  <2>2. CASE Web(l)
    <3>1. CASE LookUp(l)
      <4>1. ASSUME Step(l, "fresh") \/ Step(l, "failed") PROVE FALSE
        BY <1>0, <1>3, <4>1 DEF Step, Thread
      <4>2. PICK u \in Users :
              thread' = [thread EXCEPT ![l] = [step |-> "known", user |-> u,
                                               copy |-> doc[u]]]
        BY <3>1, <4>1 DEF LookUp, Found
      <4>3. thread'[l].user = u /\ doc[u].wallet
        BY <1>0, <1>3, <4>2
      <4> QED BY <1>1, <4>3 DEF WalletsAreSettled
    <3>2. CASE SaveUser(l)
      <4>1. thread'[l].copy.wallet = FALSE
        BY <1>0, <3>2, NewUser DEF SaveUser
      <4> QED BY <1>3, <4>1
    <3>3. CASE SaveToken(l) \/ SaveUserToken(l) \/ SendCreateWallet(l) \/ SavePhone(l)
      <4>1. thread'[l].step \in {"in", "registered"}
        BY <1>0, <3>3 DEF SaveToken, SaveUserToken, SendCreateWallet, SavePhone, Step,
           Thread
      <4> QED BY <1>3, <4>1
    <3>4. CASE CheckPhone(l)
      <4>1. thread' = [thread EXCEPT ![l].step = "checked", ![l].copy = doc[thread[l].user]]
        BY <3>4 DEF CheckPhone
      <4>2. thread'[l].user = thread[l].user /\ doc[thread[l].user].wallet
        BY <1>0, <1>3, <4>1 DEF Thread
      <4> QED BY <1>0, <1>1, <4>2 DEF WalletsAreSettled
    <3> QED BY <2>2, <3>1, <3>2, <3>3, <3>4 DEF Web
  <2>3. ASSUME NEW k \in Logins, k # l, Web(k) PROVE thread'[l] = thread[l]
    BY <1>0, <2>3 DEF Web, LookUp, SaveToken, SaveUser, SaveUserToken, SendCreateWallet,
       CheckPhone, SavePhone, Step
  <2>4. CASE CrashCore
    <3>1. thread'[l] = thread[l] \/ thread'[l].step = "failed"
      BY <1>0, <2>4 DEF CrashCore, Thread
    <3> QED BY <1>3, <2>1, <3>1
  <2>5. ASSUME NEW k \in Logins, RequestFails(k) PROVE thread'[l] = thread[l] \/ k = l
    BY <1>0, <2>5, FailFrame DEF Step
  <2>6. ASSUME RequestFails(l) PROVE thread'[l].step = "failed"
    BY <1>0, <2>6, FailFrame DEF Step, Thread
  <2>7. ASSUME NEW k \in Additions, AddPoints(k) \/ AdditionFails(k) PROVE UNCHANGED thread
    BY <2>7, PointsFrame
  <2>8. ASSUME NEW c \in Calls, Serve(c) \/ NftFails(c) PROVE UNCHANGED thread
    BY <2>8, ServeFrame
  <2>9. ASSUME NEW k \in Logins, Web(k) \/ RequestFails(k)
        PROVE  thread'[l].user \in Due'
    BY <1>3, <2>1, <2>2, <2>3, <2>5, <2>6, <2>9
  <2> QED BY <2>1, <2>4, <2>7, <2>8, <2>9, ConsumeFrame DEF OnboardingNext
<1>4. ASSUME work'.step = "save", work'.copy.wallet PROVE work'.user \in Due'
  <2>1. CASE UNCHANGED work
    BY <1>0, <1>1, <1>4, <2>1 DEF WalletsAreSettled, Working
  <2>2. CASE ReadForWallet
    <3>1. work'.user = work.user /\ doc[work.user].wallet
      BY <1>0, <1>4, <2>2 DEF ReadForWallet, Work
    <3> QED BY <1>0, <1>1, <3>1 DEF WalletsAreSettled
  <2>3. CASE (Consume /\ ~ReadForWallet) \/ GiveUp
    <3>1. CreateWallet => work'.step = "read"
      BY <1>0 DEF CreateWallet, Work
    <3>2. CASE CreateWallet
      BY <1>4, <3>1, <3>2
    <3>3. CASE work.step \in {"okto", "read"}
      <4>1. GiveUp => work'.step = "idle"
        BY DEF GiveUp, Finish, Idle
      <4>2. CreateWallet \/ GiveUp
        BY <2>3, <3>3 DEF Consume, TakeCreateWallet, TakeUpdate, SaveWallet, AskForCard,
           TakeAnswer, AddBadge, Working
      <4> QED BY <1>4, <3>2, <4>1, <4>2
    <3> QED BY <1>0, <1>4, <2>3, <3>3, WorkSteps
  <2>4. CASE CrashCore
    BY <1>4, <2>4 DEF CrashCore, Idle
  <2>5. ASSUME NEW c \in Calls, Serve(c) \/ NftFails(c) PROVE UNCHANGED work
    BY <2>5, ServeFrame
  <2> QED BY <2>1, <2>2, <2>3, <2>4, <2>5, Otherwise, Zenon
<1>5. \A l \in Logins : thread'[l].user \in Users
  BY <1>0 DEF OnboardingTypeOK, Thread
<1>6. ASSUME NEW k \in Additions, addition'[k].step = "read", addition'[k].copy.wallet
      PROVE  addition'[k].user \in Due'
  <2>0. addition \in [Additions -> Addition] /\ \A j \in Additions : addition[j].user \in Users
    BY <1>0 DEF OnboardingTypeOK, Addition
  <2>1. CASE addition'[k] = addition[k]
    BY <1>1, <1>6, <2>0, <2>1 DEF WalletsAreSettled
  <2>2. ASSUME NEW j \in Additions, AddPoints(j) \/ AdditionFails(j), j # k
        PROVE  addition'[k] = addition[k]
    BY <2>0, <2>2 DEF AddPoints, Purchase, ReadPoints, SavePoints, SendUpdate, AdditionFails
  <2>3. CASE ReadPoints(k)
    <3>1. /\ addition'[k].user \in Users
          /\ addition'[k].copy = doc[addition'[k].user]
      BY <2>0, <2>3 DEF ReadPoints, Addition
    <3> QED BY <1>1, <1>6, <3>1 DEF WalletsAreSettled
  <2>4. CASE Purchase(k) \/ SavePoints(k) \/ SendUpdate(k) \/ AdditionFails(k)
    <3>1. addition'[k].step # "read"
      BY <2>0, <2>4 DEF Purchase, SavePoints, SendUpdate, AdditionFails, Addition
    <3> QED BY <1>6, <3>1
  <2>5. CASE CrashCore
    <3>1. addition'[k].step # "read"
      BY <2>0, <2>5 DEF CrashCore, Addition
    <3> QED BY <1>6, <3>1
  <2>6. ASSUME NEW l \in Logins, Web(l) \/ RequestFails(l) PROVE UNCHANGED addition
    BY <2>6, WebFrame, FailFrame
  <2>7. ASSUME NEW c \in Calls, Serve(c) \/ NftFails(c) PROVE UNCHANGED addition
    BY <2>7, ServeFrame
  <2>8. ASSUME NEW j \in Additions, AddPoints(j) \/ AdditionFails(j)
        PROVE  addition'[k].user \in Due'
    BY <2>1, <2>2, <2>3, <2>4, <2>8 DEF AddPoints
  <2> QED BY <2>1, <2>5, <2>6, <2>7, <2>8, ConsumeFrame DEF OnboardingNext
<1> QED BY <1>2, <1>3, <1>4, <1>6 DEF WalletsAreSettled, Working, Due

\* A user goes from the login to the queue, and from the queue to a badge.
LEMMA ForgottenStep ==
  ASSUME OnboardingInv, OnboardingInv', WalletsAreSettled, NobodyForgotten, OnboardingNext
  PROVE  NobodyForgotten'
<1>0. /\ OnboardingTypeOK /\ OnboardingTypeOK' /\ Consumer /\ Accounts /\ Token
      /\ thread \in [Logins -> Thread] /\ Logins = Users
      /\ work \in Work /\ work.user \in Users
      /\ failures \in Nat /\ failures' \in Nat
  <2>1. OnboardingTypeOK /\ OnboardingTypeOK' /\ Consumer /\ Accounts /\ Token
    BY DEF OnboardingInv
  <2>2. thread \in [Logins -> Thread] /\ Logins = Users
    BY <2>1 DEF OnboardingTypeOK, Users
  <2> QED BY <2>1, <2>2, Values, FailuresNext
<1> SUFFICES ASSUME NEW u \in Users, doc'[u].saved
             PROVE  \/ badge'[u] # None
                    \/ thread'[u].step \in {"saved", "registered"}
                    \/ u \in create'
                    \/ failures' > 0
  BY DEF NobodyForgotten
<1>1. CASE SaveUser(u)
  <2>1. thread'[u].step = "saved"
    BY <1>0, <1>1 DEF SaveUser
  <2> QED BY <2>1
<1>2. CASE badge[u] # None \/ failures > 0
  BY <1>0, <1>2, Monotone
<1>3. CASE thread[u].step \in {"saved", "registered"}
  <2>1. CASE thread'[u] = thread[u]
    BY <1>3, <2>1
  <2>2. CASE Web(u)
    <3>1. CASE SaveUserToken(u)
      <4>1. thread'[u].step = "registered"
        BY <1>0, <3>1 DEF SaveUserToken, Step, Thread
      <4> QED BY <4>1
    <3>2. CASE SendCreateWallet(u)
      BY <3>2 DEF SendCreateWallet
    <3> QED BY <1>3, <2>2, <3>1, <3>2 DEF Web, LookUp, SaveToken, SaveUser, CheckPhone,
        SavePhone
  <2>3. ASSUME NEW l \in Logins, l # u, Web(l) PROVE thread'[u] = thread[u]
    BY <1>0, <2>3 DEF Web, LookUp, SaveToken, SaveUser, SaveUserToken, SendCreateWallet,
       CheckPhone, SavePhone, Step
  <2>4. CASE CrashCore
    BY <1>0, <2>4 DEF CrashCore, Fail
  <2>5. ASSUME NEW l \in Logins, RequestFails(l) PROVE failures' > 0
    BY <1>0, <2>5, FailFrame
  <2>6. ASSUME NEW k \in Additions, AddPoints(k) \/ AdditionFails(k) PROVE UNCHANGED thread
    BY <2>6, PointsFrame
  <2>7. ASSUME NEW c \in Calls, Serve(c) \/ NftFails(c) PROVE UNCHANGED thread
    BY <2>7, ServeFrame
  <2> QED BY <1>0, <2>1, <2>2, <2>3, <2>4, <2>5, <2>6, <2>7, ConsumeFrame
      DEF OnboardingNext
<1>4. CASE u \in create
  <2>1. CASE create \subseteq create'
    BY <1>4, <2>1
  <2>2. ASSUME NEW k \in Users, TakeCreateWallet(k)
        PROVE  u \in create' \/ badge'[u] # None \/ failures' > 0
    <3>1. CASE k = u /\ ~NeedsWallet(u)
      <4>1. u \in Due /\ work.step = "idle"
        BY <2>2, <3>1 DEF WalletsAreSettled, NeedsWallet, TakeCreateWallet, Working
      <4>2. badge[u] # None \/ failures > 0
        BY <4>1 DEF Due
      <4> QED BY <1>2, <4>2, <1>0, Monotone
    <3>2. CASE k # u \/ NeedsWallet(u)
      BY <1>4, <2>2, <3>2 DEF TakeCreateWallet
    <3> QED BY <3>1, <3>2
  <2>3. CASE TakeAnswer
    BY <2>1, <2>3 DEF TakeAnswer, Finish, queue
  <2>4. CASE AddBadge
    <3>1. CASE u = work.user
      <4>1. work.token \in Calls \cup {Unknown}
        BY <1>0, <2>4 DEF AddBadge, Token, Consumer, Working
      <4>2. badge'[u] # None
        BY <1>0, <2>4, <3>1, <4>1, Numbers DEF AddBadge, OnboardingTypeOK
      <4> QED BY <4>2
    <3>2. CASE u # work.user
      BY <1>4, <2>4, <3>2 DEF AddBadge, Finish
    <3> QED BY <3>1, <3>2
  <2>5. CASE Consume /\ ~TakeAnswer /\ ~AddBadge /\ \A k \in Users : ~TakeCreateWallet(k)
    <3>1. UNCHANGED create
      BY <2>5 DEF Consume, TakeUpdate, CreateWallet, ReadForWallet, SaveWallet, AskForCard,
         queue
    <3> QED BY <2>1, <3>1
  <2>6. CASE GiveUp \/ CrashCore
    BY <1>0, <2>6 DEF GiveUp, CrashCore, Fail
  <2>7. ASSUME NEW l \in Logins, Web(l) PROVE create \subseteq create'
    BY <2>7 DEF Web, LookUp, SaveToken, SaveUser, SaveUserToken, SendCreateWallet,
       CheckPhone, SavePhone, queue
  <2>8. ASSUME NEW l \in Logins, RequestFails(l) PROVE failures' > 0
    BY <1>0, <2>8, FailFrame
  <2>9. ASSUME NEW k \in Additions, AddPoints(k) \/ AdditionFails(k) PROVE UNCHANGED create
    BY <2>9, PointsFrame
  <2>10. ASSUME NEW c \in Calls, Serve(c) \/ NftFails(c) PROVE UNCHANGED create
    BY <2>10, ServeFrame
  <2> QED BY <2>1, <2>2, <2>3, <2>4, <2>5, <2>6, <2>7, <2>8, <2>9, <2>10
      DEF OnboardingNext
<1>5. doc[u].saved \/ SaveUser(u)
  BY <1>0, SavedDocuments
<1> QED BY <1>1, <1>2, <1>3, <1>4, <1>5 DEF NobodyForgotten

LEMMA Forgotten == OnboardingSpec => [](WalletsAreSettled /\ NobodyForgotten)
<1>1. OnboardingInit => WalletsAreSettled /\ NobodyForgotten
  BY DEF OnboardingInit, WalletsAreSettled, NobodyForgotten, Blank, Idle, Working, Users
<1>2. ASSUME OnboardingInv, OnboardingInv', WalletsAreSettled, NobodyForgotten,
             [OnboardingNext]_onboardingVars
      PROVE  WalletsAreSettled' /\ NobodyForgotten'
  <2>1. CASE OnboardingNext
    BY <1>2, <2>1, WalletsSettledStep, ForgottenStep
  <2>2. CASE UNCHANGED onboardingVars
    BY <1>2, <2>2 DEF onboardingVars, documents, queue, history, WalletsAreSettled,
       NobodyForgotten, Due, Working
  <2> QED BY <1>2, <2>1, <2>2
<1> QED BY <1>1, <1>2, OnboardingInvAlways, PTL DEF OnboardingSpec

-----------------------------------------------------------------------------
(***************************************************************************)
(* The promise                                                             *)
(***************************************************************************)

\* Cards and badges are each written in one place.
LEMMA Writers ==
  ASSUME OnboardingNext
  PROVE  /\ UNCHANGED card \/ \E c \in Calls : TransferNft(c) \/ UpdateNftUri(c)
         /\ UNCHANGED badge \/ AddBadge
<1>1. CASE Consume \/ GiveUp
  <2>1. UNCHANGED badge \/ AddBadge
    BY <1>1 DEF Consume, GiveUp, TakeCreateWallet, TakeUpdate, CreateWallet,
       ReadForWallet, SaveWallet, AskForCard, TakeAnswer
  <2> QED BY <1>1, <2>1, ConsumeFrame
<1>2. ASSUME NEW c \in Calls, Serve(c) \/ NftFails(c)
      PROVE  UNCHANGED card \/ TransferNft(c) \/ UpdateNftUri(c)
  BY <1>2 DEF Serve, UploadMetadata, CreateNft, VerifyCollection, NftFails
<1>3. CASE CrashCore
  BY <1>3 DEF CrashCore, nft
<1> QED BY <1>1, <1>2, <1>3, Otherwise, ServeFrame

LEMMA HarmStays ==
  ASSUME OnboardingTypeOK, OnboardingTypeOK', Consumer, Accounts, OnboardingNext
  PROVE  Harmed \subseteq Harmed'
<1>1. /\ failures > 0 => failures' > 0
      /\ stale.wallet \subseteq stale'.wallet /\ stale.wallet \subseteq Users
  BY Monotone DEF OnboardingTypeOK
<1> QED BY <1>1 DEF Harmed

\* A step leaves the points of every user, or adds to those that one has had.
LEMMA PointsChange ==
  ASSUME OnboardingTypeOK, OnboardingTypeOK', Consumer, Accounts, OnboardingNext
  PROVE  \/ had' = had /\ \A u \in Users : doc'[u].points = doc[u].points
         \/ \E u \in Users :
              /\ doc[u].saved
              /\ had' = [had EXCEPT ![u] = Append(@, doc'[u].points)]
              /\ \A v \in Users \ {u} : doc'[v].points = doc[v].points
<1>0. doc \in [Users -> Document]
  BY DEF OnboardingTypeOK
<1>1. ASSUME NEW l \in Logins, SaveUser(l)
      PROVE  had' = had /\ \A u \in Users : doc'[u].points = doc[u].points
  <2>1. Write(l, NewDocument) /\ doc[l].points = 0 /\ l \in Users
    BY <1>1 DEF SaveUser, Accounts, Users
  <2> QED BY <1>0, <2>1, NewUser DEF Write
<1>2. ASSUME NEW u \in Users, NEW copy \in Document, NEW new \in Document,
             Resaves(u, copy, new)
      PROVE  \/ had' = had /\ \A v \in Users : doc'[v].points = doc[v].points
             \/ /\ doc[u].saved
                /\ had' = [had EXCEPT ![u] = Append(@, doc'[u].points)]
                /\ \A v \in Users \ {u} : doc'[v].points = doc[v].points
  <2>1. Write(u, new) /\ doc[u].saved
    BY <1>2 DEF Resaves, Save
  <2>2. doc'[u] = new /\ \A v \in Users \ {u} : doc'[v] = doc[v]
    BY <1>0, <2>1 DEF Write
  <2>3. CASE new.points = doc[u].points
    BY <2>1, <2>2, <2>3 DEF Write
  <2>4. CASE new.points # doc[u].points
    BY <2>1, <2>2, <2>4 DEF Write
  <2> QED BY <2>3, <2>4
<1> QED BY <1>1, <1>2, Documents, Zenon

LEMMA PointsAreLastStep ==
  ASSUME OnboardingTypeOK, OnboardingTypeOK', Consumer, Accounts, OnboardingNext,
         PointsAreLast
  PROVE  PointsAreLast'
<1>0. had \in [Users -> Seq(Int)] /\ \A u \in Users : doc'[u].points \in Int
  BY DEF OnboardingTypeOK, Document
<1>1. CASE had' = had /\ \A u \in Users : doc'[u].points = doc[u].points
  BY <1>1 DEF PointsAreLast
<1>2. ASSUME NEW u \in Users, had' = [had EXCEPT ![u] = Append(@, doc'[u].points)],
             \A v \in Users \ {u} : doc'[v].points = doc[v].points
      PROVE  PointsAreLast'
  <2>1. had'[u] = Append(had[u], doc'[u].points)
    BY <1>0, <1>2
  <2>2. /\ had'[u] # <<>> /\ had'[u][1] = had[u][1]
        /\ had'[u][Len(had'[u])] = doc'[u].points
    BY <1>0, <2>1 DEF PointsAreLast
  <2>3. \A v \in Users \ {u} : had'[v] = had[v]
    BY <1>0, <1>2
  <2> QED BY <1>2, <2>2, <2>3 DEF PointsAreLast
<1> QED BY <1>1, <1>2, PointsChange, Zenon

\* What a user has had stays in its place.
LEMMA StillHad ==
  ASSUME OnboardingTypeOK, OnboardingTypeOK', Consumer, Accounts, OnboardingNext,
         NEW u \in Users, NEW face \in Face, IsOneOf(face, had[u])
  PROVE  IsOneOf(face, had'[u])
<1>0. had \in [Users -> Seq(Int)] /\ \A v \in Users : doc'[v].points \in Int
  BY DEF OnboardingTypeOK, Document
<1>1. had'[u] = had[u] \/ had'[u] = Append(had[u], doc'[u].points)
  BY <1>0, PointsChange
<1>2. ASSUME had'[u] = Append(had[u], doc'[u].points) PROVE IsOneOf(face, had'[u])
  <2>1. had[u] \in Seq(Int) /\ doc'[u].points \in Int
    BY <1>0
  <2> QED BY <1>2, <2>1 DEF IsOneOf, Face
<1> QED BY <1>1, <1>2

\* What a step of nft-service puts on a card.
LEMMA Shown ==
  ASSUME OnboardingInv, OnboardingInv', CardsFollow, NEW c \in Calls,
         TransferNft(c) \/ UpdateNftUri(c)
  PROVE  \/ UNCHANGED card
         \/ LET u == call[c].user IN
              /\ card' = [card EXCEPT ![u] = call[c].shows]
              /\ badge[u] # None /\ IsOneOf(call[c].shows, had[u])
              /\ call[c].shows.turn < card[u].turn => u \in Harmed
<1> DEFINE u == call[c].user
<1>0. /\ OnboardingTypeOK /\ OnboardingTypeOK' /\ CallsInOrder /\ BadgesMatchCards
      /\ OneCardPerUser /\ Cards /\ Kind(c) /\ InProgress(c)
      /\ u \in Users /\ card \in [Users -> Face] /\ call[c].shows \in Face
      /\ stale.wallet \subseteq Users /\ failures \in Nat
      /\ badge[u] \in {None, Unknown} \cup Calls
  <2>1. /\ OnboardingTypeOK /\ OnboardingTypeOK' /\ CallsInOrder /\ BadgesMatchCards
        /\ OneCardPerUser /\ Cards
    BY DEF OnboardingInv
  <2>2. Kind(c) /\ InProgress(c)
    BY <2>1 DEF CallsInOrder, TransferNft, UpdateNftUri, InProgress
  <2>3. call[c] \in Call /\ card \in [Users -> Face] /\ failures \in Nat
        /\ stale.wallet \subseteq Users /\ badge \in [Users -> {None, Unknown} \cup Calls]
    BY <2>1, OnboardingAssumption DEF OnboardingTypeOK
  <2>4. u \in Users /\ call[c].shows \in Face
    BY <2>3 DEF Call
  <2> QED BY <2>1, <2>2, <2>3, <2>4
<1>1. IsOneOf(call[c].shows, had[u])
  BY <1>0 DEF CardsFollow, InProgress
<1>2. CASE UpdateNftUri(c)
  <2>1. /\ call[c].step = "update" /\ ~call[c].receiver
        /\ card' = [card EXCEPT ![u] = call[c].shows]
    BY <1>0, <1>2 DEF UpdateNftUri, Kind
  <2>2. badge[u] # None
    BY <1>0, <2>1 DEF Kind
  <2>3. u \notin Harmed => card[u].turn <= call[c].shows.turn
    BY <1>0, <2>1 DEF CardsFollow
  <2>4. card[u].turn \in Nat /\ call[c].shows.turn \in Nat
    BY <1>0 DEF Face
  <2> QED BY <1>0, <1>1, <2>1, <2>2, <2>3, <2>4
<1>3. CASE TransferNft(c) /\ ~call[c].receiver
  BY <1>3 DEF TransferNft
<1>4. CASE TransferNft(c) /\ call[c].receiver
  <2>1. /\ call[c].step = "send" /\ call[c].shows = First /\ c \in Mints(u)
        /\ card' = [card EXCEPT ![u] = call[c].shows]
    BY <1>0, <1>4 DEF TransferNft, Kind, Mints
  <2>2. CASE badge[u] = None
    <3>1. card[u] = First
      BY <1>0, <2>2 DEF Cards
    <3>2. card' = card
      BY <1>0, <2>1, <3>1
    <3> QED BY <3>2
  <2>3. CASE badge[u] # None
    <3>1. ASSUME badge[u] = Unknown PROVE u \in Harmed
      BY <1>0, <3>1 DEF BadgesMatchCards, Harmed
    <3>2. ASSUME badge[u] \in Calls PROVE u \in Harmed
      <4>1. badge[u] \in Mints(u) /\ badge[u] # c
        BY <1>0, <2>1, <3>2 DEF BadgesMatchCards
      <4> QED BY <1>0, <2>1, <4>1 DEF OneCardPerUser, Harmed
    <3>3. u \in Harmed
      BY <1>0, <2>3, <3>1, <3>2
    <3> QED BY <1>1, <2>1, <2>3, <3>3
  <2> QED BY <2>2, <2>3
<1> QED BY <1>2, <1>3, <1>4

LEMMA CardsFollowStep ==
  ASSUME OnboardingInv, OnboardingInv', CardsFollow, PointsAreLast, OnboardingNext
  PROVE  CardsFollow'
<1>0. /\ OnboardingTypeOK /\ OnboardingTypeOK' /\ Consumer /\ Accounts /\ CallsInOrder
      /\ card \in [Users -> Face] /\ card' \in [Users -> Face]
      /\ had \in [Users -> Seq(Int)] /\ call \in [Calls -> Call] /\ call' \in [Calls -> Call]
      /\ \A c \in Calls : /\ call[c].user \in Users /\ call'[c].user \in Users
                          /\ call[c].shows \in Face /\ call'[c].shows \in Face
      /\ work \in Work /\ work.user \in Users
  BY DEF OnboardingInv, OnboardingTypeOK, Call, Work
<1>1. Harmed \subseteq Harmed'
  BY <1>0, HarmStays
<1>2. \A u \in Users, face \in Face : IsOneOf(face, had[u]) => IsOneOf(face, had'[u])
  BY <1>0, StillHad
<1>3. \A u \in Users : IsOneOf(card[u], had'[u])
  BY <1>0, <1>2 DEF CardsFollow
<1>4. ASSUME UNCHANGED <<card, call>> PROVE CardsFollow'
  <2>1. \A c \in Calls : call[c].step # "none" => IsOneOf(call[c].shows, had'[call[c].user])
    BY <1>0, <1>2 DEF CardsFollow
  <2> QED BY <1>1, <1>3, <1>4, <2>1 DEF CardsFollow, InProgress
<1>5. ASSUME NEW u \in Users, NEW shows \in Face, NEW receiver \in BOOLEAN,
             Ask(u, shows, receiver), UNCHANGED <<had, card>>,
             IF receiver THEN shows = First ELSE shows = FaceNow(u)
      PROVE  CardsFollow'
  <2>1. PICK c \in Calls : Made(c, u, shows, receiver)
    BY <1>0, <1>5, Asking
  <2>2. /\ call'[c].user = u /\ call'[c].shows = shows /\ call'[c].receiver = receiver
        /\ \A d \in Calls : d # c => call'[d] = call[d]
    BY <1>0, <2>1 DEF Made
  <2>3. IsOneOf(shows, had[u])
    BY <1>0, <1>5, FirstIsFace DEF PointsAreLast, IsOneOf, FaceNow
  <2>4. ~receiver => card[u].turn <= shows.turn
    BY <1>0, <1>5 DEF CardsFollow, IsOneOf, FaceNow
  <2>5. ASSUME NEW d \in Calls
        PROVE  /\ call'[d].step # "none" => IsOneOf(call'[d].shows, had'[call'[d].user])
               /\ InProgress(d)' /\ ~call'[d].receiver /\ call'[d].user \notin Harmed' =>
                    card'[call'[d].user].turn <= call'[d].shows.turn
    <3>1. CASE d = c
      BY <1>5, <2>2, <2>3, <2>4, <3>1
    <3>2. CASE d # c
      <4>1. call'[d] = call[d]
        BY <2>2, <3>2
      <4> QED BY <1>1, <1>5, <4>1 DEF CardsFollow, InProgress
    <3> QED BY <3>1, <3>2
  <2> QED BY <1>3, <1>5, <2>5 DEF CardsFollow, InProgress
<1>6. ASSUME NEW c \in Calls, Serve(c) \/ NftFails(c) PROVE CardsFollow'
  <2>1. /\ InProgress(c) /\ UNCHANGED had
        /\ \A d \in Calls : d # c => call'[d] = call[d]
        /\ \A d \in Calls : /\ call'[d].user = call[d].user
                            /\ call'[d].receiver = call[d].receiver
                            /\ call'[d].shows = call[d].shows
    BY <1>0, <1>6, Progress, ServeFrame DEF OnboardingInv
  <2>2. \A d \in Calls : /\ call'[d].step # "none" => call[d].step # "none"
                         /\ InProgress(d)' => InProgress(d)
    BY <2>1 DEF InProgress
  <2>3. \A d \in Calls : call'[d].step # "none" =>
          IsOneOf(call'[d].shows, had'[call'[d].user])
    BY <2>1, <2>2 DEF CardsFollow
  <2>4. CASE UNCHANGED card
    BY <1>1, <2>1, <2>2, <2>3, <2>4 DEF CardsFollow
  <2>5. CASE (TransferNft(c) \/ UpdateNftUri(c)) /\ ~ UNCHANGED card
    <3> DEFINE u == call[c].user
    <3>1. card' = [card EXCEPT ![u] = call[c].shows] /\ IsOneOf(call[c].shows, had[u])
      BY <2>5, Shown
    <3>2. \A v \in Users : IsOneOf(card'[v], had'[v])
      BY <1>0, <2>1, <3>1 DEF CardsFollow
    <3>3. ASSUME NEW d \in Calls, InProgress(d)', call'[d].user \notin Harmed'
          PROVE  FALSE
      <4>1. call'[c].step \in {"sent", "updated", "failed"}
        BY <1>0, <2>5 DEF TransferNft, UpdateNftUri, Advances, Call
      <4>2. d # c
        BY <3>3, <4>1 DEF InProgress
      <4>3. failures = 0
        BY <1>0, <1>1, <3>3, <2>1, OnboardingAssumption DEF Harmed, OnboardingTypeOK
      <4>4. work.asked = d /\ work.asked = c
        <5>1. InProgress(d)
          BY <2>2, <3>3
        <5> QED BY <1>0, <2>1, <4>3, <5>1 DEF CallsInOrder
      <4> QED BY <4>2, <4>4
    <3> QED BY <2>3, <3>2, <3>3 DEF CardsFollow
  <2> QED BY <1>6, <2>4, <2>5 DEF Serve, UploadMetadata, CreateNft, VerifyCollection, NftFails
<1>7. CASE AskForCard
  BY <1>0, <1>5, <1>7, FirstIsFace DEF AskForCard, documents
<1>8. ASSUME NEW u \in Users, TakeUpdate(u) PROVE CardsFollow'
  <2>1. FaceNow(u) \in Face
    BY <1>0, FaceOf
  <2> QED BY <1>5, <1>8, <2>1 DEF TakeUpdate, documents
<1>9. CASE Consume /\ ~AskForCard /\ \A u \in Users : ~TakeUpdate(u)
  BY <1>4, <1>9 DEF Consume, TakeCreateWallet, CreateWallet, ReadForWallet, SaveWallet,
     TakeAnswer, AddBadge, nft
<1>10. CASE GiveUp \/ CrashCore
  BY <1>4, <1>10 DEF GiveUp, CrashCore, nft
<1> QED BY <1>4, <1>6, <1>7, <1>8, <1>9, <1>10, Otherwise, Zenon

\* Each step of the onboarding is a step of the promise or none.
LEMMA NextPromise ==
  ASSUME OnboardingInv, OnboardingInv', CardsFollow, [OnboardingNext]_onboardingVars
  PROVE  [Promise!Next]_(Promise!vars)
<1>0. /\ OnboardingTypeOK /\ OnboardingTypeOK' /\ Consumer /\ Accounts
      /\ doc \in [Users -> Document] /\ had \in [Users -> Seq(Int)]
      /\ card \in [Users -> Face] /\ Logins = Users
      /\ \A u \in Users : doc'[u].points \in Int
  BY DEF OnboardingInv, OnboardingTypeOK, Users, Document
<1> DEFINE joined == {u \in Users : doc[u].saved}
           members == {u \in Users : badge[u] # None}
<1>1. CASE UNCHANGED onboardingVars
  BY <1>1 DEF onboardingVars, documents, history, nft, Harmed, Promise!vars
<1>2. ASSUME OnboardingNext, NEW u \in Users, SaveUser(u) PROVE Promise!Next
  <2>1. UNCHANGED <<badge, card, failures, stale>> /\ doc' = [doc EXCEPT ![u] = NewDocument]
    BY <1>2 DEF SaveUser, Write, nft, history
  <2>2. joined' = joined \cup {u}
    BY <1>0, <2>1, NewUser
  <2>3. had' = had
    <3>1. Write(u, NewDocument) /\ doc[u].points = 0
      BY <1>0, <1>2 DEF SaveUser, Accounts
    <3> QED BY <3>1, NewUser DEF Write
  <2>4. Promise!Join(u)
    BY <2>1, <2>2, <2>3 DEF Promise!Join, Harmed
  <2> QED BY <2>4 DEF Promise!Next
<1>3. ASSUME OnboardingNext, \A u \in Users : ~SaveUser(u) PROVE joined' = joined
  BY <1>0, <1>3, SavedDocuments
<1>4. ASSUME OnboardingNext, AddBadge PROVE Promise!Next
  <2>1. /\ UNCHANGED <<doc, had, card, failures, stale>>
        /\ badge' = IF badge[work.user] # None THEN badge
                    ELSE [badge EXCEPT ![work.user] = work.token]
    BY <1>4 DEF AddBadge, documents, nft, history
  <2>2. /\ work.user \in Users /\ doc[work.user].saved
        /\ work.token \in Calls \cup {Unknown}
    BY <1>0, <1>4 DEF AddBadge, Consumer, Accounts, OnboardingInv, Token, Working,
       OnboardingTypeOK, Work
  <2>3. members' = members \cup {work.user}
    BY <1>0, <2>1, <2>2, Numbers DEF OnboardingTypeOK
  <2>4. PICK u \in Users : u = work.user
    BY <2>2
  <2>5. Promise!Enrol(u)
    BY <2>1, <2>2, <2>3, <2>4 DEF Promise!Enrol, Harmed
  <2> QED BY <2>5 DEF Promise!Next
<1>5. ASSUME OnboardingNext, NEW c \in Calls, TransferNft(c) \/ UpdateNftUri(c),
             card' # card
      PROVE  Promise!Next
  <2> DEFINE u == call[c].user
             n == call[c].shows.turn
  <2>1. /\ card' = [card EXCEPT ![u] = call[c].shows]
        /\ u \in members /\ IsOneOf(call[c].shows, had[u])
        /\ n < card[u].turn => u \in Harmed
        /\ u \in Users /\ call[c].shows \in Face
    BY <1>0, <1>5, Shown DEF OnboardingTypeOK, Call
  <2>2. UNCHANGED <<doc, had, badge, failures, stale>>
    BY <1>5 DEF TransferNft, UpdateNftUri, documents, history
  <2>3. n \in DOMAIN had[u] /\ call[c].shows = [points |-> had[u][n], turn |-> n]
    BY <1>0, <2>1 DEF IsOneOf, Face
  <2> HIDE DEF n, u
  <2>4. Promise!Show(u)
    BY <2>1, <2>2, <2>3 DEF Promise!Show, Harmed
  <2> QED BY <2>1, <2>4 DEF Promise!Next
<1>6. ASSUME OnboardingNext, UNCHANGED <<card, badge>>, joined' = joined
      PROVE  Promise!Next
  <2>1. Harmed \subseteq Harmed'
    BY <1>0, <1>6, HarmStays
  <2>2. CASE had' = had
    BY <1>6, <2>1, <2>2 DEF Promise!Next, Promise!Hurt, Promise!Harm
  <2>3. ASSUME NEW u \in Users, doc[u].saved,
               had' = [had EXCEPT ![u] = Append(@, doc'[u].points)]
        PROVE  Promise!Next
    <3>1. had'[u] = Append(had[u], doc'[u].points)
      BY <1>0, <2>3
    <3>2. had'[u][Len(had'[u])] = doc'[u].points
      BY <1>0, <3>1
    <3>3. Promise!Change(u)
      BY <1>6, <2>1, <2>3, <3>2 DEF Promise!Change, Promise!Harm
    <3> QED BY <3>3 DEF Promise!Next
  <2> QED BY <1>0, <1>6, <2>2, <2>3, PointsChange, Zenon
<1> QED BY <1>0, <1>1, <1>2, <1>3, <1>4, <1>5, <1>6, Writers

-----------------------------------------------------------------------------
(***************************************************************************)
(* What always holds                                                       *)
(***************************************************************************)

\* The documents, the tasks and the calls of nft-service keep their types; a task
\* that is acknowledged was in its queue.
THEOREM OnboardingTypes == OnboardingSpec => []OnboardingTypeOK
<1>1. OnboardingInv => OnboardingTypeOK
  BY DEF OnboardingInv
<1> QED BY <1>1, OnboardingInvAlways, PTL

\* Nobody is locked out by a second user of the same email, and nobody shares a phone
\* number, unless two requests overlapped between the lookup and the save of
\* UserServiceImpl, or a document was saved over a later one.
THEOREM Distinct == OnboardingSpec => []AccountsAreDistinct
<1>1. OnboardingInv => AccountsAreDistinct
  BY DEF OnboardingInv, AccountsAreDistinct
<1> QED BY <1>1, OnboardingInvAlways, PTL

\* A CREATE_WALLET task that is delivered again mints no second card, unless the wallet
\* was saved over; the badges of core-app and the cards that nft-service transferred
\* agree, where nothing failed either.
THEOREM Badges == OnboardingSpec => []BadgesAndCardsAgree
<1>1. OnboardingInv => BadgesAndCardsAgree
  BY DEF OnboardingInv, BadgesAndCardsAgree
<1> QED BY <1>1, OnboardingInvAlways, PTL

\* The last UPDATE_PROFILE_NFT task of a user leaves a card with the user's points.
THEOREM CurrentCards == OnboardingSpec => []CardIsCurrent
<1>1. OnboardingInv => CardIsCurrent
  BY DEF OnboardingInv
<1> QED BY <1>1, OnboardingInvAlways, PTL

\* A CREATE_WALLET task is acknowledged only when its user has a badge or something
\* failed, although it is dropped as soon as its user has a wallet.
THEOREM EveryoneInHand == OnboardingSpec => []NobodyForgotten
BY Forgotten, PTL

\* Every behaviour of the onboarding is one of MembershipPromise: badges stay, a card
\* shows points that its user has had, and goes back only after harm.
THEOREM OnboardingKeepsPromise == OnboardingSpec => KeepsPromise
<1>1. OnboardingInit => Promise!Init
  BY DEF OnboardingInit, Promise!Init, Blank, First, Harmed
<1>2. OnboardingInit => CardsFollow /\ PointsAreLast
  BY DEF OnboardingInit, CardsFollow, PointsAreLast, InProgress, IsOneOf, Blank, First
<1>3. OnboardingInv /\ OnboardingInv' /\ CardsFollow /\ PointsAreLast
        /\ [OnboardingNext]_onboardingVars
        => CardsFollow' /\ PointsAreLast'
  <2>1. ASSUME CardsFollow, PointsAreLast, UNCHANGED onboardingVars
        PROVE  CardsFollow' /\ PointsAreLast'
    BY <2>1 DEF onboardingVars, documents, nft, history, CardsFollow, PointsAreLast,
       InProgress, Harmed
  <2> QED BY <2>1, CardsFollowStep, PointsAreLastStep DEF OnboardingInv
<1>4. OnboardingInv /\ OnboardingInv' /\ CardsFollow /\ [OnboardingNext]_onboardingVars
        => [Promise!Next]_(Promise!vars)
  BY NextPromise
<1> QED
  BY <1>1, <1>2, <1>3, <1>4, OnboardingInvAlways, PTL
     DEF OnboardingSpec, KeepsPromise, Promise!Spec

=============================================================================
