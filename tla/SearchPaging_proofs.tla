------------------------ MODULE SearchPaging_proofs ------------------------
(***************************************************************************)
(* Proofs about SearchPaging, for any number of searches, readers and      *)
(* pages, any lifetimes of cursors and leases, and fetches of any length.  *)
(***************************************************************************)
EXTENDS SearchPaging, TLAPS

HasPage == {"spent", "issued", "answered"}

(* What a call reads, and what it has been sent with it.                   *)
ReadingInv ==
  \A c \in Call :
    /\ pc[c] \in Live \cup {"answered"} => reading[c] # None
    /\ c \in Search =>
         /\ pc[c] # "idle" => reading[c] # None
         /\ pc[c] \notin {"refused", "spent"}
         /\ reading[c] # None => reading[c].page = [ search |-> c, number |-> 1 ]
    /\ pc[c] = "idle" => reading[c] = None
    /\ pc[c] \in {"idle", "fetching", "provider_failed"} => next[c] = None
    /\ next[c] # None =>
         /\ reading[c] # None
         /\ next[c] = [reading[c].page EXCEPT !.number = reading[c].page.number + 1]

(* A reader reads what an answered call has been sent the link to.         *)
ReaderInv ==
  \A c \in Reader : reading[c] # None =>
    /\ reading[c].cursor \in Call
    /\ pc[reading[c].cursor] = "answered"
    /\ next[reading[c].cursor] = reading[c].page

(* A cursor in the store is the link of the call that issued it, and there *)
(* is none for a page that a reader has got.                               *)
StoreInv ==
  /\ \A k \in Call :
       /\ records[k] # None =>
            pc[k] \in {"issued", "answered"} /\ next[k] # None /\ records[k].link = next[k]
       /\ leases[k] # None => records[k] # None
  /\ \A c \in Reader : pc[c] \in HasPage => records[reading[c].cursor] = None

Owns(c) == IF c \in Search THEN pc[c] # "idle" ELSE pc[c] \in HasPage

(* Nobody else has got, or will get, the page of a call.                   *)
PageInv ==
  \A c1, c2 \in Call :
    Owns(c1) /\ Owns(c2) /\ reading[c1].page = reading[c2].page => c1 = c2

PagingInv == TypeOK /\ ReadingInv /\ ReaderInv /\ StoreInv /\ PageInv

(* Whoever fetches holds a lease, unless that has run out or there is      *)
(* nothing left to lease.                                                  *)
Covered(c) ==
  LET k == reading[c].cursor
  IN  \/ Cursors!Holds(c, k) /\ leases[k].expiresAt = reading[c].since + LeaseTTL
      \/ clock >= reading[c].since + LeaseTTL
      \/ records[k] = None

LeaseInv == \A c \in Reader : pc[c] = "fetching" => Covered(c)
-----------------------------------------------------------------------------
(* Types.                                                                  *)

LEMMA Constants ==
  /\ CursorTTL \in Nat /\ LeaseTTL \in Nat /\ FetchTime \in Nat
  /\ MaxPage \in Nat /\ MaxPage > 0 /\ MaxClock \in Nat
  /\ Search \subseteq Call /\ Reader \subseteq Call /\ Search \cap Reader = {}
  /\ Call = Search \cup Reader /\ None \notin Call
  BY CallAssumption, ConstantAssumption DEF Call

LEMMA Nothing ==
  /\ None \notin Cursors!Record /\ None \notin Cursors!LeaseRecord
  /\ None \notin Fetch /\ None \notin Page
  BY NoneAssumption

LEMMA NextPage ==
  ASSUME NEW page \in Page, NEW link \in After(page)
  PROVE  /\ link \in Page \cup {None}
         /\ link # None => link = [page EXCEPT !.number = page.number + 1]
  BY Constants DEF After, Page

LEMMA GotoMoves ==
  ASSUME pc \in [Call -> PC], NEW c \in Call, NEW to \in PC, Goto(c, to)
  PROVE  /\ pc' \in [Call -> PC] /\ pc'[c] = to
         /\ \A d \in Call : d # c => pc'[d] = pc[d]
  BY DEF Goto

(* What the operations of the store do.                                    *)
LEMMA IssueEffect ==
  ASSUME TypeOK, NEW c \in Call, NEW link \in Page,
         Cursors!Issue(c, link, clock, CursorTTL)
  PROVE  /\ Cursors!TypeOK' /\ leases' = leases
         /\ records'[c] # None /\ records'[c].link = link
         /\ \A k \in Call : k # c => records'[k] = records[k]
<1> DEFINE record == [ link |-> link, expiresAt |-> clock + CursorTTL ]
<1>1. record \in Cursors!Record /\ record # None
  BY Constants, Nothing DEF TypeOK, Cursors!Record
<1>2. records' = [records EXCEPT ![c] = record] /\ leases' = leases
  BY DEF Cursors!Issue
<1>3. record.link = link
  OBVIOUS
<1> HIDE DEF record
<1> QED
  BY <1>1, <1>2, <1>3 DEF TypeOK, Cursors!TypeOK

LEMMA LeaseEffect ==
  ASSUME TypeOK, NEW k \in Call, NEW c \in Reader,
         Cursors!Lease(k, c, clock, LeaseTTL)
  PROVE  /\ Cursors!TypeOK' /\ records' = records
         /\ leases'[k] # None /\ leases'[k].holder = c
         /\ leases'[k].expiresAt = clock + LeaseTTL
         /\ \A j \in Call : j # k => leases'[j] = leases[j]
<1> DEFINE lease == [ holder |-> c, expiresAt |-> clock + LeaseTTL ]
<1>1. lease \in Cursors!LeaseRecord /\ lease # None
  BY Constants, Nothing DEF TypeOK, Cursors!LeaseRecord
<1>2. leases' = [leases EXCEPT ![k] = lease] /\ records' = records
  BY DEF Cursors!Lease
<1>3. lease.holder = c /\ lease.expiresAt = clock + LeaseTTL
  OBVIOUS
<1> HIDE DEF lease
<1> QED
  BY <1>1, <1>2, <1>3 DEF TypeOK, Cursors!TypeOK

LEMMA RefuseEffect ==
  ASSUME TypeOK, NEW k \in Call, Cursors!RefuseLease(k, clock)
  PROVE  /\ Cursors!TypeOK'
         /\ \/ records' = records /\ leases' = leases
            \/ records'[k] = None /\ leases'[k] = None
         /\ \A j \in Call : j # k => records'[j] = records[j] /\ leases'[j] = leases[j]
         /\ records'[k] # records[k] => Cursors!Expired(k, clock)
<1> USE DEF TypeOK, Cursors!TypeOK
<1>1. CASE Cursors!Expired(k, clock)
  <2>1. /\ records' = [records EXCEPT ![k] = None]
        /\ leases' = [leases EXCEPT ![k] = None]
    BY <1>1 DEF Cursors!RefuseLease, Cursors!Drop
  <2> QED
    BY <1>1, <2>1
<1>2. CASE ~ Cursors!Expired(k, clock)
  BY <1>2 DEF Cursors!RefuseLease
<1> QED
  BY <1>1, <1>2

LEMMA RollbackEffect ==
  ASSUME TypeOK, NEW c \in Reader, NEW k \in Call, Cursors!RollbackLease(c, k)
  PROVE  /\ Cursors!TypeOK' /\ records' = records
         /\ \A j \in Call : leases'[j] = leases[j] \/ (leases'[j] = None /\ Cursors!Holds(c, j))
<1> USE DEF TypeOK, Cursors!TypeOK
<1>1. CASE Cursors!Holds(c, k)
  <2>1. records' = records /\ leases' = [leases EXCEPT ![k] = None]
    BY <1>1 DEF Cursors!RollbackLease, Cursors!Drop
  <2> QED
    BY <1>1, <2>1
<1>2. CASE ~ Cursors!Holds(c, k)
  BY <1>2 DEF Cursors!RollbackLease
<1> QED
  BY <1>1, <1>2

LEMMA CommitEffect ==
  ASSUME TypeOK, NEW c \in Reader, NEW k \in Call, Cursors!CommitLease(c, k, clock)
  PROVE  /\ Cursors!TypeOK'
         /\ \A j \in Call : leases'[j] = leases[j] \/ (leases'[j] = None /\ Cursors!Holds(c, j))
         /\ \A j \in Call : j # k => records'[j] = records[j] /\ leases'[j] = leases[j]
         /\ IF Cursors!Commits(c, k, clock)
            THEN leases[k] # None /\ leases'[k] = None /\ records'[k] = None
            ELSE records' = records
<1> USE DEF TypeOK, Cursors!TypeOK
<1>1. CASE Cursors!Commits(c, k, clock)
  <2>1. /\ Cursors!Holds(c, k) /\ leases[k] # None
        /\ leases' = [leases EXCEPT ![k] = None]
        /\ records' = [records EXCEPT ![k] = None]
    BY <1>1 DEF Cursors!CommitLease, Cursors!Drop, Cursors!Commits, Cursors!Holds
  <2> QED
    BY <1>1, <2>1
<1>2. CASE ~ Cursors!Commits(c, k, clock) /\ Cursors!Holds(c, k)
  <2>1. leases' = [leases EXCEPT ![k] = None] /\ records' = records
    BY <1>2 DEF Cursors!CommitLease, Cursors!Drop
  <2> QED
    BY <1>2, <2>1
<1>3. CASE ~ Cursors!Holds(c, k)
  BY <1>3 DEF Cursors!CommitLease, Cursors!Commits
<1> QED
  BY <1>1, <1>2, <1>3

LEMMA TypeInit == Init => TypeOK
<1> SUFFICES ASSUME Init PROVE TypeOK
  OBVIOUS
<1>1. Cursors!TypeOK
  BY DEF Init, Cursors!Init, Cursors!TypeOK
<1> QED
  BY <1>1, Constants DEF Init, TypeOK, PC

LEMMA PagingInit == Init => PagingInv
<1> SUFFICES ASSUME Init PROVE PagingInv
  OBVIOUS
<1>1. \A c \in Call : pc[c] = "idle" /\ reading[c] = None /\ next[c] = None
                      /\ records[c] = None /\ leases[c] = None
  BY DEF Init, Cursors!Init
<1>2. ReadingInv /\ ReaderInv /\ StoreInv /\ PageInv
  BY <1>1, Constants, Zenon DEF ReadingInv, ReaderInv, StoreInv, PageInv, Owns, Live, HasPage
<1> QED
  BY <1>2, TypeInit DEF PagingInv
-----------------------------------------------------------------------------
(* Steps.                                                                  *)

LEMMA FetchTypes ==
  ASSUME NEW f \in Fetch
  PROVE  /\ f.cursor \in Call \cup {None} /\ f.page \in Page /\ f.since \in 0..MaxClock
         /\ f.page.search \in Search /\ f.page.number \in 1..MaxPage
  BY DEF Fetch, Page

LEMMA TypeStep == PagingInv /\ [Next]_vars => TypeOK'
<1> SUFFICES ASSUME PagingInv, [Next]_vars PROVE TypeOK'
  OBVIOUS
<1>0. TypeOK /\ ReadingInv /\ ReaderInv /\ StoreInv
  BY DEF PagingInv
<1>a. /\ clock \in 0..MaxClock /\ clock \in Nat /\ Cursors!TypeOK /\ pc \in [Call -> PC]
      /\ reading \in [Call -> Fetch \cup {None}] /\ next \in [Call -> Page \cup {None}]
  BY <1>0, Constants DEF TypeOK
<1>b. {"fetching", "fetched", "provider_failed", "spent", "issued", "answered", "refused",
       "failed", "lost"} \subseteq PC
  BY DEF PC, Live, Ended
<1>1. ASSUME NEW c \in Call, ProviderAnswers(c) PROVE TypeOK'
  <2>1. PICK link \in After(reading[c].page) : next' = [next EXCEPT ![c] = link]
    BY <1>1 DEF ProviderAnswers
  <2>2. reading[c] \in Fetch
    BY <1>0, <1>a, <1>1 DEF ProviderAnswers, ReadingInv, Live
  <2>3. link \in Page \cup {None}
    BY <2>1, <2>2, FetchTypes, NextPage
  <2>4. pc' \in [Call -> PC]
    BY <1>a, <1>b, <1>1, GotoMoves DEF ProviderAnswers
  <2> QED
    BY <1>a, <1>1, <2>1, <2>3, <2>4 DEF ProviderAnswers, TypeOK, store, Cursors!TypeOK
<1>2. ASSUME NEW c \in Call, ProviderFails(c) \/ Answer(c) \/ IssueFails(c) \/ SearchFails(c)
      PROVE  TypeOK'
  <2>1. pc' \in [Call -> PC]
    BY <1>a, <1>b, <1>2, GotoMoves DEF ProviderFails, Answer, IssueFails, SearchFails
  <2> QED
    BY <1>a, <1>2, <2>1
       DEF ProviderFails, Answer, IssueFails, SearchFails, TypeOK, store, Cursors!TypeOK
<1>3. ASSUME NEW c \in Call, IssueCursor(c) PROVE TypeOK'
  <2>1. next[c] \in Page
    BY <1>a, <1>3 DEF IssueCursor
  <2>2. Cursors!TypeOK'
    BY <1>0, <1>3, <2>1, IssueEffect DEF IssueCursor
  <2>3. pc' \in [Call -> PC]
    BY <1>a, <1>b, <1>3, GotoMoves DEF IssueCursor
  <2> QED
    BY <1>a, <1>3, <2>2, <2>3 DEF IssueCursor, TypeOK
<1>4. ASSUME NEW c \in Call, BeginSearch(c) PROVE TypeOK'
  <2>1. [ cursor |-> None, page |-> [search |-> c, number |-> 1], since |-> clock ] \in Fetch
    BY <1>a, <1>4, Constants DEF BeginSearch, Fetch, Page
  <2>2. pc' \in [Call -> PC]
    BY <1>a, <1>b, <1>4, GotoMoves DEF BeginSearch
  <2> QED
    BY <1>a, <1>4, <2>1, <2>2 DEF BeginSearch, TypeOK, store, Cursors!TypeOK
<1>5. ASSUME NEW c \in Call, LeaseCursor(c) PROVE TypeOK'
  <2>1. PICK k \in Given :
          /\ Cursors!CanLease(k, clock) /\ Cursors!Lease(k, c, clock, LeaseTTL)
          /\ reading' = [reading EXCEPT ![c] =
               [ cursor |-> k, page |-> records[k].link, since |-> clock ]]
    BY <1>5 DEF LeaseCursor
  <2>2. k \in Call /\ c \in Reader
    BY <1>5 DEF LeaseCursor, Given
  <2>3. records[k].link \in Page
    BY <1>a, <2>1, <2>2 DEF Cursors!CanLease, Cursors!Known, Cursors!TypeOK, Cursors!Record
  <2>4. Cursors!TypeOK'
    BY <1>0, <2>1, <2>2, LeaseEffect
  <2>5. [ cursor |-> k, page |-> records[k].link, since |-> clock ] \in Fetch
    BY <1>a, <2>2, <2>3 DEF Fetch
  <2>6. pc' \in [Call -> PC]
    BY <1>a, <1>b, <1>5, GotoMoves DEF LeaseCursor
  <2> QED
    BY <1>a, <1>5, <2>1, <2>4, <2>5, <2>6 DEF LeaseCursor, TypeOK
<1>6. ASSUME NEW c \in Call, LeaseIsRefused(c) PROVE TypeOK'
  <2>1. Cursors!TypeOK'
    BY <1>0, <1>a, <1>6, RefuseEffect DEF LeaseIsRefused, Given, store, Cursors!TypeOK
  <2>2. pc' \in [Call -> PC]
    BY <1>a, <1>b, <1>6, GotoMoves DEF LeaseIsRefused
  <2> QED
    BY <1>a, <1>6, <2>1, <2>2 DEF LeaseIsRefused, TypeOK
<1>7. ASSUME NEW c \in Call, RollBack(c) \/ Commit(c) PROVE TypeOK'
  <2>1. c \in Reader /\ reading[c].cursor \in Call
    BY <1>0, <1>7 DEF RollBack, Commit, ReadingInv, ReaderInv, Live
  <2>2. Cursors!TypeOK'
    BY <1>0, <1>7, <2>1, RollbackEffect, CommitEffect DEF RollBack, Commit
  <2>3. pc' \in [Call -> PC]
    BY <1>a, <1>b, <1>7, GotoMoves DEF RollBack, Commit
  <2> QED
    BY <1>a, <1>7, <2>2, <2>3 DEF RollBack, Commit, TypeOK
<1>8. CASE Tick
  BY <1>a, <1>8, Constants DEF Tick, TypeOK, store, Cursors!TypeOK
<1>9. CASE Restart
  BY <1>a, <1>b, <1>9 DEF Restart, TypeOK, Cursors!TypeOK
<1>10. CASE UNCHANGED vars
  BY <1>a, <1>10 DEF vars, TypeOK, Cursors!TypeOK
<1> QED
  BY <1>1, <1>2, <1>3, <1>4, <1>5, <1>6, <1>7, <1>8, <1>9, <1>10 DEF Next, Continues

(* What is common to all steps of a call: nothing changes for the others,  *)
(* and what it reads and was sent changes by at most one of its steps.     *)
CallStep(c, to) ==
  /\ pc'[c] = to
  /\ \A d \in Call : d # c => pc'[d] = pc[d] /\ reading'[d] = reading[d] /\ next'[d] = next[d]

(* Steps that leave the store and what is read alone.                      *)
LEMMA QuietSteps ==
  ASSUME PagingInv, NEW c \in Call,
         \/ ProviderFails(c) \/ Answer(c) \/ IssueFails(c) \/ SearchFails(c)
  PROVE  ReadingInv' /\ ReaderInv' /\ StoreInv' /\ PageInv'
<1>0. TypeOK /\ ReadingInv /\ ReaderInv /\ StoreInv /\ PageInv
  BY DEF PagingInv
<1>1. PICK to \in {"provider_failed", "answered", "failed"} :
        CallStep(c, to) /\ (to = "provider_failed" => pc[c] = "fetching")
                        /\ (to = "answered" => pc[c] \in {"fetched", "spent", "issued"})
                        /\ (to = "answered" => c \in Search \/ pc[c] \in {"spent", "issued"})
                        /\ (to = "failed" => pc[c] \in {"fetched", "spent", "provider_failed"})
  BY <1>0, GotoMoves DEF ProviderFails, Answer, IssueFails, SearchFails, CallStep, HoldsPage,
     TypeOK, PC, Live, Ended
<1>2. reading' = reading /\ next' = next /\ records' = records /\ leases' = leases
  BY DEF ProviderFails, Answer, IssueFails, SearchFails, store
<1>3. ReadingInv'
  BY <1>0, <1>1, <1>2 DEF ReadingInv, CallStep, Live
<1>4. ReaderInv'
  BY <1>0, <1>1, <1>2, Constants DEF ReaderInv, CallStep
<1>5. StoreInv'
  BY <1>0, <1>1, <1>2, Constants DEF StoreInv, CallStep, HasPage
<1>6. PageInv'
  BY <1>0, <1>1, <1>2, Constants DEF PageInv, CallStep, Owns, HasPage, ReadingInv
<1> QED
  BY <1>3, <1>4, <1>5, <1>6

LEMMA AnswerStep ==
  ASSUME PagingInv, NEW c \in Call, ProviderAnswers(c)
  PROVE  ReadingInv' /\ ReaderInv' /\ StoreInv' /\ PageInv'
<1>0. TypeOK /\ ReadingInv /\ ReaderInv /\ StoreInv /\ PageInv
  BY DEF PagingInv
<1>1. PICK link \in After(reading[c].page) : next' = [next EXCEPT ![c] = link]
  BY DEF ProviderAnswers
<1>2. pc[c] = "fetching" /\ reading[c] # None /\ reading[c] \in Fetch /\ next[c] = None
  BY <1>0 DEF ProviderAnswers, ReadingInv, TypeOK, Live
<1>3. next'[c] = None \/ next'[c] = [reading[c].page EXCEPT !.number = reading[c].page.number + 1]
  BY <1>0, <1>1, <1>2, NextPage, FetchTypes DEF TypeOK
<1>4. CallStep(c, "fetched")
  BY <1>0, <1>1, GotoMoves DEF ProviderAnswers, CallStep, TypeOK, PC, Live
<1>5. reading' = reading /\ records' = records /\ leases' = leases
  BY DEF ProviderAnswers, store
<1>6. ReadingInv'
  <2> SUFFICES ASSUME NEW d \in Call
               PROVE  /\ pc'[d] \in Live \cup {"answered"} => reading'[d] # None
                      /\ d \in Search =>
                           /\ pc'[d] # "idle" => reading'[d] # None
                           /\ pc'[d] \notin {"refused", "spent"}
                           /\ reading'[d] # None => reading'[d].page = [ search |-> d, number |-> 1 ]
                      /\ pc'[d] = "idle" => reading'[d] = None
                      /\ pc'[d] \in {"idle", "fetching", "provider_failed"} => next'[d] = None
                      /\ next'[d] # None =>
                           /\ reading'[d] # None
                           /\ next'[d] = [reading'[d].page EXCEPT !.number = reading'[d].page.number + 1]
    BY Zenon DEF ReadingInv
  <2>1. CASE d = c
    BY <1>0, <1>2, <1>3, <1>4, <1>5, <2>1 DEF ReadingInv, CallStep, Live
  <2>2. CASE d # c
    BY <1>0, <1>4, <1>5, <2>2, Zenon DEF ReadingInv, CallStep
  <2> QED
    BY <2>1, <2>2
<1>7. ReaderInv'
  BY <1>0, <1>2, <1>4, <1>5, Constants DEF ReaderInv, CallStep
<1>8. StoreInv'
  BY <1>0, <1>2, <1>4, <1>5, Constants DEF StoreInv, CallStep, HasPage
<1>9. PageInv'
  BY <1>0, <1>2, <1>4, <1>5, Constants DEF PageInv, CallStep, Owns, HasPage, ReadingInv
<1> QED
  BY <1>6, <1>7, <1>8, <1>9

LEMMA IssueStep ==
  ASSUME PagingInv, NEW c \in Call, IssueCursor(c)
  PROVE  ReadingInv' /\ ReaderInv' /\ StoreInv' /\ PageInv'
<1>0. TypeOK /\ ReadingInv /\ ReaderInv /\ StoreInv /\ PageInv
  BY DEF PagingInv
<1>1. /\ pc[c] = IF c \in Search THEN "fetched" ELSE "spent"
      /\ next[c] # None /\ next[c] \in Page /\ reading' = reading /\ next' = next
  BY <1>0 DEF IssueCursor, HoldsPage, TypeOK
<1>2. /\ leases' = leases /\ records'[c] # None /\ records'[c].link = next[c]
      /\ \A k \in Call : k # c => records'[k] = records[k]
  BY <1>0, <1>1, IssueEffect DEF IssueCursor
<1>3. CallStep(c, "issued")
  BY <1>0, <1>1, GotoMoves DEF IssueCursor, CallStep, TypeOK, PC, Live
<1>4. ReadingInv'
  BY <1>0, <1>1, <1>3 DEF ReadingInv, CallStep, Live
<1>5. ReaderInv'
  BY <1>0, <1>1, <1>3, Constants DEF ReaderInv, CallStep
<1>6. StoreInv'
  <2>1. \A d \in Reader : reading[d] # None => reading[d].cursor # c
    BY <1>0, <1>1 DEF ReaderInv
  <2>2. \A d \in Reader : pc[d] \in HasPage => reading[d] # None /\ reading[d].cursor \in Call
    BY <1>0, Constants DEF ReadingInv, ReaderInv, HasPage, Live
  <2> QED
    BY <1>0, <1>1, <1>2, <1>3, <2>1, <2>2, Constants DEF StoreInv, CallStep, HasPage
<1>7. PageInv'
  BY <1>0, <1>1, <1>3, Constants DEF PageInv, CallStep, Owns, HasPage, ReadingInv
<1> QED
  BY <1>4, <1>5, <1>6, <1>7

LEMMA BeginStep ==
  ASSUME PagingInv, NEW c \in Call, BeginSearch(c)
  PROVE  ReadingInv' /\ ReaderInv' /\ StoreInv' /\ PageInv'
<1>0. TypeOK /\ ReadingInv /\ ReaderInv /\ StoreInv /\ PageInv
  BY DEF PagingInv
<1> DEFINE fetch == [ cursor |-> None, page |-> [ search |-> c, number |-> 1 ], since |-> clock ]
<1>1. /\ c \in Search /\ pc[c] = "idle" /\ next' = next /\ records' = records /\ leases' = leases
      /\ next[c] = None /\ reading[c] = None
  BY <1>0 DEF BeginSearch, store, ReadingInv
<1>2. fetch \in Fetch
  BY <1>0, <1>1, Constants DEF Fetch, Page, TypeOK
<1>3. fetch # None /\ fetch.page = [ search |-> c, number |-> 1 ]
  BY <1>2, Nothing
<1>4. reading' = [reading EXCEPT ![c] = fetch]
  BY DEF BeginSearch
<1> HIDE DEF fetch
<1>5. CallStep(c, "fetching") /\ reading'[c] = fetch
  BY <1>0, <1>1, <1>4, GotoMoves DEF BeginSearch, CallStep, TypeOK, PC, Live
<1>6. ReadingInv'
  BY <1>0, <1>1, <1>3, <1>5 DEF ReadingInv, CallStep, Live
<1>7. ReaderInv'
  BY <1>0, <1>1, <1>5, Constants DEF ReaderInv, CallStep
<1>8. StoreInv'
  BY <1>0, <1>1, <1>5, Constants DEF StoreInv, CallStep, HasPage
<1>9. PageInv'
  <2>1. \A d \in Call : d # c /\ Owns(d) => reading[d].page # reading'[c].page
    <3> SUFFICES ASSUME NEW d \in Call, d # c, Owns(d) PROVE reading[d].page # fetch.page
      BY <1>5
    <3>1. CASE d \in Search
      <4>1. reading[d].page = [ search |-> d, number |-> 1 ]
        BY <1>0, <3>1 DEF Owns, ReadingInv
      <4>2. reading[d].page.search = d /\ fetch.page.search = c
        BY <1>3, <4>1
      <4> QED
        BY <4>2
    <3>2. CASE d \in Reader
      <4>1. /\ reading[d] # None /\ reading[d].cursor \in Call
            /\ next[reading[d].cursor] = reading[d].page /\ reading[d] \in Fetch
            /\ pc[reading[d].cursor] = "answered"
        BY <1>0, <3>2, Constants DEF Owns, ReadingInv, ReaderInv, HasPage, Live, TypeOK
      <4> DEFINE k == reading[d].cursor
      <4>2. next[k] # None
        BY <4>1, FetchTypes, Nothing
      <4>3. /\ reading[k] # None /\ reading[k] \in Fetch
            /\ reading[d].page = [reading[k].page EXCEPT !.number = reading[k].page.number + 1]
        BY <1>0, <4>1, <4>2 DEF ReadingInv, TypeOK
      <4>4. reading[k].page \in Page /\ reading[k].page.number \in 1..MaxPage
        BY <4>3, FetchTypes
      <4>5. reading[d].page.number = reading[k].page.number + 1
        BY <4>3, <4>4 DEF Page
      <4> QED
        BY <1>3, <4>4, <4>5, Constants
    <3> QED
      BY <3>1, <3>2, Constants
  <2>2. \A d \in Call : d # c => (Owns(d)' <=> Owns(d)) /\ reading'[d] = reading[d]
    BY <1>5 DEF CallStep, Owns
  <2> QED
    BY <1>0, <2>1, <2>2 DEF PageInv
<1> QED
  BY <1>6, <1>7, <1>8, <1>9

(* The page of a reader is the one after that of the call it pages on from. *)
LEMMA PageOfReader ==
  ASSUME PagingInv, NEW d \in Reader, reading[d] # None
  PROVE  LET k == reading[d].cursor
         IN  /\ k \in Call /\ pc[k] = "answered" /\ next[k] # None /\ Owns(k)
             /\ reading[d].page \in Page /\ reading[k].page \in Page
             /\ reading[d].page = [reading[k].page EXCEPT !.number = reading[k].page.number + 1]
             /\ reading[d].page.number > 1
<1> DEFINE k == reading[d].cursor
<1>0. TypeOK /\ ReadingInv /\ ReaderInv
  BY DEF PagingInv
<1>1. /\ k \in Call /\ pc[k] = "answered" /\ next[k] = reading[d].page /\ reading[d] \in Fetch
  BY <1>0, Constants DEF ReaderInv, TypeOK
<1>2. reading[d].page \in Page /\ next[k] # None
  BY <1>1, FetchTypes, Nothing
<1>3. /\ reading[k] # None /\ reading[k] \in Fetch
      /\ reading[d].page = [reading[k].page EXCEPT !.number = reading[k].page.number + 1]
  BY <1>0, <1>1, <1>2 DEF ReadingInv, TypeOK
<1>4. reading[k].page \in Page /\ reading[k].page.number \in 1..MaxPage
  BY <1>3, FetchTypes
<1>5. reading[d].page.number = reading[k].page.number + 1
  BY <1>3, <1>4 DEF Page
<1>6. Owns(k)
  BY <1>1, Constants DEF Owns, HasPage
<1> QED
  BY <1>1, <1>2, <1>3, <1>4, <1>5, <1>6, Constants

LEMMA SamePageSameCursor ==
  ASSUME PagingInv, NEW d \in Reader, NEW e \in Reader, reading[d] # None, reading[e] # None,
         reading[d].page = reading[e].page
  PROVE  reading[d].cursor = reading[e].cursor
<1> DEFINE j == reading[d].cursor
           k == reading[e].cursor
<1>1. /\ j \in Call /\ k \in Call /\ Owns(j) /\ Owns(k)
      /\ reading[j].page \in Page /\ reading[k].page \in Page
      /\ [reading[j].page EXCEPT !.number = reading[j].page.number + 1]
           = [reading[k].page EXCEPT !.number = reading[k].page.number + 1]
  BY PageOfReader
<1>2. reading[j].page = reading[k].page
  BY <1>1, Constants DEF Page
<1> QED
  BY <1>1, <1>2 DEF PagingInv, PageInv

LEMMA LeaseStep ==
  ASSUME PagingInv, NEW c \in Call, LeaseCursor(c)
  PROVE  ReadingInv' /\ ReaderInv' /\ StoreInv' /\ PageInv'
<1>0. TypeOK /\ ReadingInv /\ ReaderInv /\ StoreInv /\ PageInv
  BY DEF PagingInv
<1>1. PICK k \in Given :
        /\ Cursors!CanLease(k, clock) /\ Cursors!Lease(k, c, clock, LeaseTTL)
        /\ reading' = [reading EXCEPT ![c] =
             [ cursor |-> k, page |-> records[k].link, since |-> clock ]]
  BY DEF LeaseCursor
<1>2. /\ c \in Reader /\ pc[c] = "idle" /\ next' = next /\ next[c] = None /\ reading[c] = None
      /\ k \in Call /\ pc[k] = "answered" /\ next[k] # None /\ next[k] \in Page
      /\ records[k] # None
  <2>1. c \in Reader /\ pc[c] = "idle" /\ next' = next
    BY DEF LeaseCursor
  <2>2. next[c] = None /\ reading[c] = None
    BY <1>0, <2>1 DEF ReadingInv
  <2>3. k \in Call /\ pc[k] = "answered" /\ next[k] # None
    BY DEF Given
  <2>4. next[k] \in Page
    BY <1>0, <2>3 DEF TypeOK
  <2>5. records[k] # None
    BY <1>1 DEF Cursors!CanLease, Cursors!Known
  <2> QED
    BY <2>1, <2>2, <2>3, <2>4, <2>5
<1> DEFINE fetch == [ cursor |-> k, page |-> records[k].link, since |-> clock ]
<1>3. fetch # None /\ fetch.cursor = k /\ fetch.page = next[k]
  <2>1. fetch.page = next[k] /\ fetch.cursor = k
    BY <1>0, <1>2 DEF StoreInv
  <2>2. records[k].link \in Page
    BY <1>0, <1>2 DEF StoreInv
  <2>3. fetch \in Fetch
    BY <1>0, <1>2, <2>2 DEF Fetch, TypeOK
  <2> QED
    BY <2>1, <2>3, Nothing
<1>4. reading' = [reading EXCEPT ![c] = fetch]
  BY <1>1
<1> HIDE DEF fetch
<1>5. CallStep(c, "fetching") /\ reading'[c] = fetch
  BY <1>0, <1>2, <1>4, GotoMoves DEF LeaseCursor, CallStep, TypeOK, PC, Live
<1>6. records' = records /\ \A j \in Call : j # k => leases'[j] = leases[j]
  BY <1>0, <1>1, <1>2, LeaseEffect
<1>7. ReadingInv'
  <2> SUFFICES ASSUME NEW d \in Call
               PROVE  /\ pc'[d] \in Live \cup {"answered"} => reading'[d] # None
                      /\ d \in Search =>
                           /\ pc'[d] # "idle" => reading'[d] # None
                           /\ pc'[d] \notin {"refused", "spent"}
                           /\ reading'[d] # None => reading'[d].page = [ search |-> d, number |-> 1 ]
                      /\ pc'[d] = "idle" => reading'[d] = None
                      /\ pc'[d] \in {"idle", "fetching", "provider_failed"} => next'[d] = None
                      /\ next'[d] # None =>
                           /\ reading'[d] # None
                           /\ next'[d] = [reading'[d].page EXCEPT !.number = reading'[d].page.number + 1]
    BY Zenon DEF ReadingInv
  <2>1. CASE d = c
    BY <1>2, <1>3, <1>5, <2>1, Constants DEF CallStep, Live
  <2>2. CASE d # c
    BY <1>0, <1>5, <2>2, Zenon DEF ReadingInv, CallStep
  <2> QED
    BY <2>1, <2>2
<1>8. ReaderInv'
  BY <1>0, <1>2, <1>3, <1>5, Constants DEF ReaderInv, CallStep
<1>9. StoreInv'
  BY <1>0, <1>2, <1>5, <1>6, Constants DEF StoreInv, CallStep, HasPage
<1>10. PageInv'
  BY <1>0, <1>2, <1>5, Constants DEF PageInv, CallStep, Owns, HasPage, ReadingInv
<1> QED
  BY <1>7, <1>8, <1>9, <1>10

LEMMA RefusedStep ==
  ASSUME PagingInv, NEW c \in Call, LeaseIsRefused(c)
  PROVE  ReadingInv' /\ ReaderInv' /\ StoreInv' /\ PageInv'
<1>0. TypeOK /\ ReadingInv /\ ReaderInv /\ StoreInv /\ PageInv
  BY DEF PagingInv
<1>1. c \in Reader /\ pc[c] = "idle" /\ reading' = reading /\ next' = next /\ reading[c] = None
  BY <1>0 DEF LeaseIsRefused, ReadingInv
<1>2. CallStep(c, "refused")
  BY <1>0, <1>1, GotoMoves DEF LeaseIsRefused, CallStep, TypeOK, PC, Ended
<1>3. \A k \in Call : \/ records'[k] = records[k] /\ leases'[k] = leases[k]
                      \/ records'[k] = None /\ leases'[k] = None
  <2>1. ASSUME records' = records, leases' = leases
        PROVE  \A k \in Call : \/ records'[k] = records[k] /\ leases'[k] = leases[k]
                               \/ records'[k] = None /\ leases'[k] = None
    BY <2>1
  <2>2. ASSUME NEW j \in Given, Cursors!RefuseLease(j, clock)
        PROVE  \A k \in Call : \/ records'[k] = records[k] /\ leases'[k] = leases[k]
                               \/ records'[k] = None /\ leases'[k] = None
    <3>1. j \in Call
      BY DEF Given
    <3>2. /\ \/ records' = records /\ leases' = leases
             \/ records'[j] = None /\ leases'[j] = None
          /\ \A k \in Call : k # j => records'[k] = records[k] /\ leases'[k] = leases[k]
      BY <1>0, <2>2, <3>1, RefuseEffect
    <3> QED
      BY <3>2
  <2>3. \/ records' = records /\ leases' = leases
        \/ \E j \in Given : Cursors!RefuseLease(j, clock)
    BY DEF LeaseIsRefused, store
  <2> QED
    BY <2>1, <2>2, <2>3
<1>4. ReadingInv' /\ ReaderInv'
  BY <1>0, <1>1, <1>2, Constants DEF ReadingInv, ReaderInv, CallStep, Live
<1>5. StoreInv'
  <2>1. \A d \in Reader : pc[d] \in HasPage => reading[d] # None /\ reading[d].cursor \in Call
    BY <1>0, Constants DEF ReadingInv, ReaderInv, HasPage, Live
  <2> QED
    BY <1>0, <1>1, <1>2, <1>3, <2>1, Constants DEF StoreInv, CallStep, HasPage
<1>6. PageInv'
  BY <1>0, <1>1, <1>2, Constants DEF PageInv, CallStep, Owns, HasPage, ReadingInv
<1> QED
  BY <1>4, <1>5, <1>6

(* A lease that is given up, with its cursor or without.                   *)
LEMMA ReleaseStep ==
  ASSUME PagingInv, NEW c \in Call, RollBack(c) \/ Commit(c)
  PROVE  ReadingInv' /\ ReaderInv' /\ StoreInv' /\ PageInv'
<1> DEFINE k == reading[c].cursor
           spends == pc[c] = "fetched" /\ Cursors!Commits(c, k, clock)
<1>0. TypeOK /\ ReadingInv /\ ReaderInv /\ StoreInv /\ PageInv
  BY DEF PagingInv
<1>1. /\ c \in Reader /\ pc[c] \in {"provider_failed", "fetched"} /\ reading[c] # None
      /\ reading' = reading /\ next' = next /\ k \in Call /\ pc[k] = "answered"
  BY <1>0 DEF RollBack, Commit, ReadingInv, ReaderInv, Live
<1>2. PICK to \in {"failed", "spent", "refused"} :
        CallStep(c, to) /\ (to = "spent" <=> spends)
  BY <1>0, <1>1, GotoMoves DEF RollBack, Commit, CallStep, TypeOK, PC, Live, Ended
<1>3. /\ \A j \in Call : leases'[j] = leases[j] \/ leases'[j] = None
      /\ \A j \in Call : j # k => records'[j] = records[j]
      /\ IF spends THEN leases[k] # None /\ leases'[k] = None /\ records'[k] = None
                   ELSE records' = records
  BY <1>0, <1>1, RollbackEffect, CommitEffect DEF RollBack, Commit
<1>4. ReadingInv' /\ ReaderInv'
  BY <1>0, <1>1, <1>2, Constants DEF ReadingInv, ReaderInv, CallStep, Live
<1>5. StoreInv'
  <2>1. \A d \in Reader : pc[d] \in HasPage => reading[d] # None /\ reading[d].cursor \in Call
    BY <1>0, Constants DEF ReadingInv, ReaderInv, HasPage, Live
  <2>2. ASSUME NEW d \in Reader, pc'[d] \in HasPage PROVE records'[reading[d].cursor] = None
    <3>1. CASE d = c
      BY <1>1, <1>2, <1>3, <2>2, <3>1 DEF CallStep, HasPage
    <3>2. CASE d # c
      BY <1>0, <1>1, <1>2, <1>3, <2>1, <2>2, <3>2, Constants DEF StoreInv, CallStep
    <3> QED
      BY <3>1, <3>2
  <2>3. ASSUME NEW j \in Call
        PROVE  /\ records'[j] # None => /\ pc'[j] \in {"issued", "answered"} /\ next'[j] # None
                                        /\ records'[j].link = next'[j]
               /\ leases'[j] # None => records'[j] # None
    BY <1>0, <1>1, <1>2, <1>3 DEF StoreInv, CallStep
  <2> QED
    BY <1>1, <2>2, <2>3 DEF StoreInv
<1>6. PageInv'
  <2>1. ASSUME NEW d \in Call, d # c, Owns(d), pc'[c] = "spent"
        PROVE  reading[d].page # reading[c].page
    <3>1. CASE d \in Search
      <4>1. reading[d].page = [ search |-> d, number |-> 1 ]
        BY <1>0, <2>1, <3>1 DEF Owns, ReadingInv
      <4>2. reading[c].page.number > 1
        BY <1>1, PageOfReader
      <4> QED
        BY <4>1, <4>2
    <3>2. CASE d \in Reader
      <4>1. pc[d] \in HasPage /\ reading[d] # None
        BY <1>0, <2>1, <3>2, Constants DEF Owns, ReadingInv, HasPage, Live
      <4>2. records[reading[d].cursor] = None
        BY <1>0, <3>2, <4>1 DEF StoreInv
      <4>3. records[k] # None
        BY <1>0, <1>1, <1>2, <1>3, <2>1 DEF StoreInv, CallStep
      <4> QED
        BY <1>1, <3>2, <4>1, <4>2, <4>3, SamePageSameCursor
    <3> QED
      BY <3>1, <3>2, Constants
  <2>2. \A d \in Call : d # c => (Owns(d)' <=> Owns(d))
    BY <1>2 DEF CallStep, Owns
  <2>3. Owns(c)' <=> pc'[c] = "spent"
    BY <1>1, <1>2, Constants DEF Owns, CallStep, HasPage
  <2> QED
    BY <1>0, <1>1, <2>1, <2>2, <2>3 DEF PageInv
<1> QED
  BY <1>4, <1>5, <1>6

LEMMA RestartStep ==
  ASSUME PagingInv, Restart
  PROVE  ReadingInv' /\ ReaderInv' /\ StoreInv' /\ PageInv'
<1>0. TypeOK /\ ReadingInv /\ ReaderInv /\ StoreInv /\ PageInv
  BY DEF PagingInv
<1>1. /\ \A k \in Call : records'[k] = None /\ leases'[k] = None
      /\ reading' = reading /\ next' = next
      /\ \A d \in Call : pc'[d] = IF pc[d] \in Live THEN "lost" ELSE pc[d]
  BY DEF Restart
<1>2. ReadingInv'
  BY <1>0, <1>1 DEF ReadingInv, Live
<1>3. ReaderInv'
  BY <1>0, <1>1, Constants DEF ReaderInv, Live
<1>4. StoreInv'
  <2>1. \A d \in Reader : pc'[d] \in HasPage => reading[d] # None /\ reading[d].cursor \in Call
    <3> SUFFICES ASSUME NEW d \in Reader, pc'[d] \in HasPage
                 PROVE  reading[d] # None /\ reading[d].cursor \in Call
      OBVIOUS
    <3>1. pc[d] \in HasPage /\ d \in Call
      BY <1>1, Constants DEF HasPage, Live
    <3>2. reading[d] # None
      BY <1>0, <3>1 DEF ReadingInv, HasPage, Live
    <3> QED
      BY <1>0, <3>2 DEF ReaderInv
  <2> QED
    BY <1>1, <2>1 DEF StoreInv
<1>5. PageInv'
  <2>1. \A d \in Call : Owns(d)' => Owns(d)
    BY <1>1, Constants DEF Owns, HasPage, Live
  <2> QED
    BY <1>0, <1>1, <2>1 DEF PageInv
<1> QED
  BY <1>2, <1>3, <1>4, <1>5

LEMMA SameState ==
  ASSUME PagingInv, records' = records, leases' = leases, pc' = pc,
         reading' = reading, next' = next
  PROVE  ReadingInv' /\ ReaderInv' /\ StoreInv' /\ PageInv'
<1>0. ReadingInv /\ ReaderInv /\ StoreInv /\ PageInv
  BY DEF PagingInv
<1>1. ReadingInv'
  BY <1>0, Zenon DEF ReadingInv
<1>2. ReaderInv'
  BY <1>0, Zenon DEF ReaderInv
<1>3. StoreInv'
  BY <1>0, Zenon DEF StoreInv
<1>4. PageInv'
  BY <1>0, Zenon DEF PageInv, Owns
<1> QED
  BY <1>1, <1>2, <1>3, <1>4

LEMMA PagingStep == PagingInv /\ [Next]_vars => PagingInv'
<1> SUFFICES ASSUME PagingInv, [Next]_vars PROVE PagingInv'
  OBVIOUS
<1> DEFINE Kept == ReadingInv' /\ ReaderInv' /\ StoreInv' /\ PageInv'
<1>1. ASSUME NEW c \in Call, Continues(c) PROVE Kept
  BY <1>1, QuietSteps, AnswerStep, IssueStep, ReleaseStep DEF Continues
<1>2. ASSUME NEW c \in Call, BeginSearch(c) \/ LeaseCursor(c) \/ LeaseIsRefused(c)
      PROVE  Kept
  BY <1>2, BeginStep, LeaseStep, RefusedStep
<1>3. ASSUME Tick PROVE Kept
  <2>1. /\ records' = records /\ leases' = leases /\ pc' = pc
        /\ reading' = reading /\ next' = next
    BY <1>3 DEF Tick, store
  <2> QED
    BY <2>1, SameState
<1>4. ASSUME Restart PROVE Kept
  BY <1>4, RestartStep
<1>5. ASSUME UNCHANGED vars PROVE Kept
  BY <1>5, SameState DEF vars
<1>6. Kept
  BY <1>1, <1>2, <1>3, <1>4, <1>5 DEF Next
<1> QED
  BY <1>6, TypeStep DEF PagingInv
-----------------------------------------------------------------------------
(* Leases.                                                                 *)

LEMMA CoverStays ==
  ASSUME TypeOK, clock' \in Nat, clock' >= clock,
         NEW c \in Reader, Covered(c), reading'[c] = reading[c], reading[c] \in Fetch,
         NEW k \in Call, k = reading[c].cursor,
         records'[k] = records[k] \/ records'[k] = None,
         \/ leases'[k] = leases[k]
         \/ ~ (Cursors!Holds(c, k) /\ Cursors!HasActiveLease(k, clock))
         \/ records'[k] = None
  PROVE  Covered(c)'
<1>1. /\ clock \in Nat /\ reading[c].since \in Nat /\ LeaseTTL \in Nat
      /\ leases[k] # None => leases[k].expiresAt \in Nat
  <2>1. leases[k] # None => leases[k] \in Cursors!LeaseRecord
    BY DEF TypeOK, Cursors!TypeOK
  <2>2. clock \in 0..MaxClock /\ reading[c].since \in 0..MaxClock
    BY FetchTypes DEF TypeOK
  <2> QED
    BY <2>1, <2>2, Constants DEF Cursors!LeaseRecord
<1>2. CASE clock >= reading[c].since + LeaseTTL
  BY <1>1, <1>2 DEF Covered
<1>3. CASE records[k] = None
  BY <1>3 DEF Covered
<1>4. CASE /\ Cursors!Holds(c, k) /\ leases[k].expiresAt = reading[c].since + LeaseTTL
           /\ clock < reading[c].since + LeaseTTL
  <2>1. Cursors!HasActiveLease(k, clock)
    BY <1>4 DEF Cursors!HasActiveLease, Cursors!Holds
  <2> QED
    BY <1>4, <2>1 DEF Covered, Cursors!Holds
<1> QED
  BY <1>1, <1>2, <1>3, <1>4 DEF Covered

(* Steps after which nobody fetches who did not, and that leave the leases *)
(* and cursors of those who do, or drop the cursor.                        *)
LEMMA NobodyStarts ==
  ASSUME PagingInv, LeaseInv, LeaseShutsOthersOut, clock' \in Nat, clock' >= clock,
         \A c \in Reader : pc'[c] = "fetching" =>
           pc[c] = "fetching" /\ reading'[c] = reading[c],
         \A c \in Reader : \A k \in Call : pc[c] = "fetching" /\ k = reading[c].cursor =>
           /\ records'[k] = records[k] \/ records'[k] = None
           /\ \/ leases'[k] = leases[k]
              \/ ~ Cursors!Holds(c, k)
              \/ records'[k] = None
  PROVE  LeaseInv' /\ LeaseShutsOthersOut'
<1>0. TypeOK /\ ReadingInv /\ ReaderInv
  BY DEF PagingInv
<1>1. ASSUME NEW c \in Reader, pc'[c] = "fetching"
      PROVE  /\ pc[c] = "fetching" /\ reading'[c] = reading[c] /\ reading[c] \in Fetch
             /\ reading[c].cursor \in Call
  <2>1. pc[c] = "fetching" /\ reading'[c] = reading[c] /\ c \in Call
    BY <1>1, Constants
  <2>2. reading[c] # None
    BY <1>0, <2>1 DEF ReadingInv, Live
  <2> QED
    BY <1>0, <2>1, <2>2 DEF ReaderInv, TypeOK
<1>2. ASSUME NEW c \in Reader, pc'[c] = "fetching" PROVE Covered(c)'
  <2> DEFINE k == reading[c].cursor
  <2>1. Covered(c) /\ k \in Call
    BY <1>1, <1>2 DEF LeaseInv
  <2>2. /\ records'[k] = records[k] \/ records'[k] = None
        /\ \/ leases'[k] = leases[k]
           \/ ~ (Cursors!Holds(c, k) /\ Cursors!HasActiveLease(k, clock))
           \/ records'[k] = None
    BY <1>1, <1>2, <2>1
  <2> QED
    BY <1>0, <1>1, <1>2, <2>1, <2>2, CoverStays
<1>3. LeaseInv'
  BY <1>2 DEF LeaseInv
<1>4. LeaseShutsOthersOut'
  <2> SUFFICES ASSUME NEW k \in Call, NEW c1 \in Fetching(k)', NEW c2 \in Fetching(k)', c1 # c2
               PROVE  \/ clock' >= reading'[c1].since + LeaseTTL
                      \/ clock' >= reading'[c2].since + LeaseTTL
    BY DEF LeaseShutsOthersOut
  <2>1. c1 \in Fetching(k) /\ c2 \in Fetching(k)
    BY <1>1 DEF Fetching
  <2>2. /\ reading'[c1] = reading[c1] /\ reading'[c2] = reading[c2]
        /\ reading[c1] \in Fetch /\ reading[c2] \in Fetch
    BY <1>1 DEF Fetching
  <2>3. /\ reading[c1].since \in Nat /\ reading[c2].since \in Nat /\ LeaseTTL \in Nat
        /\ clock \in Nat
    BY <1>0, <2>2, FetchTypes, Constants DEF TypeOK
  <2>4. \/ clock >= reading[c1].since + LeaseTTL
        \/ clock >= reading[c2].since + LeaseTTL
    BY <2>1 DEF LeaseShutsOthersOut
  <2> QED
    BY <2>2, <2>3, <2>4
<1> QED
  BY <1>3, <1>4

LEMMA SomebodyStarts ==
  ASSUME PagingInv, LeaseInv, LeaseShutsOthersOut, NEW c \in Call, LeaseCursor(c)
  PROVE  LeaseInv' /\ LeaseShutsOthersOut'
<1>0. TypeOK /\ ReadingInv /\ ReaderInv
  BY DEF PagingInv
<1>1. PICK k \in Given :
        /\ Cursors!CanLease(k, clock) /\ Cursors!Lease(k, c, clock, LeaseTTL)
        /\ reading' = [reading EXCEPT ![c] =
             [ cursor |-> k, page |-> records[k].link, since |-> clock ]]
  BY DEF LeaseCursor
<1>2. /\ c \in Reader /\ k \in Call /\ records[k] # None /\ clock' = clock
      /\ ~ Cursors!HasActiveLease(k, clock)
  BY <1>1 DEF LeaseCursor, Given, Cursors!CanLease, Cursors!Known
<1>3. /\ reading'[c].cursor = k /\ reading'[c].since = clock
      /\ \A d \in Call : d # c => reading'[d] = reading[d]
  BY <1>0, <1>1, <1>2 DEF TypeOK
<1>4. \A d \in Reader : d # c /\ pc'[d] = "fetching" =>
        /\ pc[d] = "fetching" /\ reading[d] \in Fetch /\ reading[d].cursor \in Call
        /\ reading'[d] = reading[d] /\ Covered(d)
  <2> SUFFICES ASSUME NEW d \in Reader, d # c, pc'[d] = "fetching"
               PROVE  /\ pc[d] = "fetching" /\ reading[d] \in Fetch
                      /\ reading[d].cursor \in Call
                      /\ reading'[d] = reading[d] /\ Covered(d)
    OBVIOUS
  <2>1. pc[d] = "fetching" /\ reading'[d] = reading[d] /\ d \in Call
    BY <1>0, <1>3, GotoMoves, Constants DEF LeaseCursor, TypeOK, PC, Live
  <2>2. reading[d] # None
    BY <1>0, <2>1 DEF ReadingInv, Live
  <2> QED
    BY <1>0, <2>1, <2>2 DEF ReaderInv, TypeOK, LeaseInv
<1>5. /\ records' = records /\ leases'[k] # None /\ leases'[k].holder = c
      /\ leases'[k].expiresAt = clock + LeaseTTL
      /\ \A j \in Call : j # k => leases'[j] = leases[j]
  BY <1>0, <1>1, <1>2, LeaseEffect
<1>6. clock \in Nat
  BY <1>0, Constants DEF TypeOK
<1>7. LeaseInv'
  <2> SUFFICES ASSUME NEW d \in Reader, pc'[d] = "fetching" PROVE Covered(d)'
    BY DEF LeaseInv
  <2>1. CASE d = c
    BY <1>3, <1>5, <2>1 DEF Covered, Cursors!Holds
  <2>2. CASE d # c
    <3> DEFINE j == reading[d].cursor
    <3>1. j \in Call /\ records'[j] = records[j]
      BY <1>4, <1>5, <2>2
    <3>2. \/ leases'[j] = leases[j]
          \/ ~ (Cursors!Holds(d, j) /\ Cursors!HasActiveLease(j, clock))
      BY <1>2, <1>5, <3>1
    <3> QED
      BY <1>0, <1>2, <1>4, <1>6, <2>2, <3>1, <3>2, CoverStays
  <2> QED
    BY <2>1, <2>2
<1>8. ASSUME NEW d \in Reader, d # c, pc'[d] = "fetching", reading'[d].cursor = k
      PROVE  clock' >= reading'[d].since + LeaseTTL
  <2>1. /\ reading'[d] = reading[d] /\ reading[d].cursor = k /\ Covered(d)
        /\ reading[d].since \in Nat /\ LeaseTTL \in Nat
    BY <1>4, <1>8, FetchTypes, Constants
  <2>2. CASE Cursors!Holds(d, k) /\ leases[k].expiresAt = reading[d].since + LeaseTTL
    BY <1>2, <1>6, <2>1, <2>2 DEF Cursors!HasActiveLease, Cursors!Holds
  <2>3. CASE clock >= reading[d].since + LeaseTTL
    BY <1>2, <2>1, <2>3
  <2> QED
    BY <1>2, <2>1, <2>2, <2>3 DEF Covered
<1>9. LeaseShutsOthersOut'
  <2> SUFFICES ASSUME NEW j \in Call, NEW c1 \in Fetching(j)', NEW c2 \in Fetching(j)', c1 # c2
               PROVE  \/ clock' >= reading'[c1].since + LeaseTTL
                      \/ clock' >= reading'[c2].since + LeaseTTL
    BY DEF LeaseShutsOthersOut
  <2>1. /\ c1 \in Reader /\ pc'[c1] = "fetching" /\ reading'[c1].cursor = j
        /\ c2 \in Reader /\ pc'[c2] = "fetching" /\ reading'[c2].cursor = j
    BY DEF Fetching
  <2>2. CASE c1 = c
    BY <1>3, <1>8, <2>1, <2>2
  <2>3. CASE c2 = c
    BY <1>3, <1>8, <2>1, <2>3
  <2>4. CASE c1 # c /\ c2 # c
    <3>1. c1 \in Fetching(j) /\ c2 \in Fetching(j)
      BY <1>4, <2>1, <2>4 DEF Fetching
    <3>2. \/ clock >= reading[c1].since + LeaseTTL
          \/ clock >= reading[c2].since + LeaseTTL
      BY <3>1 DEF LeaseShutsOthersOut
    <3>3. reading'[c1] = reading[c1] /\ reading'[c2] = reading[c2]
      BY <1>4, <2>1, <2>4
    <3> QED
      BY <1>2, <3>2, <3>3
  <2> QED
    BY <2>2, <2>3, <2>4
<1> QED
  BY <1>7, <1>9

LEMMA LeaseInvStep ==
  PagingInv /\ LeaseInv /\ LeaseShutsOthersOut /\ [Next]_vars
    => LeaseInv' /\ LeaseShutsOthersOut'
<1> SUFFICES ASSUME PagingInv, LeaseInv, LeaseShutsOthersOut, [Next]_vars
             PROVE  LeaseInv' /\ LeaseShutsOthersOut'
  OBVIOUS
<1> DEFINE Kept == LeaseInv' /\ LeaseShutsOthersOut'
<1>0. TypeOK /\ ReadingInv /\ ReaderInv
  BY DEF PagingInv
<1>a. clock \in Nat
  BY <1>0, Constants DEF TypeOK
<1>b. \A c \in Reader : pc[c] = "fetching" => reading[c].cursor \in Call /\ pc[reading[c].cursor] = "answered"
  BY <1>0, Constants DEF ReadingInv, ReaderInv, Live
<1>1. ASSUME NEW c \in Call, \/ BeginSearch(c) \/ ProviderAnswers(c) \/ ProviderFails(c)
                             \/ IssueFails(c) \/ Answer(c) \/ SearchFails(c)
      PROVE  Kept
  <2>1. records' = records /\ leases' = leases /\ clock' = clock
    BY <1>1 DEF BeginSearch, ProviderAnswers, ProviderFails, IssueFails, Answer, SearchFails, store
  <2>2. \A d \in Reader : pc'[d] = "fetching" => pc[d] = "fetching" /\ reading'[d] = reading[d]
    BY <1>0, <1>1, GotoMoves, Constants
       DEF BeginSearch, ProviderAnswers, ProviderFails, IssueFails, Answer, SearchFails,
           TypeOK, PC, Live, Ended
  <2> QED
    BY <1>a, <2>1, <2>2, NobodyStarts
<1>2. ASSUME NEW c \in Call, IssueCursor(c) PROVE Kept
  <2>1. /\ pc[c] \in {"fetched", "spent"} /\ reading' = reading /\ clock' = clock
        /\ next[c] \in Page
    BY <1>0, <1>2 DEF IssueCursor, HoldsPage, TypeOK
  <2>2. leases' = leases /\ \A k \in Call : k # c => records'[k] = records[k]
    BY <1>0, <1>2, <2>1, IssueEffect DEF IssueCursor
  <2>3. \A d \in Reader : pc'[d] = "fetching" => pc[d] = "fetching"
    BY <1>0, <1>2, GotoMoves, Constants DEF IssueCursor, TypeOK, PC, Live
  <2> QED
    BY <1>a, <1>b, <2>1, <2>2, <2>3, NobodyStarts
<1>3. ASSUME NEW c \in Call, LeaseCursor(c) PROVE Kept
  BY <1>3, SomebodyStarts
<1>4. ASSUME NEW c \in Call, LeaseIsRefused(c) PROVE Kept
  <2>1. reading' = reading /\ clock' = clock
    BY <1>4 DEF LeaseIsRefused
  <2>2. \A d \in Reader : pc'[d] = "fetching" => pc[d] = "fetching"
    BY <1>0, <1>4, GotoMoves, Constants DEF LeaseIsRefused, TypeOK, PC, Ended
  <2>3. \A k \in Call : \/ records'[k] = records[k] /\ leases'[k] = leases[k]
                        \/ records'[k] = None
    <3>1. \/ records' = records /\ leases' = leases
          \/ \E j \in Given : Cursors!RefuseLease(j, clock)
      BY <1>4 DEF LeaseIsRefused, store
    <3>2. ASSUME NEW j \in Given, Cursors!RefuseLease(j, clock)
          PROVE  \A k \in Call : \/ records'[k] = records[k] /\ leases'[k] = leases[k]
                                 \/ records'[k] = None
      <4>1. j \in Call
        BY DEF Given
      <4> QED
        BY <1>0, <3>2, <4>1, RefuseEffect
    <3> QED
      BY <3>1, <3>2
  <2> QED
    BY <1>a, <2>1, <2>2, <2>3, NobodyStarts
<1>5. ASSUME NEW c \in Call, RollBack(c) \/ Commit(c) PROVE Kept
  <2>1. /\ c \in Reader /\ pc[c] \in {"provider_failed", "fetched"} /\ reading[c] # None
        /\ reading' = reading /\ clock' = clock
    BY <1>0, <1>5 DEF RollBack, Commit, ReadingInv, Live
  <2>2. reading[c].cursor \in Call
    BY <1>0, <2>1 DEF ReaderInv
  <2>3. \A d \in Reader : pc'[d] = "fetching" => pc[d] = "fetching"
    BY <1>0, <1>5, GotoMoves, Constants DEF RollBack, Commit, TypeOK, PC, Live, Ended
  <2>4. \A k \in Call :
          /\ records'[k] = records[k] \/ records'[k] = None
          /\ leases'[k] = leases[k] \/ Cursors!Holds(c, k)
    BY <1>0, <1>5, <2>1, <2>2, RollbackEffect, CommitEffect DEF RollBack, Commit
  <2>5. \A d \in Reader : \A k \in Call : pc[d] = "fetching" =>
          leases'[k] = leases[k] \/ ~ Cursors!Holds(d, k)
    BY <2>1, <2>4 DEF Cursors!Holds
  <2> QED
    BY <1>a, <2>1, <2>3, <2>4, <2>5, NobodyStarts
<1>6. ASSUME Tick PROVE Kept
  BY <1>a, <1>6, NobodyStarts DEF Tick, store
<1>7. ASSUME Restart PROVE Kept
  BY <1>a, <1>7, NobodyStarts, Constants DEF Restart, Live
<1>8. ASSUME UNCHANGED vars PROVE Kept
  BY <1>a, <1>8, NobodyStarts DEF vars
<1> QED
  BY <1>1, <1>2, <1>3, <1>4, <1>5, <1>6, <1>7, <1>8 DEF Next, Continues
-----------------------------------------------------------------------------
(* Grants.                                                                 *)

Performed(k) == \E c \in Reader : pc[c] = "answered" /\ reading[c].cursor = k
Spent(k) == \E c \in Reader : pc[c] \in {"spent", "issued"} /\ reading[c].cursor = k
Issued(k) == pc[k] \in {"issued"} \cup Ended /\ next[k] # None

LEMMA StateOfGrant ==
  ASSUME NEW k
  PROVE  GrantState(k) =
           IF Performed(k) THEN "performed"
           ELSE IF records[k] # None THEN "open"
           ELSE IF Spent(k) THEN "spent"
           ELSE IF Issued(k) THEN "void" ELSE "none"
  BY DEF GrantState, Performed, Spent, Issued, Cursors!Known

LEMMA NextStateOfGrant ==
  ASSUME NEW k
  PROVE  GrantState(k)' =
           IF Performed(k)' THEN "performed"
           ELSE IF records'[k] # None THEN "open"
           ELSE IF Spent(k)' THEN "spent"
           ELSE IF Issued(k)' THEN "void" ELSE "none"
  BY DEF GrantState, Performed, Spent, Issued, Cursors!Known

(* A step that voids grants, or does nothing to any.                       *)
LEMMA VoidsOrNothing ==
  ASSUME \A k \in Call : \/ GrantState(k)' = GrantState(k)
                         \/ GrantState(k)' = "void" /\ GrantState(k) # "performed"
  PROVE  Grants!Next
<1> DEFINE S == [k \in Call |-> GrantState(k)]
           lost == {k \in Call : GrantState(k)' # GrantState(k)}
<1>1. lost \in SUBSET {g \in Call : S[g] # "performed"}
  OBVIOUS
<1>2. S' = [k \in Call |-> GrantState(k)']
  OBVIOUS
<1>3. [k \in Call |-> GrantState(k)'] = [g \in Call |-> IF g \in lost THEN "void" ELSE S[g]]
  OBVIOUS
<1> QED
  BY <1>1, <1>2, <1>3 DEF Grants!Next, Grants!Void

LEMMA MovesOne ==
  ASSUME NEW g \in Call, \A k \in Call : k # g => GrantState(k)' = GrantState(k),
         \/ GrantState(g) = "none" /\ GrantState(g)' = "open"
         \/ GrantState(g) = "open" /\ GrantState(g)' = "spent"
         \/ GrantState(g) = "spent" /\ GrantState(g)' = "performed"
  PROVE  Grants!Next
<1> DEFINE S == [k \in Call |-> GrantState(k)]
<1>1. S' = [k \in Call |-> GrantState(k)'] /\ S[g] = GrantState(g)
  OBVIOUS
<1>2. [k \in Call |-> GrantState(k)'] = [S EXCEPT ![g] = GrantState(g)']
  OBVIOUS
<1> QED
  BY <1>1, <1>2
     DEF Grants!Next, Grants!Offer, Grants!Spend, Grants!Perform, Grants!Move

LEMMA StaysOrVoid ==
  ASSUME NEW k, Performed(k)' <=> Performed(k), Spent(k)' => Spent(k), Issued(k) => Issued(k)',
         records'[k] = records[k] \/ records'[k] = None,
         records[k] # None => Issued(k) /\ ~ Spent(k),
         Spent(k) => Issued(k)
  PROVE  \/ GrantState(k)' = GrantState(k)
         \/ GrantState(k)' = "void" /\ GrantState(k) # "performed"
<1>1. CASE Performed(k)
  BY <1>1, StateOfGrant, NextStateOfGrant
<1>2. CASE ~ Performed(k) /\ records'[k] # None
  BY <1>2, StateOfGrant, NextStateOfGrant
<1>3. CASE ~ Performed(k) /\ records'[k] = None /\ records[k] # None
  BY <1>3, StateOfGrant, NextStateOfGrant
<1>4. CASE ~ Performed(k) /\ records'[k] = None /\ records[k] = None
  BY <1>4, StateOfGrant, NextStateOfGrant
<1> QED
  BY <1>1, <1>2, <1>3, <1>4

(* Who has a page has a cursor that is gone from the store, and nobody     *)
(* else has a page of that cursor.                                         *)
LEMMA PagesAndGrants ==
  ASSUME PagingInv
  PROVE  /\ \A c \in Reader : pc[c] \in HasPage =>
              /\ reading[c] # None /\ reading[c].cursor \in Call
              /\ records[reading[c].cursor] = None
              /\ Issued(reading[c].cursor)
              /\ \A d \in Reader : pc[d] \in HasPage /\ reading[d].cursor = reading[c].cursor
                                    => d = c
         /\ \A k \in Call : pc[k] # "answered" => ~ Performed(k) /\ ~ Spent(k)
         /\ \A k \in Call : records[k] # None => Issued(k) /\ ~ Performed(k) /\ ~ Spent(k)
<1>0. TypeOK /\ ReadingInv /\ ReaderInv /\ StoreInv /\ PageInv
  BY DEF PagingInv
<1>1. ASSUME NEW c \in Reader, pc[c] \in HasPage
      PROVE  /\ reading[c] # None /\ reading[c].cursor \in Call
             /\ records[reading[c].cursor] = None
             /\ Issued(reading[c].cursor)
             /\ pc[reading[c].cursor] = "answered"
             /\ next[reading[c].cursor] = reading[c].page
  <2>1. reading[c] # None
    BY <1>0, <1>1, Constants DEF ReadingInv, HasPage, Live
  <2>2. /\ reading[c].cursor \in Call /\ pc[reading[c].cursor] = "answered"
        /\ next[reading[c].cursor] # None /\ next[reading[c].cursor] = reading[c].page
    BY <1>0, <2>1, PageOfReader DEF ReaderInv
  <2>3. records[reading[c].cursor] = None
    BY <1>0, <1>1 DEF StoreInv
  <2> QED
    BY <2>1, <2>2, <2>3 DEF Issued, Ended
<1>2. ASSUME NEW c \in Reader, NEW d \in Reader, pc[c] \in HasPage, pc[d] \in HasPage,
             reading[d].cursor = reading[c].cursor
      PROVE  d = c
  <2>1. reading[d].page = reading[c].page
    BY <1>1, <1>2
  <2>2. Owns(c) /\ Owns(d) /\ c \in Call /\ d \in Call
    BY <1>2, Constants DEF Owns
  <2> QED
    BY <1>0, <2>1, <2>2 DEF PageInv
<1>3. \A k \in Call : pc[k] # "answered" => ~ Performed(k) /\ ~ Spent(k)
  BY <1>1 DEF Performed, Spent, HasPage
<1>4. \A k \in Call : records[k] # None => Issued(k)
  BY <1>0 DEF StoreInv, Issued, Ended
<1>5. \A k \in Call : records[k] # None => ~ Performed(k) /\ ~ Spent(k)
  BY <1>1 DEF Performed, Spent, HasPage
<1> QED
  BY <1>1, <1>2, <1>3, <1>4, <1>5

(* Steps of a call that neither give it a page nor take one.               *)
LEMMA KeepsPages ==
  ASSUME NEW c \in Call, NEW to, CallStep(c, to),
         c \in Reader => \/ to \notin HasPage /\ pc[c] \notin HasPage
                         \/ /\ reading'[c] = reading[c]
                            /\ to \in {"spent", "issued"} /\ pc[c] \in {"spent", "issued"}
  PROVE  \A k \in Call : (Performed(k)' <=> Performed(k)) /\ (Spent(k)' <=> Spent(k))
<1> SUFFICES ASSUME NEW k \in Call
             PROVE  (Performed(k)' <=> Performed(k)) /\ (Spent(k)' <=> Spent(k))
  OBVIOUS
<1>1. \A d \in Reader : (pc'[d] = "answered" /\ reading'[d].cursor = k)
                            <=> (pc[d] = "answered" /\ reading[d].cursor = k)
  BY Constants DEF CallStep, HasPage
<1>2. \A d \in Reader : (pc'[d] \in {"spent", "issued"} /\ reading'[d].cursor = k)
                            <=> (pc[d] \in {"spent", "issued"} /\ reading[d].cursor = k)
  BY Constants DEF CallStep, HasPage
<1> QED
  BY <1>1, <1>2 DEF Performed, Spent

(* The step of a call, to "to", as every step lemma below needs it.        *)
LEMMA CallSteps ==
  ASSUME PagingInv, NEW c \in Call
  PROVE  /\ BeginSearch(c) \/ LeaseCursor(c) => CallStep(c, "fetching")
         /\ LeaseIsRefused(c) => CallStep(c, "refused")
         /\ ProviderAnswers(c) => CallStep(c, "fetched")
         /\ ProviderFails(c) => CallStep(c, "provider_failed")
         /\ IssueCursor(c) => CallStep(c, "issued")
         /\ IssueFails(c) \/ SearchFails(c) \/ RollBack(c) => CallStep(c, "failed")
         /\ Answer(c) => CallStep(c, "answered")
         /\ Commit(c) => CallStep(c, "spent") \/ CallStep(c, "refused")
<1>1. TypeOK
  BY DEF PagingInv
<1>2. {"fetching", "fetched", "provider_failed", "spent", "issued", "answered", "refused",
       "failed", "lost"} \subseteq PC
  BY DEF PC, Live, Ended
<1>3. \A to \in PC : Goto(c, to) => pc'[c] = to /\ \A d \in Call : d # c => pc'[d] = pc[d]
  BY <1>1, GotoMoves DEF TypeOK
<1>4. BeginSearch(c) \/ LeaseCursor(c) => CallStep(c, "fetching")
  BY <1>1, <1>2, <1>3 DEF BeginSearch, LeaseCursor, CallStep, TypeOK
<1>5. ProviderAnswers(c) => CallStep(c, "fetched")
  BY <1>1, <1>2, <1>3 DEF ProviderAnswers, CallStep, TypeOK
<1>6. /\ LeaseIsRefused(c) => CallStep(c, "refused")
      /\ ProviderFails(c) => CallStep(c, "provider_failed")
      /\ IssueCursor(c) => CallStep(c, "issued")
      /\ Answer(c) => CallStep(c, "answered")
  BY <1>2, <1>3 DEF LeaseIsRefused, ProviderFails, IssueCursor, Answer, CallStep
<1>7. IssueFails(c) \/ SearchFails(c) \/ RollBack(c) => CallStep(c, "failed")
  BY <1>2, <1>3 DEF IssueFails, SearchFails, RollBack, CallStep
<1>8. Commit(c) => CallStep(c, "spent") \/ CallStep(c, "refused")
  BY <1>2, <1>3 DEF Commit, CallStep
<1> QED
  BY <1>4, <1>5, <1>6, <1>7, <1>8

LEMMA QuietGrants ==
  ASSUME PagingInv, NEW c \in Call,
         \/ BeginSearch(c) \/ ProviderAnswers(c) \/ ProviderFails(c)
         \/ SearchFails(c) \/ LeaseCursor(c) \/ RollBack(c)
  PROVE  Grants!Next
<1>0. TypeOK /\ ReadingInv
  BY DEF PagingInv
<1>1. PICK to \in {"fetching", "fetched", "provider_failed", "failed"} :
        /\ CallStep(c, to)
        /\ to = "failed" => pc[c] = "provider_failed" /\ next'[c] = None
  BY <1>0, CallSteps
     DEF BeginSearch, ProviderAnswers, ProviderFails, SearchFails, LeaseCursor, RollBack, ReadingInv
<1>2. pc[c] \in {"idle", "fetching", "provider_failed"}
  BY DEF BeginSearch, ProviderAnswers, ProviderFails, SearchFails, LeaseCursor, RollBack
<1>3. \A k \in Call : (Performed(k)' <=> Performed(k)) /\ (Spent(k)' <=> Spent(k))
  BY <1>1, <1>2, KeepsPages DEF HasPage
<1>4. \A k \in Call : Issued(k)' <=> Issued(k)
  BY <1>1, <1>2 DEF Issued, CallStep, Ended
<1>5. records' = records
  <2>1. CASE RollBack(c)
    <3>1. c \in Reader /\ reading[c].cursor \in Call
      BY <1>0, <2>1 DEF RollBack, ReadingInv, PagingInv, ReaderInv, Live
    <3> QED
      BY <1>0, <2>1, <3>1, RollbackEffect DEF RollBack
  <2>2. CASE LeaseCursor(c)
    BY <2>2 DEF LeaseCursor, Cursors!Lease
  <2>3. CASE BeginSearch(c) \/ ProviderAnswers(c) \/ ProviderFails(c) \/ SearchFails(c)
    BY <2>3 DEF BeginSearch, ProviderAnswers, ProviderFails, SearchFails, store
  <2> QED
    BY <2>1, <2>2, <2>3
<1>6. \A k \in Call : GrantState(k)' = GrantState(k)
  BY <1>3, <1>4, <1>5, StateOfGrant, NextStateOfGrant
<1> QED
  BY <1>6, VoidsOrNothing

LEMMA IssueGrants ==
  ASSUME PagingInv, NEW c \in Call, IssueCursor(c)
  PROVE  Grants!Next
<1>0. TypeOK /\ StoreInv
  BY DEF PagingInv
<1>1. /\ pc[c] = IF c \in Search THEN "fetched" ELSE "spent"
      /\ reading' = reading /\ next' = next /\ CallStep(c, "issued") /\ next[c] \in Page
  BY <1>0, CallSteps DEF IssueCursor, HoldsPage, TypeOK
<1>2. records'[c] # None /\ \A k \in Call : k # c => records'[k] = records[k]
  BY <1>0, <1>1, IssueEffect DEF IssueCursor
<1>3. \A k \in Call : (Performed(k)' <=> Performed(k)) /\ (Spent(k)' <=> Spent(k))
  BY <1>1, KeepsPages, Constants
<1>4. \A k \in Call : k # c => (Issued(k)' <=> Issued(k))
  BY <1>1 DEF Issued, CallStep
<1>5. \A k \in Call : k # c => GrantState(k)' = GrantState(k)
  BY <1>2, <1>3, <1>4, StateOfGrant, NextStateOfGrant
<1>6. ~ Performed(c) /\ ~ Spent(c) /\ records[c] = None /\ ~ Issued(c)
  BY <1>0, <1>1, PagesAndGrants DEF StoreInv, Issued, Ended
<1>7. GrantState(c) = "none" /\ GrantState(c)' = "open"
  BY <1>2, <1>3, <1>6, StateOfGrant, NextStateOfGrant
<1> QED
  BY <1>5, <1>7, MovesOne

LEMMA AnswerGrants ==
  ASSUME PagingInv, NEW c \in Call, Answer(c)
  PROVE  Grants!Next
<1>1. /\ pc[c] \in {"issued", "spent", "fetched"}
      /\ c \in Reader => pc[c] \in {"issued", "spent"}
      /\ pc[c] = "issued" \/ next[c] = None
      /\ reading' = reading /\ next' = next /\ records' = records /\ CallStep(c, "answered")
  BY CallSteps, Constants DEF Answer, HoldsPage, store
<1>2. \A k \in Call : Issued(k)' <=> Issued(k)
  BY <1>1 DEF Issued, CallStep, Ended
<1>3. CASE c \in Search
  <2>1. \A k \in Call : (Performed(k)' <=> Performed(k)) /\ (Spent(k)' <=> Spent(k))
    BY <1>1, <1>3, KeepsPages, Constants
  <2>2. \A k \in Call : GrantState(k)' = GrantState(k)
    BY <1>1, <1>2, <2>1, StateOfGrant, NextStateOfGrant
  <2> QED
    BY <2>2, VoidsOrNothing
<1>4. CASE c \in Reader
  <2>0. pc[c] \in HasPage
    BY <1>1, <1>4 DEF HasPage
  <2>1. PICK g \in Call :
          /\ g = reading[c].cursor /\ records[g] = None
          /\ \A d \in Reader : pc[d] \in HasPage /\ reading[d].cursor = g => d = c
    BY <1>4, <2>0, PagesAndGrants
  <2>2. Spent(g) /\ ~ Performed(g)
    BY <1>1, <1>4, <2>1 DEF Spent, Performed, HasPage
  <2>3. Performed(g)'
    BY <1>1, <1>4, <2>1 DEF Performed, CallStep
  <2>4. GrantState(g) = "spent" /\ GrantState(g)' = "performed"
    BY <2>1, <2>2, <2>3, StateOfGrant, NextStateOfGrant
  <2>5. ASSUME NEW k \in Call, k # g
        PROVE  (Performed(k)' <=> Performed(k)) /\ (Spent(k)' <=> Spent(k))
    <3>1. \A d \in Reader : (pc'[d] = "answered" /\ reading'[d].cursor = k)
                                <=> (pc[d] = "answered" /\ reading[d].cursor = k)
      BY <1>1, <2>1, <2>5, Constants DEF CallStep
    <3>2. \A d \in Reader : (pc'[d] \in {"spent", "issued"} /\ reading'[d].cursor = k)
                                <=> (pc[d] \in {"spent", "issued"} /\ reading[d].cursor = k)
      BY <1>1, <2>1, <2>5, Constants DEF CallStep
    <3> QED
      BY <3>1, <3>2 DEF Performed, Spent
  <2>6. \A k \in Call : k # g => GrantState(k)' = GrantState(k)
    BY <1>1, <1>2, <2>5, StateOfGrant, NextStateOfGrant
  <2> QED
    BY <2>1, <2>4, <2>6, MovesOne
<1> QED
  BY <1>3, <1>4, Constants

LEMMA FailureGrants ==
  ASSUME PagingInv, NEW c \in Call, IssueFails(c)
  PROVE  Grants!Next
<1>1. /\ pc[c] = IF c \in Search THEN "fetched" ELSE "spent"
      /\ reading' = reading /\ next' = next /\ records' = records /\ CallStep(c, "failed")
  BY CallSteps DEF IssueFails, HoldsPage, store
<1>2. \A k \in Call : (Performed(k)' <=> Performed(k)) /\ (Spent(k)' => Spent(k))
  BY <1>1, Constants DEF Performed, Spent, CallStep
<1>3. \A k \in Call : Issued(k) => Issued(k)'
  BY <1>1 DEF Issued, CallStep, Ended
<1>4. \A k \in Call : Spent(k) => Issued(k)
  BY PagesAndGrants DEF Spent, HasPage
<1>5. \A k \in Call : \/ GrantState(k)' = GrantState(k)
                      \/ GrantState(k)' = "void" /\ GrantState(k) # "performed"
  BY <1>1, <1>2, <1>3, <1>4, PagesAndGrants, StaysOrVoid
<1> QED
  BY <1>5, VoidsOrNothing

LEMMA RefusedGrants ==
  ASSUME PagingInv, NEW c \in Call, LeaseIsRefused(c)
  PROVE  Grants!Next
<1>0. TypeOK /\ ReadingInv
  BY DEF PagingInv
<1>1. /\ c \in Reader /\ pc[c] = "idle" /\ next[c] = None
      /\ reading' = reading /\ next' = next /\ CallStep(c, "refused")
  BY <1>0, CallSteps DEF LeaseIsRefused, ReadingInv
<1>2. \A k \in Call : records'[k] = records[k] \/ records'[k] = None
  <2>1. \/ records' = records
        \/ \E j \in Given : Cursors!RefuseLease(j, clock)
    BY DEF LeaseIsRefused, store
  <2>2. ASSUME NEW j \in Given, Cursors!RefuseLease(j, clock)
        PROVE  \A k \in Call : records'[k] = records[k] \/ records'[k] = None
    <3>1. j \in Call
      BY DEF Given
    <3> QED
      BY <1>0, <2>2, <3>1, RefuseEffect
  <2> QED
    BY <2>1, <2>2
<1>3. \A k \in Call : (Performed(k)' <=> Performed(k)) /\ (Spent(k)' <=> Spent(k))
  BY <1>1, KeepsPages DEF HasPage
<1>4. \A k \in Call : Issued(k)' <=> Issued(k)
  BY <1>1 DEF Issued, CallStep, Ended
<1>5. \A k \in Call : \/ GrantState(k)' = GrantState(k)
                      \/ GrantState(k)' = "void" /\ GrantState(k) # "performed"
  <2>1. \A k \in Call : Spent(k) => Issued(k)
    BY PagesAndGrants DEF Spent, HasPage
  <2> QED
    BY <1>2, <1>3, <1>4, <2>1, PagesAndGrants, StaysOrVoid
<1> QED
  BY <1>5, VoidsOrNothing

LEMMA CommitGrants ==
  ASSUME PagingInv, NEW c \in Call, Commit(c)
  PROVE  Grants!Next
<1>0. TypeOK /\ ReadingInv /\ ReaderInv /\ StoreInv
  BY DEF PagingInv
<1>1. /\ c \in Reader /\ pc[c] = "fetched" /\ reading[c] # None
      /\ reading' = reading /\ next' = next
  BY <1>0 DEF Commit, ReadingInv, Live
<1>2. PICK g \in Call : g = reading[c].cursor /\ pc[g] = "answered" /\ c # g
  BY <1>0, <1>1 DEF ReaderInv
<1>3. CASE Cursors!Commits(c, g, clock)
  <2>1. CallStep(c, "spent")
    BY <1>0, <1>1, <1>2, <1>3, GotoMoves DEF Commit, CallStep, TypeOK, PC, Live
  <2>2. /\ records'[g] = None /\ \A k \in Call : k # g => records'[k] = records[k]
        /\ leases[g] # None
    BY <1>0, <1>1, <1>2, <1>3, CommitEffect DEF Commit
  <2>3. records[g] # None
    BY <1>0, <1>2, <2>2 DEF StoreInv
  <2>4. ~ Performed(g) /\ ~ Spent(g)
    BY <1>2, <2>3, PagesAndGrants
  <2>5. \A k \in Call : Performed(k)' <=> Performed(k)
    BY <1>1, <2>1, Constants DEF Performed, CallStep
  <2>6. Spent(g)'
    BY <1>1, <1>2, <2>1 DEF Spent, CallStep
  <2>7. \A k \in Call : k # g => (Spent(k)' <=> Spent(k))
    BY <1>1, <1>2, <2>1, Constants DEF Spent, CallStep
  <2>8. \A k \in Call : Issued(k)' <=> Issued(k)
    BY <1>1, <2>1 DEF Issued, CallStep, Ended
  <2>9. GrantState(g) = "open" /\ GrantState(g)' = "spent"
    BY <1>2, <2>2, <2>3, <2>4, <2>5, <2>6, StateOfGrant, NextStateOfGrant
  <2>10. \A k \in Call : k # g => GrantState(k)' = GrantState(k)
    BY <2>2, <2>5, <2>7, <2>8, StateOfGrant, NextStateOfGrant
  <2> QED
    BY <1>2, <2>9, <2>10, MovesOne
<1>4. CASE ~ Cursors!Commits(c, g, clock)
  <2>1. CallStep(c, "refused")
    BY <1>0, <1>1, <1>2, <1>4, GotoMoves DEF Commit, CallStep, TypeOK, PC, Ended
  <2>2. records' = records
    BY <1>0, <1>1, <1>2, <1>4, CommitEffect DEF Commit
  <2>3. \A k \in Call : (Performed(k)' <=> Performed(k)) /\ (Spent(k)' <=> Spent(k))
    BY <1>1, <2>1, KeepsPages DEF HasPage
  <2>4. \A k \in Call : Issued(k) => Issued(k)'
    BY <1>1, <2>1 DEF Issued, CallStep, Ended
  <2>5. \A k \in Call : \/ GrantState(k)' = GrantState(k)
                        \/ GrantState(k)' = "void" /\ GrantState(k) # "performed"
    <3>1. \A k \in Call : Spent(k) => Issued(k)
      BY PagesAndGrants DEF Spent, HasPage
    <3> QED
      BY <2>2, <2>3, <2>4, <3>1, PagesAndGrants, StaysOrVoid
  <2> QED
    BY <2>5, VoidsOrNothing
<1> QED
  BY <1>3, <1>4

LEMMA RestartGrants ==
  ASSUME PagingInv, Restart
  PROVE  Grants!Next
<1>1. /\ \A k \in Call : records'[k] = None
      /\ reading' = reading /\ next' = next
      /\ \A d \in Call : pc'[d] = IF pc[d] \in Live THEN "lost" ELSE pc[d]
  BY DEF Restart
<1>2. \A k \in Call : (Performed(k)' <=> Performed(k)) /\ ~ Spent(k)'
  BY <1>1, Constants DEF Performed, Spent, Live
<1>3. \A k \in Call : Issued(k) => Issued(k)'
  BY <1>1 DEF Issued, Live, Ended
<1>4. \A k \in Call : records[k] # None \/ Spent(k) => Issued(k)
  BY PagesAndGrants DEF Spent, HasPage
<1>5. \A k \in Call : \/ GrantState(k)' = GrantState(k)
                      \/ GrantState(k)' = "void" /\ GrantState(k) # "performed"
  BY <1>1, <1>2, <1>3, <1>4, PagesAndGrants, StaysOrVoid
<1> QED
  BY <1>5, VoidsOrNothing

LEMMA GrantsStep == PagingInv /\ [Next]_vars => Grants!Next
<1> SUFFICES ASSUME PagingInv, [Next]_vars PROVE Grants!Next
  OBVIOUS
<1>1. ASSUME NEW c \in Call, Continues(c) PROVE Grants!Next
  BY <1>1, QuietGrants, IssueGrants, AnswerGrants, FailureGrants, CommitGrants DEF Continues
<1>2. ASSUME NEW c \in Call, BeginSearch(c) \/ LeaseCursor(c) \/ LeaseIsRefused(c)
      PROVE  Grants!Next
  BY <1>2, QuietGrants, RefusedGrants
<1>3. ASSUME records' = records, pc' = pc, reading' = reading, next' = next
      PROVE  Grants!Next
  <2>1. \A k \in Call : GrantState(k)' = GrantState(k)
    BY <1>3 DEF GrantState, Cursors!Known, Ended
  <2> QED
    BY <2>1, VoidsOrNothing
<1>4. ASSUME Tick PROVE Grants!Next
  BY <1>3, <1>4 DEF Tick, store
<1>5. ASSUME UNCHANGED vars PROVE Grants!Next
  BY <1>3, <1>5 DEF vars
<1> QED
  BY <1>1, <1>2, <1>4, <1>5, RestartGrants DEF Next
-----------------------------------------------------------------------------
(* Theorems.                                                               *)

LEMMA PagingAlways == Spec => []PagingInv
<1> QED
  BY PagingInit, PagingStep, PTL DEF Spec

(* Every variable always has its type.                                     *)
THEOREM PagingTypeCorrect == Spec => []TypeOK
<1>1. PagingInv => TypeOK
  BY DEF PagingInv
<1> QED
  BY <1>1, PagingAlways, PTL

(* However many readers present a cursor, and however late they are, no    *)
(* page of a search is answered twice.                                     *)
THEOREM PagesAreAnsweredOnce == Spec => []PageIsAnsweredOnce
<1>1. PagingInv => PageIsAnsweredOnce
  <2> SUFFICES ASSUME PagingInv, NEW c1 \in Call, NEW c2 \in Call,
                      pc[c1] = "answered", pc[c2] = "answered",
                      reading[c1].page = reading[c2].page
               PROVE  c1 = c2
    BY DEF PageIsAnsweredOnce
  <2>1. Owns(c1) /\ Owns(c2)
    BY Constants DEF Owns, HasPage
  <2> QED
    BY <2>1 DEF PagingInv, PageInv
<1> QED
  BY <1>1, PagingAlways, PTL

(* A second reader fetches a continuation only when the lease of every     *)
(* earlier one has run out.                                                *)
THEOREM LeasesShutOthersOut == Spec => []LeaseShutsOthersOut
<1>1. Init => LeaseInv /\ LeaseShutsOthersOut
  <2>1. Init => \A c \in Reader : pc[c] # "fetching"
    BY Constants DEF Init
  <2> QED
    BY <2>1 DEF LeaseInv, LeaseShutsOthersOut, Fetching
<1> QED
  BY <1>1, PagingInit, PagingStep, LeaseInvStep, PTL DEF Spec

(* A cursor is lost to its search only when its page was fetched and its   *)
(* lease still held, when it expired, or with the server.                  *)
THEOREM CursorsAreSpentByReaders == Spec => CursorIsOnlySpentByItsReader
<1> DEFINE Fair(k) == \/ Cursors!Expired(k, clock)
                      \/ \E c \in Reader : /\ pc[c] = "fetched" /\ pc'[c] = "spent"
                                           /\ reading[c].cursor = k
                      \/ Restart
<1>1. ASSUME PagingInv, [Next]_vars, NEW k \in Call, records[k] # None, records'[k] = None
      PROVE  Fair(k)
  <2>0. TypeOK /\ ReadingInv /\ ReaderInv
    BY <1>1 DEF PagingInv
  <2>1. ASSUME records' = records PROVE FALSE
    BY <1>1, <2>1
  <2>2. ASSUME NEW c \in Call, IssueCursor(c) PROVE FALSE
    <3>1. next[c] \in Page
      BY <2>0, <2>2 DEF IssueCursor, TypeOK
    <3> QED
      BY <1>1, <2>0, <2>2, <3>1, IssueEffect DEF IssueCursor
  <2>3. ASSUME NEW c \in Call, LeaseIsRefused(c) PROVE Cursors!Expired(k, clock)
    <3>1. PICK j \in Given : Cursors!RefuseLease(j, clock)
      BY <2>1, <2>3 DEF LeaseIsRefused, store
    <3>2. j \in Call
      BY DEF Given
    <3> QED
      BY <1>1, <2>0, <3>1, <3>2, RefuseEffect
  <2>4. ASSUME NEW c \in Call, RollBack(c) \/ Commit(c) PROVE Fair(k)
    <3>1. /\ c \in Reader /\ reading[c] # None
          /\ RollBack(c) \/ (pc[c] = "fetched" /\ Commit(c))
      BY <2>0, <2>4 DEF RollBack, Commit, ReadingInv, Live
    <3>2. reading[c].cursor \in Call
      BY <2>0, <3>1 DEF ReaderInv
    <3>3. ~ RollBack(c)
      BY <2>0, <2>1, <3>1, <3>2, RollbackEffect DEF RollBack
    <3>4. Cursors!Commits(c, reading[c].cursor, clock)
      BY <2>0, <2>1, <3>1, <3>2, <3>3, CommitEffect DEF Commit
    <3>5. k = reading[c].cursor
      BY <1>1, <2>0, <3>1, <3>2, <3>3, CommitEffect DEF Commit
    <3>6. pc'[c] = "spent"
      BY <2>0, <3>1, <3>3, <3>4, GotoMoves DEF Commit, TypeOK, PC, Live
    <3> QED
      BY <3>1, <3>3, <3>5, <3>6
  <2>5. ASSUME NEW c \in Call,
               \/ BeginSearch(c) \/ LeaseCursor(c) \/ ProviderAnswers(c) \/ ProviderFails(c)
               \/ IssueFails(c) \/ Answer(c) \/ SearchFails(c)
        PROVE  FALSE
    BY <2>1, <2>5 DEF BeginSearch, LeaseCursor, ProviderAnswers, ProviderFails, IssueFails,
       Answer, SearchFails, store, Cursors!Lease
  <2>6. ASSUME Tick \/ UNCHANGED vars PROVE FALSE
    BY <2>1, <2>6 DEF Tick, vars, store
  <2> QED
    BY <1>1, <2>2, <2>3, <2>4, <2>5, <2>6 DEF Next, Continues
<1>2. PagingInv /\ [Next]_vars =>
        [\A k \in Call : Cursors!Known(k) /\ ~ Cursors!Known(k)' => Fair(k)]_vars
  BY <1>1 DEF Cursors!Known
<1>3. Spec => [][\A k \in Call : Cursors!Known(k) /\ ~ Cursors!Known(k)' => Fair(k)]_vars
  BY <1>2, PagingAlways, PTL DEF Spec
<1> QED
  BY <1>3 DEF CursorIsOnlySpentByItsReader

(* Cursors are one-shot grants of the next page: spent once, by the reader *)
(* that then answers the page.                                             *)
THEOREM CursorsAreOneShotGrants == Spec => ImplementsOneShotGrant
<1> DEFINE S == [k \in Call |-> GrantState(k)]
<1>1. Init => Grants!Init
  <2> SUFFICES ASSUME Init PROVE Grants!Init
    OBVIOUS
  <2>1. \A k \in Call : GrantState(k) = "none"
    BY Constants DEF Init, GrantState, Cursors!Init, Cursors!Known, Ended
  <2> QED
    BY <2>1 DEF Grants!Init
<1>2. PagingInv /\ [Next]_vars => [Grants!Next]_S
  BY GrantsStep
<1>3. Spec => Grants!Init /\ [][Grants!Next]_S
  BY <1>1, <1>2, PagingAlways, PTL DEF Spec
<1> QED
  BY <1>3, PTL DEF ImplementsOneShotGrant, Grants!Spec
=============================================================================
