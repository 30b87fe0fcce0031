---------------------------- MODULE SearchPaging ----------------------------
(***************************************************************************)
(* Paged mail search (internal/mcpserver): outlook.mail_search answers the *)
(* first page and a cursor; outlook.mail_search_next leases the cursor,    *)
(* fetches the next page from the provider, and spends the cursor.         *)
(*                                                                         *)
(* Calls run concurrently, happen at most once each and share the cursor   *)
(* store; a provider call takes time.  A page is a search and a number,    *)
(* and the provider's link to a page is modelled by the page.              *)
(***************************************************************************)
EXTENDS Naturals, FiniteSets

CONSTANTS
  Search, Reader,  \* the calls of mail_search and of mail_search_next
  CursorTTL,       \* the lifetime of a cursor (issueSearchCursorFromBinding)
  LeaseTTL,        \* searchCursorLeaseTTL
  FetchTime,       \* how long a call may take between lease and commit
  MaxPage,         \* bound on the pages of a search
  MaxClock,        \* bound on the clock
  None

Call == Search \cup Reader
Page == [ search : Search, number : 1..MaxPage ]

VARIABLES
  clock,
  records, leases,  \* Runtime.cursors
  pc,               \* per call, the last step it took
  reading,          \* per call, the cursor it reads, the page and since when
  next              \* per call, the link the provider sent with its page

vars == << clock, records, leases, pc, reading, next >>
store == << records, leases >>

Cursors == INSTANCE CursorStore
             WITH Cursor <- Call, Link <- Page, Holder <- Reader

Fetch == [ cursor : Call \cup {None}, page : Page, since : 0..MaxClock ]

Live == {"fetching", "fetched", "provider_failed", "spent", "issued"}
Ended == {"answered", "refused", "failed", "lost"}
PC == {"idle"} \cup Live \cup Ended

ASSUME CallAssumption == Search \cap Reader = {} /\ None \notin Call

ASSUME ConstantAssumption ==
  /\ {CursorTTL, LeaseTTL, FetchTime} \subseteq Nat \ {0}
  /\ MaxPage \in Nat \ {0} /\ MaxClock \in Nat

ASSUME NoneAssumption ==
  None \notin Cursors!Record \cup Cursors!LeaseRecord \cup Fetch \cup Page

TypeOK ==
  /\ clock \in 0..MaxClock
  /\ Cursors!TypeOK
  /\ pc \in [Call -> PC]
  /\ reading \in [Call -> Fetch \cup {None}]
  /\ next \in [Call -> Page \cup {None}]

Init ==
  /\ clock = 0
  /\ Cursors!Init
  /\ pc = [c \in Call |-> "idle"]
  /\ reading = [c \in Call |-> None]
  /\ next = [c \in Call |-> None]

Goto(c, to) == pc' = [pc EXCEPT ![c] = to]

(* The page after a page, if the provider has one.                         *)
After(page) ==
  { [page EXCEPT !.number = number] :
      number \in {page.number + 1} \cap 1..MaxPage } \cup {None}
-----------------------------------------------------------------------------
(* Both handlers.                                                          *)

(* Transport.Execute: a page and perhaps a link to the next, or an error.  *)
ProviderAnswers(c) ==
  /\ pc[c] = "fetching"
  /\ \E link \in After(reading[c].page) : next' = [next EXCEPT ![c] = link]
  /\ Goto(c, "fetched")
  /\ UNCHANGED << clock, store, reading >>

ProviderFails(c) ==
  /\ pc[c] = "fetching"
  /\ Goto(c, "provider_failed")
  /\ UNCHANGED << clock, store, reading, next >>

(* What is left to do with a page: a cursor is issued if there is a next   *)
(* page, and the page is answered.  When the random source fails it is not *)
(* answered either.                                                        *)
HoldsPage(c) == pc[c] = IF c \in Search THEN "fetched" ELSE "spent"

IssueCursor(c) ==
  /\ HoldsPage(c)
  /\ next[c] # None
  /\ Cursors!Issue(c, next[c], clock, CursorTTL)
  /\ Goto(c, "issued")
  /\ UNCHANGED << clock, reading, next >>

Answer(c) ==
  /\ pc[c] = "issued" \/ (HoldsPage(c) /\ next[c] = None)
  /\ Goto(c, "answered")
  /\ UNCHANGED << clock, store, reading, next >>

IssueFails(c) ==
  /\ HoldsPage(c)
  /\ next[c] # None
  /\ Goto(c, "failed")
  /\ UNCHANGED << clock, store, reading, next >>

(* mailSearchHandler.                                                      *)
BeginSearch(c) ==
  /\ c \in Search /\ pc[c] = "idle"
  /\ reading' = [reading EXCEPT ![c] =
       [ cursor |-> None, page |-> [search |-> c, number |-> 1], since |-> clock ]]
  /\ Goto(c, "fetching")
  /\ UNCHANGED << clock, store, next >>

SearchFails(c) ==
  /\ c \in Search /\ pc[c] = "provider_failed"
  /\ Goto(c, "failed")
  /\ UNCHANGED << clock, store, reading, next >>

(* mailSearchNextHandler.  Agents present the cursors they were given.     *)
Given == { k \in Call : pc[k] = "answered" /\ next[k] # None }

LeaseCursor(c) ==
  /\ c \in Reader /\ pc[c] = "idle"
  /\ \E k \in Given :
       /\ Cursors!CanLease(k, clock)
       /\ Cursors!Lease(k, c, clock, LeaseTTL)
       /\ reading' = [reading EXCEPT ![c] =
            [ cursor |-> k, page |-> records[k].link, since |-> clock ]]
  /\ Goto(c, "fetching")
  /\ UNCHANGED << clock, next >>

(* The random source fails before the store is looked at, or the store     *)
(* refuses (ErrInvalid, ErrInUse).                                         *)
LeaseIsRefused(c) ==
  /\ c \in Reader /\ pc[c] = "idle"
  /\ \/ UNCHANGED store
     \/ \E k \in Given : /\ ~ Cursors!CanLease(k, clock)
                         /\ Cursors!RefuseLease(k, clock)
  /\ Goto(c, "refused")
  /\ UNCHANGED << clock, reading, next >>

RollBack(c) ==
  /\ c \in Reader /\ pc[c] = "provider_failed"
  /\ Cursors!RollbackLease(c, reading[c].cursor)
  /\ Goto(c, "failed")
  /\ UNCHANGED << clock, reading, next >>

Commit(c) ==
  /\ c \in Reader /\ pc[c] = "fetched"
  /\ Cursors!CommitLease(c, reading[c].cursor, clock)
  /\ Goto(c, IF Cursors!Commits(c, reading[c].cursor, clock)
             THEN "spent" ELSE "refused")
  /\ UNCHANGED << clock, reading, next >>
-----------------------------------------------------------------------------
(* The environment.                                                        *)

(* No reader keeps a lease waiting for longer than FetchTime.              *)
Tick ==
  /\ clock < MaxClock
  /\ \A c \in Reader : pc[c] \in {"fetching", "fetched", "provider_failed"}
                         => clock < reading[c].since + FetchTime
  /\ clock' = clock + 1
  /\ UNCHANGED << store, pc, reading, next >>

(* The server process ends and another starts with an empty store.         *)
Restart ==
  /\ records' = [k \in Call |-> None]
  /\ leases' = [k \in Call |-> None]
  /\ pc' = [c \in Call |-> IF pc[c] \in Live THEN "lost" ELSE pc[c]]
  /\ UNCHANGED << clock, reading, next >>
-----------------------------------------------------------------------------
Continues(c) ==
  \/ ProviderAnswers(c) \/ ProviderFails(c)
  \/ IssueCursor(c) \/ IssueFails(c) \/ Answer(c)
  \/ SearchFails(c) \/ RollBack(c) \/ Commit(c)

Next ==
  \/ \E c \in Call :
       BeginSearch(c) \/ LeaseCursor(c) \/ LeaseIsRefused(c) \/ Continues(c)
  \/ Tick
  \/ Restart

(* A running call goes on: the store never blocks, and the HTTP client has *)
(* a timeout.  Agents, the clock and restarts owe nothing.                 *)
Spec == Init /\ [][Next]_vars
FairSpec == Spec /\ \A c \in Call : WF_vars(Continues(c))
-----------------------------------------------------------------------------
(* Properties.                                                             *)

(* Each page of a search is answered at most once, however slow a reader   *)
(* is: one whose lease expired and was taken over does not answer after    *)
(* the reader that took it over (CommitLease compares lease ids).          *)
PageIsAnsweredOnce ==
  \A c1, c2 \in Call :
    /\ pc[c1] = "answered" /\ pc[c2] = "answered"
    /\ reading[c1].page = reading[c2].page
    => c1 = c2

(* A cursor leaves the store only through the reader that fetched its      *)
(* page, by expiry, or with the server: a failure of the provider, or a    *)
(* reader that came too late, leaves it for a retry.                       *)
CursorIsOnlySpentByItsReader ==
  [][\A k \in Call :
       Cursors!Known(k) /\ ~ Cursors!Known(k)' =>
         \/ Cursors!Expired(k, clock)
         \/ \E c \in Reader : /\ pc[c] = "fetched" /\ pc'[c] = "spent"
                              /\ reading[c].cursor = k
         \/ Restart ]_vars

Fetching(k) == { c \in Reader : pc[c] = "fetching" /\ reading[c].cursor = k }

(* What the documents say: the same continuation is never being fetched by *)
(* two readers at once.  It is, when a fetch outlasts its lease.           *)
OneReaderAtATime == \A k \in Call : Cardinality(Fetching(k)) <= 1

(* What the code does: a second reader fetches a continuation only when    *)
(* the lease of every earlier one has run out (LeaseScoped), and there is  *)
(* never more than one who still holds it.                                 *)
LeaseShutsOthersOut ==
  \A k \in Call : \A c1, c2 \in Fetching(k) :
    \/ c1 = c2
    \/ clock >= reading[c1].since + LeaseTTL
    \/ clock >= reading[c2].since + LeaseTTL

(* A lease is always given up, even if no time passes: no reader ends with *)
(* an error and leaves its cursor in use.                                  *)
LeaseIsGivenUp ==
  \A k \in Call :
    (\E c \in Reader : Cursors!Holds(c, k) /\ pc[c] \in Live)
      ~> leases[k] = None

(* Cursors are one-shot grants: offered when issued, spent by the commit,  *)
(* performed when the page is answered.                                    *)
GrantState(k) ==
  IF \E c \in Reader : pc[c] = "answered" /\ reading[c].cursor = k
    THEN "performed"
  ELSE IF Cursors!Known(k) THEN "open"
  ELSE IF \E c \in Reader : /\ pc[c] \in {"spent", "issued"}
                           /\ reading[c].cursor = k THEN "spent"
  ELSE IF pc[k] \in {"issued"} \cup Ended /\ next[k] # None THEN "void"
  ELSE "none"

Grants == INSTANCE OneShotGrant
            WITH Grant <- Call, state <- [k \in Call |-> GrantState(k)]

ImplementsOneShotGrant == Grants!Spec
=============================================================================
