------------------------------- MODULE Search -------------------------------
(***************************************************************************)
(* Searching the messages of a chat: from the index that go-worker creates *)
(* when it starts, over the documents that its bulk requests add, to the   *)
(* pages that a client reads from go-chat.                                 *)
(*                                                                         *)
(* One action is one request to Elasticsearch.  A document stands for a    *)
(* message that matches the query, and is the number of that message.      *)
(***************************************************************************)
EXTENDS Integers, FiniteSets, Failures

CONSTANTS
  Workers,         \* go-worker processes
  MaxTries,        \* health checks of a start (30 in the code)
  MaxDocs,         \* bound on the documents
  PageParams,      \* page and per_page of requests; 0 is any that is no
  PerPageParams,   \*   positive number
  DefaultPerPage,  \* 20 in the code
  MaxPerPage,      \* 100 in the code
  Window,          \* how far into a result Elasticsearch goes (10000)
  MaxInt           \* Go's largest int

FaultKinds ==
  { "es_down",   \* Elasticsearch stops answering for some time
    "crash" }    \* a process dies and is restarted

ASSUME SearchAssumption ==
  /\ {MaxTries, MaxDocs, DefaultPerPage, MaxPerPage, Window, MaxInt} \subseteq Nat \ {0}
  /\ PageParams \subseteq 0..MaxInt
  /\ PerPageParams \subseteq 0..MaxInt
  /\ DefaultPerPage <= MaxPerPage
  /\ MaxPerPage <= Window
  /\ Window <= MaxInt
  /\ Faults \subseteq FaultKinds
  /\ MaxFaults \in Nat

VARIABLES
  up,       \* Elasticsearch answers
  index,    \* the index: "absent", with the "explicit" or a "dynamic" mapping
  docs,     \* the documents in it
  boot,     \* boot[w]: what process w does next, "run" once it has started
  tries,    \* tries[w]: the health checks that it has made
  perPage,  \* the client's per_page
  page,     \* the page that it asks for next, 0 when it is through
  wanted,   \* the documents that were there when it got the first page
  seen      \* the documents that it has got

indexVars  == <<up, index, docs>>
startVars  == <<boot, tries>>
clientVars == <<perPage, page, wanted, seen>>
vars == <<indexVars, startVars, clientVars, faultVars>>

Docs == 1..MaxDocs

TypeOK ==
  /\ up \in BOOLEAN
  /\ index \in {"absent", "explicit", "dynamic"}
  /\ docs \subseteq Docs
  /\ boot \in [Workers -> {"connect", "check", "create", "run"}]
  /\ tries \in [Workers -> 0..(MaxTries - 1)]
  /\ perPage \in PerPageParams
  /\ page \in 0..(MaxDocs + 1)
  /\ wanted \subseteq docs
  /\ seen \subseteq docs
  /\ index = "absent" => docs = {}
  /\ happened \subseteq FaultKinds
  /\ failures \in Nat

Init ==
  /\ up = TRUE
  /\ index = "absent"
  /\ docs = {}
  /\ boot = [w \in Workers |-> "connect"]
  /\ tries = [w \in Workers |-> 0]
  /\ perPage \in PerPageParams
  /\ page = 1
  /\ wanted = {}
  /\ seen = {}
  /\ happened = {}
  /\ failures = 0

-----------------------------------------------------------------------------
(***************************************************************************)
(* go-worker: NewClient and BulkIndex.                                     *)
(***************************************************************************)
Goto(w, here, there) ==
  /\ boot[w] = here
  /\ boot' = [boot EXCEPT ![w] = there]

\* Mutant: one health check too many.
HealthCheckLate(w) ==
  LET last == up \/ tries[w] = MaxTries IN
  /\ Goto(w, "connect", IF last THEN "check" ELSE "connect")
  /\ tries' = [tries EXCEPT ![w] = IF last THEN 0 ELSE @ + 1]
  /\ NoFault
  /\ UNCHANGED <<indexVars, clientVars>>

\* waitForConnection: the last failure is only logged.
HealthCheck(w) ==
  LET last == up \/ tries[w] = MaxTries - 1 IN
  /\ Goto(w, "connect", IF last THEN "check" ELSE "connect")
  /\ tries' = [tries EXCEPT ![w] = IF last THEN 0 ELSE @ + 1]
  /\ NoFault
  /\ UNCHANGED <<indexVars, clientVars>>

\* Mutant: the consumers are started before the index is looked for.
EnsureLater(w) ==
  /\ Goto(w, "check", "run")
  /\ NoFault
  /\ UNCHANGED <<indexVars, tries, clientVars>>

\* EnsureIndex, HEAD: no answer ends it, with an error that is only logged.
CheckIndex(w) ==
  /\ Goto(w, "check", IF up /\ index = "absent" THEN "create" ELSE "run")
  /\ NoFault
  /\ UNCHANGED <<indexVars, tries, clientVars>>

\* EnsureIndex, PUT: an index that is there by now is not changed.
CreateIndex(w) ==
  /\ Goto(w, "create", "run")
  /\ index' = IF up /\ index = "absent" THEN "explicit" ELSE index
  /\ NoFault
  /\ UNCHANGED <<up, docs, tries, clientVars>>

\* Elasticsearch creates an index that is not there, with a mapping of its own.
BulkIndex(w) ==
  /\ boot[w] = "run"
  /\ up
  /\ \E d \in Docs \ docs : docs' = docs \cup {d}
  /\ index' = IF index = "absent" THEN "dynamic" ELSE index
  /\ NoFault
  /\ UNCHANGED <<up, startVars, clientVars>>

-----------------------------------------------------------------------------
(***************************************************************************)
(* go-chat: SearchMessagesHandler and Client.Search, and a client that     *)
(* reads the result from the first to the last page.                       *)
(***************************************************************************)
HandlerPage(n)    == IF n < 1 THEN 1 ELSE n
HandlerPerPage(n) == IF n < 1 THEN DefaultPerPage ELSE IF n > MaxPerPage THEN MaxPerPage ELSE n
ClientPageSize(n) == IF n < 1 \/ n > MaxPerPage THEN DefaultPerPage ELSE n

\* Go's int wraps around.
Wrap(n) == ((n + MaxInt + 1) % (2 * (MaxInt + 1))) - (MaxInt + 1)

\* Mutant: pages counted from 0.
OffsetFromZero(pg, size) == Wrap(pg * size)

\* Mutant: one document of the page before is left out.
OffsetSkips(pg, size) == Wrap((pg - 1) * size + (IF pg > 1 THEN 1 ELSE 0))

\* Mutant: the product is computed in a narrower type.
OffsetNarrow(pg, size) == ((pg - 1) * size) % ((MaxInt + 1) \div 2)

Offset(pg, size) == Wrap((pg - 1) * size)

\* With a dynamic mapping the term query on application_token finds nothing.
Hits == IF index = "explicit" THEN docs ELSE {}

\* d's place among the hits, which are sorted by number.
Rank(d) == Cardinality({e \in Hits : e <= d})

\* total is what Elasticsearch counts to by default.
Total == IF Cardinality(Hits) > Window THEN Window ELSE Cardinality(Hits)

TotalPages(n) == (Total + HandlerPerPage(n) - 1) \div HandlerPerPage(n)

\* The slice that a request asks for: the size is clamped twice.
From(pg, n) == Offset(HandlerPage(pg), ClientPageSize(HandlerPerPage(n)))
Size(n)     == ClientPageSize(HandlerPerPage(n))

\* Elasticsearch refuses what begins before the first hit or ends behind its
\* window, and what is of no index.
Answered(pg, n) ==
  /\ up
  /\ index # "absent"
  /\ From(pg, n) >= 0
  /\ From(pg, n) + Size(n) <= Window

Messages(pg, n) == {d \in Hits : Rank(d) \in (From(pg, n) + 1)..(From(pg, n) + Size(n))}

\* The client gets a page and goes on to the next one, if there is one.
GetPage ==
  /\ page > 0
  /\ Answered(page, perPage)
  /\ wanted' = IF page = 1 THEN docs ELSE wanted
  /\ seen' = seen \cup Messages(page, perPage)
  /\ page' = IF page < TotalPages(perPage) THEN page + 1 ELSE 0
  /\ NoFault
  /\ UNCHANGED <<indexVars, startVars, perPage>>

-----------------------------------------------------------------------------
(***************************************************************************)
(* The environment.                                                        *)
(***************************************************************************)
GoesDown == up /\ up' = FALSE /\ Fault("es_down")
ComesUp  == ~up /\ up' = TRUE /\ NoFault

Outage ==
  /\ GoesDown \/ ComesUp
  /\ UNCHANGED <<index, docs, startVars, clientVars>>

CrashAndRestart(w) ==
  /\ Fault("crash")
  /\ boot' = [boot EXCEPT ![w] = "connect"]
  /\ tries' = [tries EXCEPT ![w] = 0]
  /\ UNCHANGED <<indexVars, clientVars>>

-----------------------------------------------------------------------------
Worker(w) ==
  \/ HealthCheck(w)
  \/ CheckIndex(w)
  \/ CreateIndex(w)
  \/ BulkIndex(w)

Next ==
  \/ \E w \in Workers : Worker(w) \/ CrashAndRestart(w)
  \/ GetPage
  \/ Outage

Spec == Init /\ [][Next]_vars

-----------------------------------------------------------------------------
(***************************************************************************)
(* Properties.                                                             *)
(***************************************************************************)

\* Documents are indexed under the mapping that the search needs: processes
\* that start together, or again, create the index before any of them sends
\* documents.  An outage during a start breaks that for good, as EnsureIndex is
\* not called again, whatever its error message (client.go:34) says; all
\* outages are excepted.
MappingExplicit == Unless({"es_down"}) \/ index # "dynamic"

\* The hits that pages of per_page n reach.
Reach(n) == (Window \div Size(n)) * Size(n)

\* A client that reads to the last page has got every message that was there
\* when it began, while others are indexed before, between and behind them, so
\* that pages shift and total_pages grows under it (Search, totalPages).
NoneMissed ==
  page = 0 => index = "dynamic" \/ \A d \in wanted : d \in seen \/ Rank(d) > Reach(perPage)

\* Every page that total_pages promises is answered, as far as Elasticsearch is
\* there and its window reaches.
PagesAnswered ==
  \A n \in PerPageParams : \A pg \in 1..TotalPages(n) :
    Answered(pg, n) \/ ~up \/ pg * Size(n) > Reach(n)

\* A page behind the last one shows nothing, as long as its offset is an int.
NothingBehindTheLast ==
  \A n \in PerPageParams : \A pg \in PageParams :
    \/ pg <= TotalPages(n)
    \/ HandlerPage(pg) = 1
    \/ (pg - 1) * Size(n) > MaxInt
    \/ ~Answered(pg, n)
    \/ Messages(pg, n) = {}

=============================================================================
