----------------------------- MODULE SearchProofs -----------------------------
(***************************************************************************)
(* The index gets its mapping before its first document, for any number of *)
(* processes that start, die and start again; and a client that reads the  *)
(* pages of a result gets what it was promised, for any number of          *)
(* documents, any per_page, any window and any width of Go's int.          *)
(***************************************************************************)
EXTENDS Search, FiniteSetTheorems, TLAPS

\* As long as Elasticsearch answers, a process that has started has seen the
\* index, or made it; and who finds it made by another leaves it as it is.
Started ==
  /\ boot \in [Workers -> {"connect", "check", "create", "run"}]
  /\ \/ Unless({"es_down"})
     \/ /\ up = TRUE
        /\ index \in {"absent", "explicit"}
        /\ \A w \in Workers : boot[w] = "run" => index = "explicit"

LEMMA StartedInit == Init => Started
  BY DEF Init, Started

\* What has happened stays so.
LEMMA UnlessStays ==
  ASSUME [Next]_vars, NEW kinds, Unless(kinds)
  PROVE  Unless(kinds)'
<1>1. CASE UNCHANGED vars
  BY <1>1 DEF vars, faultVars, Unless
<1>2. CASE Next
  <2>1. happened \subseteq happened'
    BY <1>2 DEF Next, Worker, HealthCheck, CheckIndex, CreateIndex, BulkIndex,
      CrashAndRestart, GetPage, Outage, GoesDown, ComesUp, Fault, NoFault, faultVars
  <2> QED
    BY <2>1 DEF Unless
<1> QED
  BY <1>1, <1>2

LEMMA StartedStep == Started /\ [Next]_vars => Started'
<1> SUFFICES ASSUME Started, [Next]_vars
             PROVE  Started'
  OBVIOUS
<1>1. CASE Unless({"es_down"})
  <2>1. Unless({"es_down"})'
    BY <1>1, UnlessStays
  <2>2. boot' \in [Workers -> {"connect", "check", "create", "run"}]
    BY DEF Started, vars, startVars, Next, Worker, HealthCheck, CheckIndex, CreateIndex,
      BulkIndex, CrashAndRestart, GetPage, Outage, Goto
  <2> QED
    BY <2>1, <2>2 DEF Started
<1>2. CASE ~Unless({"es_down"})
  <2> USE <1>2 DEF Started
  <2>1. CASE UNCHANGED vars
    BY <2>1 DEF vars, indexVars, startVars, faultVars, Unless
  <2>2. ASSUME NEW w \in Workers, HealthCheck(w)
        PROVE  Started'
    BY <2>2 DEF HealthCheck, Goto, indexVars
  <2>3. ASSUME NEW w \in Workers, CheckIndex(w)
        PROVE  Started'
    BY <2>3 DEF CheckIndex, Goto, indexVars
  <2>4. ASSUME NEW w \in Workers, CreateIndex(w)
        PROVE  Started'
    BY <2>4 DEF CreateIndex, Goto
  <2>5. ASSUME NEW w \in Workers, BulkIndex(w)
        PROVE  Started'
    BY <2>5 DEF BulkIndex, startVars
  <2>6. ASSUME NEW w \in Workers, CrashAndRestart(w)
        PROVE  Started'
    BY <2>6 DEF CrashAndRestart, indexVars
  <2>7. CASE GetPage
    BY <2>7 DEF GetPage, indexVars, startVars
  <2>8. CASE Outage
    <3>1. CASE GoesDown
      BY <2>8, <3>1 DEF Outage, GoesDown, Fault, startVars, Unless
    <3>2. CASE ComesUp
      BY <3>2 DEF ComesUp
    <3> QED
      BY <2>8, <3>1, <3>2 DEF Outage
  <2> QED
    BY <2>1, <2>2, <2>3, <2>4, <2>5, <2>6, <2>7, <2>8 DEF Next, Worker
<1> QED
  BY <1>1, <1>2

\* No document is indexed under a mapping that Elasticsearch made up, unless it
\* was away during a start (NewClient, EnsureIndex).
THEOREM DocumentsAreMapped == Spec => []MappingExplicit
<1>1. Started => MappingExplicit
  BY DEF Started, MappingExplicit
<1> QED
  BY StartedInit, StartedStep, <1>1, PTL DEF Spec

-----------------------------------------------------------------------------
(***************************************************************************)
(* Arithmetic of pages: division, products and Go's int.                   *)
(***************************************************************************)
LEMMA DivIs ==
  ASSUME NEW a \in Nat, NEW b \in Nat \ {0}
  PROVE  a \div b \in Nat /\ (a \div b) * b <= a /\ a < (a \div b) * b + b
  OBVIOUS

LEMMA ProductIsMonotone ==
  ASSUME NEW a \in Int, NEW b \in Int, NEW c \in Nat, a <= b
  PROVE  a * c \in Int /\ b * c \in Int /\ a * c <= b * c
  OBVIOUS

LEMMA NextPage ==
  ASSUME NEW a \in Int, NEW c \in Int
  PROVE  (a - 1) * c = a * c - c
  OBVIOUS

\* What fits into an int does not wrap around.
LEMMA WrapIs ==
  ASSUME NEW n \in 0..MaxInt
  PROVE  Wrap(n) = n
<1>1. MaxInt \in Nat
  BY SearchAssumption
<1>2. n + MaxInt + 1 \in Nat /\ 2 * (MaxInt + 1) \in Nat /\ n + MaxInt + 1 < 2 * (MaxInt + 1)
  BY <1>1
<1>3. (n + MaxInt + 1) % (2 * (MaxInt + 1)) = n + MaxInt + 1
  <2> DEFINE a == n + MaxInt + 1
             b == 2 * (MaxInt + 1)
  <2>1. a \in Nat /\ b \in Nat /\ a < b
    BY <1>2
  <2> HIDE DEF a, b
  <2>2. a % b = a
    BY <2>1
  <2> QED
    BY <2>2 DEF a, b
<1> QED
  BY <1>1, <1>3 DEF Wrap

\* Handler and client clamp the size of a page to the same value.
LEMMA SizeIs ==
  ASSUME NEW n \in PerPageParams
  PROVE  Size(n) = HandlerPerPage(n) /\ Size(n) \in 1..MaxPerPage
  BY SearchAssumption DEF Size, HandlerPerPage, ClientPageSize

\* The last page reaches the end of what is counted, and holds some of it.
LEMMA PagesAre ==
  ASSUME NEW n \in PerPageParams, Total \in Nat
  PROVE  /\ TotalPages(n) \in 0..Total
         /\ Total <= TotalPages(n) * Size(n)
         /\ \A pg \in 1..TotalPages(n) : (pg - 1) * Size(n) \in 0..(Total - 1)
<1> DEFINE S == Size(n)
           T == TotalPages(n)
<1>1. S \in Nat \ {0} /\ S = HandlerPerPage(n)
  BY SizeIs, SearchAssumption
<1>2. Total + S - 1 \in Nat
  BY <1>1
<1>3. T = (Total + S - 1) \div S
  BY <1>1 DEF TotalPages
<1> HIDE DEF S, T
<1>4. T \in Nat /\ T * S <= Total + S - 1 /\ Total + S - 1 < T * S + S
  BY <1>1, <1>2, <1>3, DivIs
<1>5. T * S \in Nat
  BY <1>1, <1>4
<1>6. Total <= T * S
  BY <1>1, <1>4, <1>5
<1>7. ASSUME NEW pg \in 1..T
      PROVE  (pg - 1) * S \in 0..(Total - 1)
  <2>1. pg \in Int /\ pg - 1 \in Nat /\ pg <= T
    BY <1>4, <1>7
  <2>2. (pg - 1) * S \in Nat /\ pg * S \in Int /\ pg * S <= T * S
    BY <1>1, <1>4, <2>1, ProductIsMonotone
  <2>3. (pg - 1) * S = pg * S - S
    BY <1>1, <2>1, NextPage
  <2> QED
    BY <1>1, <1>4, <1>5, <2>2, <2>3
<1>8. T <= Total
  <2>1. CASE T = 0
    BY <2>1
  <2>2. CASE T # 0
    <3>1. (T - 1) * S <= Total - 1 /\ T - 1 \in Nat
      BY <1>4, <1>7, <2>2
    <3>2. (T - 1) * S >= T - 1
      BY <1>1, <3>1
    <3>3. (T - 1) * S \in Int
      BY <1>1, <3>1
    <3> QED
      BY <1>4, <3>1, <3>2, <3>3
  <2> QED
    BY <2>1, <2>2
<1> QED
  BY <1>4, <1>6, <1>7, <1>8 DEF S, T

-----------------------------------------------------------------------------
(***************************************************************************)
(* Hits, their places and their number.                                    *)
(***************************************************************************)
LEMMA DocsAre == IsFiniteSet(Docs) /\ Cardinality(Docs) = MaxDocs
<1>1. MaxDocs \in Nat \ {0} /\ 1 \in Int
  BY SearchAssumption
<1> QED
  BY <1>1, FS_Interval DEF Docs

LEMMA HitsAre ==
  ASSUME docs \subseteq Docs
  PROVE  /\ Hits \subseteq Docs /\ IsFiniteSet(Hits)
         /\ Cardinality(Hits) \in 0..MaxDocs
         /\ Total \in 0..MaxDocs /\ Total <= Window
         /\ Total = Cardinality(Hits) \/ Total = Window
<1>1. Hits \subseteq Docs
  BY DEF Hits
<1>2. IsFiniteSet(Hits) /\ Cardinality(Hits) <= MaxDocs
  BY <1>1, DocsAre, FS_Subset
<1>3. Cardinality(Hits) \in Nat
  BY <1>2, FS_CardinalityType
<1> QED
  BY <1>1, <1>2, <1>3, SearchAssumption DEF Total

LEMMA RankIs ==
  ASSUME docs \subseteq Docs, NEW d
  PROVE  Rank(d) \in 0..Cardinality(Hits) /\ (d \in Hits => Rank(d) >= 1)
<1> DEFINE Before == {e \in Hits : e <= d}
<1>1. Before \subseteq Hits
  OBVIOUS
<1>2. IsFiniteSet(Before) /\ Cardinality(Before) <= Cardinality(Hits)
  BY <1>1, HitsAre, FS_Subset
<1>3. Cardinality(Before) \in Nat /\ Cardinality(Hits) \in Nat
  BY <1>2, HitsAre, FS_CardinalityType
<1>4. ASSUME d \in Hits
      PROVE  Cardinality(Before) # 0
  <2>1. d \in Int
    BY <1>4, HitsAre DEF Docs
  <2>2. d \in Before
    BY <1>4, <2>1
  <2> QED
    BY <1>2, <2>2, FS_EmptySet
<1> HIDE DEF Before
<1>5. Rank(d) = Cardinality(Before)
  BY DEF Rank, Before
<1> QED
  BY <1>2, <1>3, <1>4, <1>5

\* The pages that are promised begin within the window, and so within an int.
LEMMA PromisedPages ==
  ASSUME docs \subseteq Docs, NEW n \in PerPageParams, NEW pg \in 1..TotalPages(n)
  PROVE  /\ index = "explicit"
         /\ pg \in Nat \ {0}
         /\ (pg - 1) * Size(n) \in 0..(Window - 1)
         /\ From(pg, n) = (pg - 1) * Size(n)
<1>1. Total \in 0..MaxDocs /\ Total <= Window
  BY HitsAre
<1>2. Total \in Nat /\ Window \in Nat /\ MaxInt \in Nat /\ Window <= MaxInt
  BY <1>1, SearchAssumption
<1>3. TotalPages(n) \in 0..Total /\ (pg - 1) * Size(n) \in 0..(Total - 1)
  BY <1>2, PagesAre
<1>4. (pg - 1) * Size(n) \in 0..(Window - 1) /\ (pg - 1) * Size(n) \in 0..MaxInt
  BY <1>1, <1>2, <1>3
<1>5. pg \in Nat \ {0}
  BY <1>2, <1>3
<1>6. From(pg, n) = (pg - 1) * Size(n)
  <2>1. HandlerPage(pg) = pg
    BY <1>5 DEF HandlerPage
  <2>2. From(pg, n) = Wrap((pg - 1) * Size(n))
    BY <2>1 DEF From, Offset, Size
  <2> QED
    BY <1>4, <2>2, WrapIs
<1>7. index = "explicit"
  <2>1. SUFFICES ASSUME index # "explicit"
                 PROVE  FALSE
    OBVIOUS
  <2>2. Hits = {}
    BY <2>1 DEF Hits
  <2>3. Cardinality(Hits) = 0
    BY <2>2, FS_EmptySet
  <2>4. Total = 0
    BY <1>2, <2>3 DEF Total
  <2> QED
    BY <1>3, <2>4
<1> QED
  BY <1>4, <1>5, <1>6, <1>7

\* A client asks only for the first page and for pages that it was promised.
OnPromisedPage == page > 0 => page = 1 \/ page <= TotalPages(perPage)

LEMMA PageRead ==
  ASSUME TypeOK, OnPromisedPage, page > 0
  PROVE  /\ page \in Nat \ {0}
         /\ (page - 1) * Size(perPage) \in Nat
         /\ From(page, perPage) = (page - 1) * Size(perPage)
<1>1. page \in Nat \ {0} /\ docs \subseteq Docs /\ perPage \in PerPageParams
  BY SearchAssumption DEF TypeOK
<1>2. CASE page = 1
  <2>1. Size(perPage) \in Nat
    BY <1>1, SizeIs, SearchAssumption
  <2>2. (page - 1) * Size(perPage) = 0
    BY <1>2, <2>1
  <2>3. HandlerPage(page) = page
    BY <1>2 DEF HandlerPage
  <2>4. From(page, perPage) = Wrap(0)
    BY <2>2, <2>3 DEF From, Offset, Size
  <2>5. 0 \in 0..MaxInt
    BY SearchAssumption
  <2> QED
    BY <1>1, <2>2, <2>4, <2>5, WrapIs
<1>3. CASE page # 1
  <2>1. page <= TotalPages(perPage)
    BY <1>3 DEF OnPromisedPage
  <2>2. TotalPages(perPage) \in Int
    <3>1. Total \in Nat
      BY <1>1, HitsAre, SearchAssumption
    <3> QED
      BY <1>1, <3>1, PagesAre
  <2>3. page \in 1..TotalPages(perPage)
    BY <1>1, <2>1, <2>2
  <2>4. Window \in Nat
    BY SearchAssumption
  <2> QED
    BY <1>1, <2>3, <2>4, PromisedPages
<1> QED
  BY <1>2, <1>3

-----------------------------------------------------------------------------
(***************************************************************************)
(* Types.                                                                  *)
(***************************************************************************)
LEMMA TypeInit == Init => TypeOK
  BY SearchAssumption DEF Init, TypeOK

LEMMA TypeStep == TypeOK /\ [Next]_vars => TypeOK'
<1> SUFFICES ASSUME TypeOK, [Next]_vars
             PROVE  TypeOK'
  OBVIOUS
<1> USE DEF TypeOK
<1>1. CASE UNCHANGED vars
  BY <1>1 DEF vars, indexVars, startVars, clientVars, faultVars
<1>2. ASSUME NEW w \in Workers, HealthCheck(w)
      PROVE  TypeOK'
  <2> DEFINE last == up \/ tries[w] = MaxTries - 1
  <2>1. tries[w] \in 0..(MaxTries - 1) /\ MaxTries \in Nat
    BY SearchAssumption
  <2>2. (IF last THEN 0 ELSE tries[w] + 1) \in 0..(MaxTries - 1)
    BY <2>1
  <2>3. tries' = [tries EXCEPT ![w] = IF last THEN 0 ELSE tries[w] + 1]
    BY <1>2 DEF HealthCheck
  <2>4. (IF last THEN "check" ELSE "connect") \in {"connect", "check", "create", "run"}
    OBVIOUS
  <2>5. boot' = [boot EXCEPT ![w] = IF last THEN "check" ELSE "connect"]
    BY <1>2 DEF HealthCheck, Goto
  <2> HIDE DEF last
  <2>6. boot' \in [Workers -> {"connect", "check", "create", "run"}]
    BY <2>4, <2>5
  <2>7. tries' \in [Workers -> 0..(MaxTries - 1)]
    BY <2>2, <2>3
  <2> QED
    BY <1>2, <2>6, <2>7 DEF HealthCheck, NoFault, indexVars, clientVars, faultVars
<1>3. ASSUME NEW w \in Workers, CheckIndex(w)
      PROVE  TypeOK'
  BY <1>3 DEF CheckIndex, Goto, NoFault, indexVars, clientVars, faultVars
<1>4. ASSUME NEW w \in Workers, CreateIndex(w)
      PROVE  TypeOK'
  BY <1>4 DEF CreateIndex, Goto, NoFault, clientVars, faultVars
<1>5. ASSUME NEW w \in Workers, BulkIndex(w)
      PROVE  TypeOK'
  BY <1>5 DEF BulkIndex, NoFault, startVars, clientVars, faultVars
<1>6. CASE GetPage
  <2>1. page' \in 0..(MaxDocs + 1)
    <3>1. Total \in 0..MaxDocs /\ MaxDocs \in Nat
      BY HitsAre, SearchAssumption
    <3>2. TotalPages(perPage) \in 0..Total
      BY <3>1, PagesAre
    <3> QED
      BY <1>6, <3>1, <3>2 DEF GetPage
  <2>2. Messages(page, perPage) \subseteq docs
    BY DEF Messages, Hits
  <2>3. wanted' \subseteq docs /\ seen' \subseteq docs
    BY <1>6, <2>2 DEF GetPage
  <2> QED
    BY <1>6, <2>1, <2>3 DEF GetPage, NoFault, indexVars, startVars, faultVars
<1>7. CASE Outage
  <2>1. up' \in BOOLEAN
    BY <1>7 DEF Outage, GoesDown, ComesUp
  <2>2. happened' \subseteq FaultKinds /\ failures' \in Nat
    <3>1. Fault("es_down") \/ NoFault
      BY <1>7 DEF Outage, GoesDown, ComesUp
    <3>2. CASE Fault("es_down")
      BY <3>2 DEF Fault, FaultKinds
    <3>3. CASE NoFault
      BY <3>3 DEF NoFault, faultVars
    <3> QED
      BY <3>1, <3>2, <3>3
  <2>3. UNCHANGED <<index, docs, boot, tries, perPage, page, wanted, seen>>
    BY <1>7 DEF Outage, startVars, clientVars
  <2> QED
    BY <2>1, <2>2, <2>3
<1>8. ASSUME NEW w \in Workers, CrashAndRestart(w)
      PROVE  TypeOK'
  <2>1. 0 \in 0..(MaxTries - 1)
    BY SearchAssumption
  <2>2. happened' \subseteq FaultKinds /\ failures' \in Nat
    BY <1>8 DEF CrashAndRestart, Fault, FaultKinds
  <2>3. tries' \in [Workers -> 0..(MaxTries - 1)]
    BY <1>8, <2>1 DEF CrashAndRestart
  <2> QED
    BY <1>8, <2>2, <2>3 DEF CrashAndRestart, indexVars, clientVars
<1> QED
  BY <1>1, <1>2, <1>3, <1>4, <1>5, <1>6, <1>7, <1>8 DEF Next, Worker

\* Every variable keeps its type; above all, the client asks for no page behind
\* the documents (Search, totalPages).
THEOREM TypeCorrect == Spec => []TypeOK
  BY TypeInit, TypeStep, PTL DEF Spec

-----------------------------------------------------------------------------
(***************************************************************************)
(* What a request is answered.                                             *)
(***************************************************************************)
LEMMA PagesInReach ==
  ASSUME TypeOK, NEW n \in PerPageParams, NEW pg \in 1..TotalPages(n)
  PROVE  Answered(pg, n) \/ ~up \/ pg * Size(n) > Reach(n)
<1>1. docs \subseteq Docs
  BY DEF TypeOK
<1>2. /\ index = "explicit" /\ pg \in Nat \ {0}
      /\ (pg - 1) * Size(n) \in 0..(Window - 1)
      /\ From(pg, n) = (pg - 1) * Size(n)
  BY <1>1, PromisedPages
<1>3. Size(n) \in Nat \ {0} /\ Window \in Nat
  BY SizeIs, SearchAssumption
<1>4. Reach(n) \in Nat /\ Reach(n) <= Window
  BY <1>3, DivIs DEF Reach
<1>5. (pg - 1) * Size(n) = pg * Size(n) - Size(n) /\ pg * Size(n) \in Int
  BY <1>2, <1>3, NextPage
<1>6. From(pg, n) + Size(n) = pg * Size(n) /\ From(pg, n) >= 0
  BY <1>2, <1>3, <1>5
<1>7. CASE pg * Size(n) <= Window
  BY <1>2, <1>6, <1>7 DEF Answered
<1>8. CASE pg * Size(n) > Window
  BY <1>3, <1>4, <1>5, <1>8
<1> QED
  BY <1>3, <1>5, <1>7, <1>8

\* Every page that total_pages promises is answered while Elasticsearch is
\* there, as far as its window reaches: the offset of such a page is an int for
\* any per_page (SearchMessagesHandler, Search).
THEOREM PromisesAreKept == Spec => []PagesAnswered
<1>1. TypeOK => PagesAnswered
  BY PagesInReach DEF PagesAnswered
<1> QED
  BY <1>1, TypeCorrect, PTL

LEMMA PagesBehind ==
  ASSUME TypeOK, NEW n \in PerPageParams, NEW pg \in PageParams
  PROVE  \/ pg <= TotalPages(n)
         \/ HandlerPage(pg) = 1
         \/ (pg - 1) * Size(n) > MaxInt
         \/ ~Answered(pg, n)
         \/ Messages(pg, n) = {}
<1> DEFINE S == Size(n)
           T == TotalPages(n)
<1> SUFFICES ASSUME ~(pg <= T), HandlerPage(pg) # 1, ~((pg - 1) * S > MaxInt),
                    Answered(pg, n), NEW d \in Messages(pg, n)
             PROVE  FALSE
  OBVIOUS
<1>1. docs \subseteq Docs
  BY DEF TypeOK
<1>2. S \in Nat \ {0} /\ Window \in Nat /\ MaxInt \in Nat
  BY SizeIs, SearchAssumption
<1>3. pg \in Nat \ {0} /\ HandlerPage(pg) = pg
  BY SearchAssumption DEF HandlerPage
<1>4. /\ Total \in Nat /\ Cardinality(Hits) \in Nat /\ Total <= Window
      /\ Total = Cardinality(Hits) \/ Total = Window
  BY <1>1, HitsAre, SearchAssumption
<1>5. T \in Nat /\ Total <= T * S
  BY <1>4, PagesAre
<1>6. From(pg, n) = Wrap((pg - 1) * S)
  BY <1>3 DEF From, Offset, Size
<1>7. Rank(d) \in 0..Cardinality(Hits) /\ Rank(d) \in (From(pg, n) + 1)..(From(pg, n) + S)
  BY <1>1, RankIs DEF Messages
<1>8. From(pg, n) + S <= Window
  BY DEF Answered
<1> HIDE DEF S, T
<1>9. T <= pg - 1 /\ pg - 1 \in Nat
  BY <1>3, <1>5
<1>10. T * S <= (pg - 1) * S /\ T * S \in Int /\ (pg - 1) * S \in Nat
  BY <1>2, <1>5, <1>9, ProductIsMonotone
<1>11. From(pg, n) = (pg - 1) * S
  BY <1>2, <1>6, <1>10, WrapIs
<1>12. Total <= From(pg, n) /\ From(pg, n) \in Nat
  BY <1>4, <1>5, <1>10, <1>11
<1>13. CASE Total = Cardinality(Hits)
  BY <1>4, <1>7, <1>12, <1>13
<1>14. CASE Total = Window
  BY <1>2, <1>8, <1>12, <1>14
<1> QED
  BY <1>4, <1>13, <1>14

\* A page behind the last one that is answered shows nothing, as long as its
\* offset is an int (SearchMessagesHandler, Search).
THEOREM NoPageBehindTheLast == Spec => []NothingBehindTheLast
<1>1. TypeOK => NothingBehindTheLast
  BY PagesBehind DEF NothingBehindTheLast
<1> QED
  BY <1>1, TypeCorrect, PTL

-----------------------------------------------------------------------------
(***************************************************************************)
(* Reading to the last page.  The invariant: what the client wants and has *)
(* not seen yet is behind the pages that it has read.  Documents that are  *)
(* added only move it further behind.                                      *)
(***************************************************************************)
Reading ==
  /\ OnPromisedPage
  /\ index = "explicit" =>
       \A d \in wanted :
         \/ d \in seen
         \/ Rank(d) > IF page = 0 THEN Reach(perPage) ELSE (page - 1) * Size(perPage)

LEMMA DivIsMonotone ==
  ASSUME NEW a \in Nat, NEW b \in Nat, NEW c \in Nat \ {0}, a <= b
  PROVE  a \div c <= b \div c
<1> DEFINE p == a \div c
           q == b \div c
<1>1. p \in Nat /\ q \in Nat /\ p * c <= a /\ b < q * c + c
  BY DivIs
<1> HIDE DEF p, q
<1>2. p * c \in Nat /\ q * c \in Nat /\ q * c + c = (q + 1) * c
  BY <1>1
<1>3. p <= q
  <2>1. SUFFICES ASSUME q + 1 <= p
                 PROVE  FALSE
    BY <1>1
  <2>2. (q + 1) * c <= p * c
    BY <1>1, <2>1, ProductIsMonotone
  <2> QED
    BY <1>1, <1>2, <2>2
<1> QED
  BY <1>3 DEF p, q

LEMMA CeilingIsMonotone ==
  ASSUME NEW a \in Nat, NEW b \in Nat, NEW c \in Nat \ {0}, a <= b
  PROVE  (a + c - 1) \div c \in Nat /\ (a + c - 1) \div c <= (b + c - 1) \div c
<1>1. a + c - 1 \in Nat /\ b + c - 1 \in Nat /\ a + c - 1 <= b + c - 1
  OBVIOUS
<1> QED
  BY <1>1, DivIs, DivIsMonotone

\* An index keeps its mapping, and what is in it.
LEMMA HitsStay == TypeOK /\ [Next]_vars => Hits \subseteq Hits'
<1> SUFFICES ASSUME TypeOK, [Next]_vars
             PROVE  Hits \subseteq Hits'
  OBVIOUS
<1>1. index = "explicit" => index' = "explicit" /\ docs \subseteq docs'
  BY DEF Next, Worker, HealthCheck, CheckIndex, CreateIndex, BulkIndex, CrashAndRestart,
    GetPage, Outage, vars, indexVars
<1> QED
  BY <1>1 DEF Hits

LEMMA HitsAreCounted == TypeOK => IsFiniteSet(Hits) /\ Cardinality(Hits) \in Nat /\ Total \in Nat
<1> SUFFICES ASSUME TypeOK
             PROVE  IsFiniteSet(Hits) /\ Cardinality(Hits) \in Nat /\ Total \in Nat
  OBVIOUS
<1> QED
  BY HitsAre, SearchAssumption DEF TypeOK

LEMMA HitsAreCountedNext ==
  TypeOK' => (IsFiniteSet(Hits) /\ Cardinality(Hits) \in Nat /\ Total \in Nat)'
  BY HitsAreCounted, PTL

LEMMA PagesGrow ==
  ASSUME TypeOK, [Next]_vars, NEW n \in PerPageParams
  PROVE  TotalPages(n) \in Nat /\ TotalPages(n) <= TotalPages(n)'
<1>1. /\ IsFiniteSet(Hits') /\ Cardinality(Hits) \in Nat /\ Cardinality(Hits') \in Nat
      /\ Total \in Nat /\ Total' \in Nat
  BY TypeStep, HitsAreCounted, HitsAreCountedNext
<1>2. Cardinality(Hits) <= Cardinality(Hits')
  BY <1>1, HitsStay, FS_Subset
<1>3. Total <= Total'
  BY <1>1, <1>2, SearchAssumption DEF Total
<1> DEFINE S == HandlerPerPage(n)
<1>4. S \in Nat \ {0}
  BY SizeIs, SearchAssumption
<1>5. TotalPages(n) = (Total + S - 1) \div S /\ TotalPages(n)' = (Total' + S - 1) \div S
  BY DEF TotalPages, HandlerPerPage
<1> HIDE DEF S
<1> QED
  BY <1>1, <1>3, <1>4, <1>5, CeilingIsMonotone

LEMMA RankGrows ==
  ASSUME TypeOK, [Next]_vars, NEW d
  PROVE  Rank(d) \in Nat /\ Rank(d)' \in Nat /\ Rank(d) <= Rank(d)'
<1> DEFINE Before(H) == {e \in H : e <= d}
<1>1. IsFiniteSet(Hits) /\ IsFiniteSet(Hits') /\ Hits \subseteq Hits'
  BY TypeStep, HitsAreCounted, HitsAreCountedNext, HitsStay
<1>2. Before(Hits) \subseteq Before(Hits') /\ Before(Hits') \subseteq Hits'
  BY <1>1
<1>3. IsFiniteSet(Before(Hits')) /\ IsFiniteSet(Before(Hits))
      /\ Cardinality(Before(Hits)) <= Cardinality(Before(Hits'))
  <2>1. IsFiniteSet(Before(Hits'))
    BY <1>1, <1>2, FS_Subset
  <2> QED
    BY <1>2, <2>1, FS_Subset
<1>4. Cardinality(Before(Hits)) \in Nat /\ Cardinality(Before(Hits')) \in Nat
  BY <1>3, FS_CardinalityType
<1>5. Rank(d) = Cardinality(Before(Hits)) /\ Rank(d)' = Cardinality(Before(Hits'))
  BY DEF Rank
<1> QED
  BY <1>3, <1>4, <1>5

LEMMA ReadingInit == Init => Reading
  BY DEF Init, Reading, OnPromisedPage

\* The documents that others index leave the client's place as it is.
LEMMA ReadingWhileOthersStep ==
  ASSUME TypeOK, Reading, [Next]_vars, UNCHANGED clientVars
  PROVE  Reading'
<1>1. UNCHANGED <<perPage, page, wanted, seen>>
  BY DEF clientVars
<1>2. perPage \in PerPageParams /\ page \in Nat
  BY SearchAssumption DEF TypeOK
<1>3. OnPromisedPage'
  <2>1. TotalPages(perPage) \in Nat /\ TotalPages(perPage) <= TotalPages(perPage)'
    <3>1. PICK n \in PerPageParams : n = perPage
      BY <1>2
    <3>2. TotalPages(n) \in Nat /\ TotalPages(n) <= TotalPages(n)'
      BY PagesGrow
    <3>3. TotalPages(n)' = TotalPages(perPage)'
      BY <1>1, <3>1 DEF TotalPages, HandlerPerPage
    <3> QED
      BY <3>1, <3>2, <3>3
  <2>2. TotalPages(perPage)' \in Int
    <3>1. Total' \in Nat
      BY TypeStep, HitsAreCountedNext
    <3>2. HandlerPerPage(perPage)' \in Nat \ {0}
      BY <1>1, <1>2, SearchAssumption DEF HandlerPerPage
    <3>3. Total' + HandlerPerPage(perPage)' - 1 \in Nat
      BY <3>1, <3>2
    <3> QED
      BY <3>2, <3>3, DivIs DEF TotalPages
  <2>3. page > 0 => page = 1 \/ page <= TotalPages(perPage)
    BY DEF Reading, OnPromisedPage
  <2>4. page' > 0 => page' = 1 \/ page' <= TotalPages(perPage)'
    BY <1>1, <1>2, <2>1, <2>2, <2>3
  <2> QED
    BY <2>4 DEF OnPromisedPage
<1>4. ASSUME index' = "explicit", NEW d \in wanted
      PROVE  d \in seen \/ Rank(d)' > IF page = 0 THEN Reach(perPage) ELSE (page - 1) * Size(perPage)
  <2>1. index = "explicit" \/ index = "absent"
    BY <1>4 DEF Next, Worker, HealthCheck, CheckIndex, CreateIndex, BulkIndex, CrashAndRestart,
      GetPage, Outage, vars, indexVars
  <2>2. index = "explicit"
    BY <1>4, <2>1 DEF TypeOK
  <2> DEFINE limit == IF page = 0 THEN Reach(perPage) ELSE (page - 1) * Size(perPage)
  <2>3. d \in seen \/ Rank(d) > limit
    BY <1>4, <2>2 DEF Reading
  <2>4. limit \in Int
    <3>1. Size(perPage) \in Nat \ {0} /\ Window \in Nat
      BY <1>2, SizeIs, SearchAssumption
    <3>2. Reach(perPage) \in Int
      BY <3>1, DivIs DEF Reach
    <3>3. (page - 1) * Size(perPage) \in Int
      BY <1>2, <3>1
    <3> QED
      BY <3>2, <3>3
  <2>5. Rank(d) \in Nat /\ Rank(d)' \in Nat /\ Rank(d) <= Rank(d)'
    BY RankGrows
  <2> HIDE DEF limit
  <2>6. d \in seen \/ Rank(d)' > limit
    BY <2>3, <2>4, <2>5
  <2> QED
    BY <2>6 DEF limit
<1>5. Reach(perPage)' = Reach(perPage) /\ Size(perPage)' = Size(perPage)
  BY <1>1 DEF Reach, Size, ClientPageSize, HandlerPerPage
<1> QED
  BY <1>1, <1>3, <1>4, <1>5 DEF Reading

\* A page that is read shows the hits from behind the page before up to its own
\* last place, and the last page has the last hit, or touches the window.
LEMMA ReadingPage ==
  ASSUME TypeOK, Reading, GetPage
  PROVE  Reading'
<1> DEFINE S == Size(perPage)
           T == TotalPages(perPage)
<1>1. page \in Nat \ {0} /\ perPage \in PerPageParams /\ docs \subseteq Docs
  BY SearchAssumption DEF TypeOK, GetPage
<1>2. UNCHANGED <<up, index, docs, perPage>>
  BY DEF GetPage, indexVars
<1>3. Hits' = Hits /\ Total' = Total /\ T' = T /\ S' = S /\ Reach(perPage)' = Reach(perPage)
  BY <1>2 DEF Hits, Total, TotalPages, Reach, Size, ClientPageSize, HandlerPerPage
<1>4. /\ Total \in Nat /\ Window \in Nat
      /\ Total = Cardinality(Hits) \/ Total = Window
  BY <1>1, HitsAre, SearchAssumption
<1>5. S \in Nat \ {0} /\ T \in Nat /\ Total <= T * S
  BY <1>1, <1>4, SizeIs, PagesAre, SearchAssumption
<1>6. Reach(perPage) \in Nat /\ Reach(perPage) <= Window
  BY <1>4, <1>5, DivIs DEF Reach
<1>7. (page - 1) * S \in Nat /\ From(page, perPage) = (page - 1) * S
  BY <1>1, PageRead DEF Reading
<1>8. (page - 1) * S = page * S - S /\ page * S \in Int
  BY <1>1, <1>5, NextPage
<1>9. /\ wanted' = IF page = 1 THEN docs ELSE wanted
      /\ seen' = seen \cup Messages(page, perPage)
      /\ page' = IF page < T THEN page + 1 ELSE 0
  BY DEF GetPage
<1> HIDE DEF S, T
<1>10. OnPromisedPage'
  <2>1. page' > 0 => page' <= T
    BY <1>1, <1>5, <1>9
  <2>2. T' = TotalPages(perPage)'
    BY DEF T
  <2> QED
    BY <1>3, <2>1, <2>2 DEF OnPromisedPage
<1>11. ASSUME index = "explicit", NEW d \in wanted', d \notin seen'
       PROVE  Rank(d) > IF page' = 0 THEN Reach(perPage) ELSE (page' - 1) * S
  <2>1. d \in Hits
    BY <1>9, <1>11 DEF Hits, TypeOK
  <2>2. Rank(d) \in 0..Cardinality(Hits) /\ Rank(d) >= 1
    BY <1>1, <2>1, RankIs
  <2>3. Cardinality(Hits) \in Nat
    BY <1>1, HitsAreCounted
  <2>4. Rank(d) > (page - 1) * S
    <3>1. CASE page = 1
      BY <1>5, <2>2, <2>3, <3>1
    <3>2. CASE page # 1
      <4>1. d \in wanted /\ d \notin seen
        BY <1>9, <1>11, <3>2
      <4> QED
        BY <1>1, <1>11, <4>1 DEF Reading, S
    <3> QED
      BY <3>1, <3>2
  <2>5. d \notin Messages(page, perPage)
    BY <1>9, <1>11
  <2>6. Rank(d) \notin ((page - 1) * S + 1)..((page - 1) * S + S)
    BY <1>7, <2>1, <2>5 DEF Messages, S
  <2>7. Rank(d) > page * S
    BY <1>5, <1>7, <1>8, <2>2, <2>3, <2>4, <2>6
  <2>8. CASE page < T
    <3>1. page' = page + 1
      BY <1>9, <2>8
    <3>2. page' # 0 /\ page' - 1 = page
      BY <1>1, <3>1
    <3> QED
      BY <2>7, <3>2
  <2>9. CASE ~(page < T)
    <3>1. page' = 0
      BY <1>9, <2>9
    <3>2. T * S <= page * S /\ T * S \in Int
      BY <1>1, <1>5, <2>9, ProductIsMonotone
    <3>3. Total = Window
      BY <1>4, <1>5, <1>8, <2>2, <2>3, <2>7, <3>2
    <3> QED
      BY <1>4, <1>5, <1>6, <1>8, <2>2, <2>3, <2>7, <3>1, <3>2, <3>3
  <2> QED
    BY <2>8, <2>9
<1>12. ASSUME NEW d
       PROVE  Rank(d)' = Rank(d)
  BY <1>3 DEF Rank
<1>13. S' = Size(perPage)'
  BY DEF S
<1> QED
  BY <1>2, <1>3, <1>10, <1>11, <1>12, <1>13 DEF Reading

LEMMA ReadingStep == TypeOK /\ Reading /\ [Next]_vars => Reading'
<1> SUFFICES ASSUME TypeOK, Reading, [Next]_vars
             PROVE  Reading'
  OBVIOUS
<1>1. GetPage \/ UNCHANGED clientVars
  BY DEF Next, Worker, HealthCheck, CheckIndex, CreateIndex, BulkIndex, CrashAndRestart,
    Outage, vars, clientVars
<1> QED
  BY <1>1, ReadingPage, ReadingWhileOthersStep

\* A client that reads to the last page has got every message that was there
\* when it began, up to the window, whatever is indexed meanwhile (Search,
\* totalPages).
THEOREM ReadersMissNothing == Spec => []NoneMissed
<1>1. TypeOK /\ Reading => NoneMissed
  <2> SUFFICES ASSUME TypeOK, Reading, page = 0, index # "dynamic", NEW d \in wanted
               PROVE  d \in seen \/ Rank(d) > Reach(perPage)
    BY DEF NoneMissed
  <2>1. index = "explicit"
    BY DEF TypeOK
  <2> QED
    BY <2>1 DEF Reading
<1>2. Spec => []TypeOK
  BY TypeCorrect
<1> QED
  BY ReadingInit, ReadingStep, <1>1, <1>2, PTL DEF Spec

===============================================================================
