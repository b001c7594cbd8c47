------------------------------ MODULE Listing ------------------------------
(***************************************************************************)
(* GET /customers, page after page, while other requests and imports       *)
(* write.  A page takes two commands the database answers in either order: *)
(* the items (skip, limit and sort) and the count of the matches.          *)
(*                                                                         *)
(* Of a customer there is left the value of the field the walk sorts by    *)
(* and whether it passes the filters of the query.                         *)
(***************************************************************************)
EXTENDS Integers, Sequences, FiniteSets, SequencesExt

CONSTANTS
  Customers,
  SortValues,    \* a set of integers
  MAX_PAGE_SIZE,
  None,
  MaxWrites      \* bound: writes during the walk

ASSUME CustomersAssumption == IsFiniteSet(Customers)
ASSUME PagesAssumption == MAX_PAGE_SIZE \in Nat \ {0}
ASSUME BoundsAssumption == SortValues \subseteq Int /\ MaxWrites \in Nat

VARIABLES
  docs,      \* [Customers -> document or None]
  query,     \* the request under way, None before the walk
  items,     \* the reply to its find, None until then
  total,     \* the reply to its count, None until then
  end,       \* how the walk ended: did the last page say so, did its meta
  writes,    \* writes so far
  listed,    \* history: how often the walk listed each customer
  stayed,    \* history: who matched, in the same place, since the walk began
  calm       \* history: the writes since the request, and since the walk, began

vars == <<docs, query, items, total, end, writes, listed, stayed, calm>>
history == <<listed, stayed, calm>>

Doc == [value : SortValues, matches : BOOLEAN]
Query == [page : Nat \ {0}, pageSize : 1 .. MAX_PAGE_SIZE, descending : BOOLEAN]
End == [short : BOOLEAN, lastPage : BOOLEAN]

ASSUME NoneAssumption == None \notin Query \cup End

\* What was written since: nothing, new documents only, or more than that.
Calm == {"quiet", "growing", "stormy"}

Matching == {c \in Customers : docs[c] # None /\ docs[c].matches}

Init ==
  /\ docs \in [Customers -> Doc \cup {None}]
  /\ query = None /\ items = None /\ total = None /\ end = None
  /\ writes = 0
  /\ listed = [c \in Customers |-> 0]
  /\ stayed = {}
  /\ calm = [request |-> "quiet", walk |-> "quiet"]

-----------------------------------------------------------------------------
AtMost(m, n) == IF m < n THEN m ELSE n
AtLeast(m, n) == IF m > n THEN m ELSE n

\* Mutant: pages are counted from 0.
clampPaginationFromZero(page, pageSize) ==
  LET size == AtMost(AtLeast(1, pageSize), MAX_PAGE_SIZE) IN
  [page |-> AtLeast(1, page), pageSize |-> size, skip |-> page * size]

\* Mutant: the pages before are taken to be as long as a page can be.
clampPaginationToMax(page, pageSize) ==
  [page |-> AtLeast(1, page),
   pageSize |-> AtMost(AtLeast(1, pageSize), MAX_PAGE_SIZE),
   skip |-> (AtLeast(1, page) - 1) * MAX_PAGE_SIZE]

clampPagination(page, pageSize) ==
  LET size == AtMost(AtLeast(1, pageSize), MAX_PAGE_SIZE) IN
  [page |-> AtLeast(1, page), pageSize |-> size,
   skip |-> (AtLeast(1, page) - 1) * size]

\* Mutant: a last page that is not full is not counted.
TotalPagesDown(n, pageSize) == n \div pageSize

\* Math.ceil(total / pageSize)
TotalPages(n, pageSize) == (n + pageSize - 1) \div pageSize

\* Every order the database may find the matches in: it breaks ties as it likes.
Sorted(descending) ==
  {s \in SetToSeqs(Matching) :
     \A i \in 1 .. Len(s) - 1 :
       LET v == docs[s[i]].value
           w == docs[s[i + 1]].value
       IN  IF descending THEN v >= w ELSE v <= w}

\* Mutant: the find has no limit.
PageUnlimited(s, at) == SubSeq(s, at.skip + 1, Len(s))

Page(s, at) == SubSeq(s, at.skip + 1, AtMost(at.skip + at.pageSize, Len(s)))

-----------------------------------------------------------------------------
(* The walk.  The validation of the query has let these through.           *)

AskFirst ==
  /\ query = None /\ end = None
  /\ \E size \in 1 .. MAX_PAGE_SIZE, descending \in BOOLEAN :
       query' = [page |-> 1, pageSize |-> size, descending |-> descending]
  /\ stayed' = Matching
  /\ calm' = [request |-> "quiet", walk |-> "quiet"]
  /\ UNCHANGED <<docs, items, total, end, writes, listed>>

Find ==
  /\ query # None /\ items = None
  /\ \E s \in Sorted(query.descending) :
       items' = Page(s, clampPagination(query.page, query.pageSize))
  /\ UNCHANGED <<docs, query, total, end, writes, history>>

Count ==
  /\ query # None /\ total = None
  /\ total' = Cardinality(Matching)
  /\ UNCHANGED <<docs, query, items, end, writes, history>>

Complete == query # None /\ items # None /\ total # None

\* What the reply says of the end: its page is not full, or is the last one.
Short == Len(items) < query.pageSize
LastPage == query.page >= TotalPages(total, query.pageSize)

Answered ==
  /\ Complete
  /\ items' = None /\ total' = None
  /\ listed' = [c \in Customers |-> listed[c] +
                  Cardinality({i \in 1 .. Len(items) : items[i] = c})]
  /\ UNCHANGED <<docs, writes, stayed>>

\* The client goes on while the reply leaves room for more.
AskNext ==
  /\ Answered
  /\ ~Short \/ ~LastPage
  /\ query' = [query EXCEPT !.page = @ + 1]
  /\ calm' = [calm EXCEPT !.request = "quiet"]
  /\ UNCHANGED end

Stop ==
  /\ Answered
  /\ Short \/ LastPage
  /\ query' = None
  /\ end' = [short |-> Short, lastPage |-> LastPage]
  /\ UNCHANGED calm

\* Either command fails: the request is answered with an error and sent again.
AskAgain ==
  /\ query # None
  /\ items' = None /\ total' = None
  /\ calm' = [calm EXCEPT !.request = "quiet"]
  /\ UNCHANGED <<docs, query, end, writes, listed, stayed>>

-----------------------------------------------------------------------------
(* The writes of others, one document each.                                *)

Write(c, d, weather) ==
  /\ query # None
  /\ writes < MaxWrites
  /\ writes' = writes + 1
  /\ docs' = [docs EXCEPT ![c] = d]
  /\ calm' = [k \in {"request", "walk"} |->
               IF calm[k] = "stormy" THEN "stormy" ELSE weather]
  /\ UNCHANGED <<query, items, total, end, listed>>

Create(c, d) ==
  /\ docs[c] = None
  /\ Write(c, d, "growing")
  /\ UNCHANGED stayed

Update(c, d) ==
  /\ docs[c] # None
  /\ Write(c, d, "stormy")
  /\ stayed' = stayed \ {c}

Delete(c) ==
  /\ docs[c] # None
  /\ Write(c, None, "stormy")
  /\ stayed' = stayed \ {c}

Next ==
  \/ AskFirst \/ Find \/ Count \/ AskNext \/ Stop \/ AskAgain
  \/ \E c \in Customers :
       \/ \E d \in Doc : Create(c, d) \/ Update(c, d)
       \/ Delete(c)

Spec == Init /\ [][Next]_vars

-----------------------------------------------------------------------------
\* Every variable has its type; who stayed still matches.
TypeOK ==
  /\ docs \in [Customers -> Doc \cup {None}]
  /\ query \in Query \cup {None}
  /\ items # None => items \in Seq(Customers) /\ Len(items) <= query.pageSize
  /\ total \in {None} \cup 0 .. Cardinality(Customers)
  /\ end \in End \cup {None}
  /\ writes \in 0 .. MaxWrites
  /\ listed \in [Customers -> Nat]
  /\ stayed \subseteq Matching
  /\ calm \in [{"request", "walk"} -> Calm]

NoTies(S) == \A c, d \in S : c # d => docs[c].value # docs[d].value

\* A walk nobody disturbed lists each match exactly once and nothing else,
\* whether it went by the length of the pages or by their meta: as long as the
\* customers differ in the field it sorts by.
QuietWalkIsExact ==
  end # None /\ calm.walk = "quiet" /\ NoTies(Matching) =>
    \A c \in Customers : listed[c] = IF c \in Matching THEN 1 ELSE 0

\* New customers may push others to a later page, where they are listed again;
\* a walk that goes on to a page that is not full misses none of those that
\* were there from the start.  (One that trusts the meta may: the count can
\* be older than the items.)
CreationsHideNothing ==
  end # None /\ calm.walk # "stormy" /\ end.short /\ NoTies(Matching) =>
    \A c \in stayed : listed[c] >= 1

\* If nothing was written between its two commands, a reply is consistent: its
\* page is full before the last page and empty after it, and not empty on it.
MetaAgrees ==
  Complete /\ calm.request = "quiet" =>
    LET pages == TotalPages(total, query.pageSize) IN
    /\ query.page < pages => Len(items) = query.pageSize
    /\ query.page > pages <=> items = <<>>
=============================================================================
