----------------------------- MODULE Dashboard -----------------------------
(***************************************************************************)
(* What is read of the events while they are inserted, unlinked and purged *)
(* (detection/api, common/admin_views.py): a client that walks the pages of *)
(* the event list, and the endpoint cards, which take several statements   *)
(* each.                                                                   *)
(***************************************************************************)
EXTENDS Retention

CONSTANTS
  PageSize,
  BucketSize, Buckets,    \* of the sparkline, whose window is their product
  MaxReads                \* bound

ASSUME DashboardAssumption ==
  /\ PageSize \in Nat \ {0} /\ BucketSize \in Nat \ {0} /\ Buckets \in Nat
  /\ MaxReads \in Nat

VARIABLES
  walk,    \* a client walking the pages of the event list
  cards,   \* a request for the endpoint cards
  reads

vars == <<retention, walk, cards, reads>>

-----------------------------------------------------------------------------
OutboundDirections == {"outbound", "wiregraph_egress", "egress"}

\* Mutant: the bodies of responses count as calls.
OutboundEventsAll == {i \in table : log[i].direction \in OutboundDirections}

\* The interceptor's rows, by the name they have and the one they had.
IsEgress(i) == log[i].direction \in {"egress", "wiregraph_egress"}

\* _outbound_events
OutboundEvents == {i \in table : /\ log[i].direction \in OutboundDirections
                                 /\ ~(log[i].direction = "outbound" /\ Link(i) = NoLink)}

Key(i) == [service |-> Link(i), endpoint |-> log[i].endpoint]

\* The rows of a card.
EventsOf(key) == {i \in OutboundEvents : Key(i) = key}

Timestamps(rows) == {log[i].timestamp : i \in rows}

OutcomeRank == [expected |-> 0, acceptable |-> 1, suspicious |-> 2, prohibited |-> 3]

\* Mutant: the outcomes are compared as strings.
WorstByName(outcomes) ==
  IF outcomes = {} THEN "expected"
  ELSE LET rank == [acceptable |-> 0, expected |-> 1, prohibited |-> 2, suspicious |-> 3]
       IN  CHOOSE o \in outcomes : \A other \in outcomes : rank[other] <= rank[o]

\* Mutant: without a default, a card that lost its rows has no outcome.
WorstOrBlank(outcomes) ==
  IF outcomes = {} THEN ""
  ELSE CHOOSE o \in outcomes : \A other \in outcomes : OutcomeRank[other] <= OutcomeRank[o]

\* _worst_outcome
WorstOutcome(outcomes) ==
  IF outcomes = {} THEN "expected"
  ELSE CHOOSE o \in outcomes : \A other \in outcomes : OutcomeRank[other] <= OutcomeRank[o]

\* _hourly_buckets: the bucket of end is the last of Buckets + 1.  Rows that came
\* later than end may fall behind it and are left out.
WindowStart(end) == (end \div BucketSize) * BucketSize - Buckets * BucketSize
BucketOf(time, end) == (time - WindowStart(end)) \div BucketSize
HourlyBuckets(rows, end) ==
  [b \in 0..Buckets |-> Cardinality({i \in rows : /\ log[i].timestamp >= WindowStart(end)
                                                  /\ BucketOf(log[i].timestamp, end) = b})]

\* One row of the grouped query, which becomes a card.
Group(key) ==
  LET rows == EventsOf(key)
  IN  [key |-> key, count |-> Cardinality(rows), first |-> Min(Timestamps(rows)),
       last |-> Max(Timestamps(rows)), assets |-> {}, worst |-> "expected", sparkline |-> <<>>]

NoCards == [at |-> "idle", todo |-> {}, done |-> {}, start |-> <<>>]
NoWalk == [at |-> "idle", page |-> 1, count |-> 0, seen |-> {},
           start |-> {}, begun |-> 0, counted |-> 0, late |-> FALSE]

TypeOK ==
  /\ RetentionTypeOK
  /\ walk.at \in {"idle", "count", "slice", "done"}
  /\ walk.page \in Nat /\ walk.count \in Nat
  /\ walk.seen \cup walk.start \subseteq DOMAIN log
  /\ cards.at \in {"idle", "reading", "outcomes", "sparkline"}
  /\ \A card \in cards.todo \cup cards.done :
       /\ card.count \in Nat \ {0} /\ card.first \in 0..card.last /\ card.last \in 0..clock
       /\ card.worst \in Outcomes
  /\ DOMAIN cards.start \subseteq DOMAIN log
  /\ reads \in Nat

Init == RetentionInit /\ walk = NoWalk /\ cards = NoCards /\ reads = 0

-----------------------------------------------------------------------------
CardsDone == cards.at = "reading" /\ cards.todo = {}

\* list_endpoint_nodes, and get_endpoint_node for one of the keys: the grouped query.
OpenCards(keys) ==
  /\ cards.at = "idle" \/ CardsDone
  /\ reads < MaxReads
  /\ reads' = reads + 1
  /\ cards' = [NoCards EXCEPT !.at = "reading", !.todo = {Group(key) : key \in keys},
                              !.start = [i \in {j \in OutboundEvents : Key(j) \in keys} |-> Key(i)]]
  /\ UNCHANGED <<retention, walk>>

ListCards == OpenCards({Key(i) : i \in OutboundEvents})
RetrieveCard(i) == i \in OutboundEvents /\ OpenCards({Key(i)})

\* _build_node: of a card, the assets are read,
ReadAssets ==
  /\ cards.at = "reading"
  /\ \E card \in cards.todo :
       cards' = [cards EXCEPT !.at = "outcomes", !.todo = @ \ {card},
                   !.done = @ \cup {[card EXCEPT !.assets = {log[i].asset : i \in EventsOf(card.key)}]}]
  /\ UNCHANGED <<retention, walk, reads>>

\* the outcomes (the card whose sparkline is missing is the one being built),
ReadOutcomes ==
  /\ cards.at = "outcomes"
  /\ \E card \in cards.done :
       LET worst == WorstOutcome({log[i].outcome : i \in EventsOf(card.key)})
       IN  /\ card.sparkline = <<>>
           /\ cards' = [cards EXCEPT !.at = "sparkline",
                          !.done = (@ \ {card}) \cup {[card EXCEPT !.worst = worst]}]
  /\ UNCHANGED <<retention, walk, reads>>

\* and the sparkline.
ReadSparkline ==
  /\ cards.at = "sparkline"
  /\ \E card \in cards.done :
       LET line == HourlyBuckets(EventsOf(card.key), card.last)
       IN  /\ card.sparkline = <<>>
           /\ cards' = [cards EXCEPT !.at = "reading",
                          !.done = (@ \ {card}) \cup {[card EXCEPT !.sparkline = line]}]
  /\ UNCHANGED <<retention, walk, reads>>

-----------------------------------------------------------------------------
\* order_by("-timestamp")[low:high]: of the rows of one timestamp, whose positions are
\* newer + 1 to newer + their number, any may be at those that are in the slice.
Slices(rows, low, high) ==
  {page \in SUBSET rows : \A i \in rows :
     LET newer == Cardinality({j \in rows : log[j].timestamp > log[i].timestamp})
         same(S) == {j \in S : log[j].timestamp = log[i].timestamp}
         positions == (newer + 1)..(newer + Cardinality(same(rows)))
     IN  Cardinality(same(page)) = Cardinality(positions \cap ((low + 1)..high))}

\* DataEventViewSet.list.  Its filters, which are on columns that do not change, are
\* left out.
OpenList ==
  /\ walk.at \in {"idle", "done"} /\ reads < MaxReads
  /\ reads' = reads + 1
  /\ walk' = [NoWalk EXCEPT !.at = "count", !.start = table, !.begun = Len(log)]
  /\ UNCHANGED <<retention, cards>>

\* The paginator counts the rows; a page behind the last is not found.
CountPage ==
  LET count == Cardinality(table)
  IN  /\ walk.at = "count"
      /\ walk' = IF walk.page > 1 /\ (walk.page - 1) * PageSize >= count
                 THEN [walk EXCEPT !.at = "done"]
                 ELSE [walk EXCEPT !.at = "slice", !.count = count, !.counted = Len(log)]
      /\ UNCHANGED <<retention, cards, reads>>

\* Mutant: the next page starts one row further.
SlicePageOff ==
  LET low == (walk.page - 1) * (PageSize + 1)
      top == Min({walk.page * PageSize, walk.count})
  IN  /\ walk.at = "slice"
      /\ \E page \in Slices(table, low, top) :
           walk' = [walk EXCEPT
                      !.seen = @ \cup page,
                      !.late = @ \/ (top = walk.count /\ Len(log) > walk.counted),
                      !.at = IF top = walk.count THEN "done" ELSE "count",
                      !.page = @ + 1]
      /\ UNCHANGED <<retention, cards, reads>>

\* ... and then takes the slice; whether there is a next page follows from the count.
SlicePage ==
  LET low == (walk.page - 1) * PageSize
      top == Min({walk.page * PageSize, walk.count})
  IN  /\ walk.at = "slice"
      /\ \E page \in Slices(table, low, top) :
           walk' = [walk EXCEPT
                      !.seen = @ \cup page,
                      !.late = @ \/ (top = walk.count /\ Len(log) > walk.counted),
                      !.at = IF top = walk.count THEN "done" ELSE "count",
                      !.page = @ + 1]
      /\ UNCHANGED <<retention, cards, reads>>

Next ==
  \/ RetentionNext /\ UNCHANGED <<walk, cards, reads>>
  \/ ListCards \/ ReadAssets \/ ReadOutcomes \/ ReadSparkline
  \/ \E i \in table : RetrieveCard(i)
  \/ OpenList
  \/ CountPage \/ SlicePage

Spec == Init /\ [][Next]_vars

-----------------------------------------------------------------------------
\* api/views.py:45 with page-number pagination: a walk of the event list from the
\* first page to the last shows every row that is there all the time, but for three
\* reasons: a row of the same timestamp, between which the order has no tie-break; a
\* row not older than it that was purged meanwhile, so that the pages moved up; a
\* row inserted between the count and the slice of the last page.
WalkMissesForAReason ==
  walk.at = "done" =>
    \A i \in walk.start \cap table :
      LET others == {j \in DOMAIN log \ {i} : j \in walk.start \/ j > walk.begun}
      IN  \/ i \in walk.seen
          \/ walk.late
          \/ \E j \in others : log[j].timestamp = log[i].timestamp
          \/ \E j \in others \ table : log[j].timestamp >= log[i].timestamp

\* selectors.py:86-109, 189-265: whatever is inserted, unlinked or purged between the
\* statements, each outbound row that keeps its place is covered by a card of its
\* service and endpoint: by its assets, its times, its bucket of the sparkline, and
\* an outcome that is no milder.
CardsCoverStableRows ==
  CardsDone =>
    \A i \in DOMAIN cards.start :
      i \in table /\ Key(i) = cards.start[i] =>
        \E card \in cards.done :
          /\ card.key = Key(i)
          /\ log[i].asset \in card.assets
          /\ log[i].timestamp \in card.first..card.last
          /\ OutcomeRank[log[i].outcome] <= OutcomeRank[card.worst]
          /\ log[i].timestamp >= WindowStart(card.last) =>
               card.sparkline[BucketOf(log[i].timestamp, card.last)] > 0

-----------------------------------------------------------------------------
\* _build_graph, for the days that hold the timestamps start..end: the weights of
\* its edges, by their ends and outcome, and the totals by outcome.
Edge(i) ==
  IF IsEgress(i)
  THEN [kind |-> "egress", from |-> log[i].asset, to |-> Link(i), outcome |-> log[i].outcome]
  ELSE [kind |-> log[i].direction, from |-> log[i].endpoint, to |-> log[i].asset,
        outcome |-> log[i].outcome]

GraphEvents(start, end) ==
  {i \in table : /\ log[i].timestamp \in start..end
                 /\ IsEgress(i) => Link(i) # NoLink}

Weight(edge, start, end) == Cardinality({i \in GraphEvents(start, end) : Edge(i) = edge})
Edges(start, end) == {Edge(i) : i \in GraphEvents(start, end)}

\* The endpoint a flow into a service is said to come from: that of an inbound row
\* of most of its requests.
Origins(asset, service, start, end) ==
  LET rids == {log[i].rid : i \in {j \in GraphEvents(start, end) :
                 IsEgress(j) /\ log[j].asset = asset /\ Link(j) = service}} \ {0}
      from(endpoint) == {rid \in rids : \E i \in GraphEvents(start, end) :
                           /\ log[i].direction = "inbound" /\ log[i].rid = rid
                           /\ log[i].endpoint = endpoint}
      endpoints == {log[i].endpoint : i \in GraphEvents(start, end)}
  IN  {e \in endpoints : from(e) # {} /\ \A f \in endpoints : Cardinality(from(f)) <= Cardinality(from(e))}

\* event_trace: the inbound rows, and what may be its outbound row: of several at
\* the latest time, any.
Correlated(i) == {j \in table \ {i} : log[i].rid # 0 /\ log[j].rid = log[i].rid}

TraceInbound(i) ==
  {j \in Correlated(i) \cup {i} : log[j].direction = "inbound"}

TraceOutbound(i) ==
  LET outbound == {j \in Correlated(i) : log[j].direction \in OutboundDirections}
  IN  IF log[i].direction # "inbound" THEN {i}
      ELSE {j \in outbound : \A k \in outbound : log[k].timestamp <= log[j].timestamp}

\* selectors.py:77-109, 139-176, admin_views.py:66-172: the three views of the same
\* rows agree.  The cards of a service have the events of the graph's edges into
\* it, and besides only the outbound rows of older versions that name it, which the
\* graph draws as rows of their endpoint; the graph leaves out nothing but calls
\* whose service was deleted; a row is in the trace of the call that its own trace
\* leads to; and a flow's origin is where the trace of one of its calls begins, if
\* any has a beginning.
ViewsAgree ==
  LET events(cardKeys) == SumFunction([key \in cardKeys |-> Group(key).count])
      weights(edges) == SumFunction([edge \in edges |-> Weight(edge, 0, clock)])
      keys == {Key(i) : i \in OutboundEvents}
      egress == {i \in table : IsEgress(i)}
      orphans == {i \in egress : Link(i) = NoLink}
      legacy(service) == {i \in table : log[i].direction = "outbound" /\ Link(i) = service}
  IN  /\ \A service \in {Link(i) : i \in OutboundEvents} \ {NoLink} :
           events({key \in keys : key.service = service})
             = weights({edge \in Edges(0, clock) : edge.kind = "egress" /\ edge.to = service})
               + Cardinality(legacy(service))
      /\ events({key \in keys : key.service = NoLink}) = Cardinality(orphans)
      /\ weights(Edges(0, clock)) = Cardinality(table \ orphans)
      /\ \A i \in table : \A j \in TraceOutbound(i) :
           log[i].direction = "inbound" => i \in TraceInbound(j)
      /\ \A i \in egress \ orphans :
           LET flow == {j \in egress : log[j].asset = log[i].asset /\ Link(j) = Link(i)}
               begins == {log[k].endpoint : k \in UNION {TraceInbound(j) : j \in flow}}
               origins == Origins(log[i].asset, Link(i), 0, clock)
           IN  origins \subseteq begins /\ (begins # {} => origins # {})

=============================================================================
