------------------------- MODULE CalendarScheduler -------------------------
(***************************************************************************)
(* CalendarScheduler: events are hashed by time into the days of a year,   *)
(* and the year is made longer or shorter with the number of events.  A    *)
(* calendar is a record c; c.days is indexed from 0.                       *)
(***************************************************************************)
EXTENDS EventKeys, SequencesExt

\* Init: nBuckets empty days of the given width; the search starts at
\* startPrio.
NewCalendar(nBuckets, width, startPrio, qSize, reverse) ==
    [days |-> [d \in 0 .. nBuckets - 1 |-> << >>],
     nBuckets |-> nBuckets, width |-> width,
     lastPrio |-> startPrio, lastBucket |-> (startPrio \div width) % nBuckets,
     bucketTop |-> (startPrio \div width + 1) * width,
     qSize |-> qSize, reverse |-> reverse]

CalendarEmpty(reverse) == NewCalendar(2, 1, 0, 0, reverse)

Hash(c, ts) == (ts \div c.width) % c.nBuckets

\* SetReverse: days in decreasing order, read from their end
Order(c, e, f) == IF c.reverse THEN Precedes(f, e) ELSE Precedes(e, f)
NextEvent(c, d) == IF c.reverse THEN Last(c.days[d]) ELSE Head(c.days[d])
Pop(c, d) == IF c.reverse THEN Front(c.days[d]) ELSE Tail(c.days[d])

DoInsert(c, e) ==
    LET d == Hash(c, e.ts)
        later == {i \in DOMAIN c.days[d] : Order(c, e, c.days[d][i])}
    IN  [c EXCEPT !.days[d] =
            InsertAt(@, IF later = {} THEN Len(@) + 1 ELSE Min(later), e)]

---------------------------------------------------------------------------
(* The next event                                                          *)

\* The day n steps after the last one, and where it ends in this year
Day(c, n) == (c.lastBucket + n) % c.nBuckets
Top(c, n) == c.bucketTop + n * c.width

\* The days of this year that have an event before they end
DueDays(c) ==
    {n \in DOMAIN c.days : c.days[Day(c, n)] # << >> /\ NextEvent(c, Day(c, n)).ts < Top(c, n)}

\* The day of the least event of all
LeastDay(c) ==
    CHOOSE d \in DOMAIN c.days :
        /\ c.days[d] # << >>
        /\ \A f \in DOMAIN c.days \ {d} :
            c.days[f] # << >> => Precedes(NextEvent(c, d), NextEvent(c, f))

CalendarPeekNext(c) ==
    IF DueDays(c) # {} THEN NextEvent(c, Day(c, Min(DueDays(c))))
    ELSE NextEvent(c, LeastDay(c))

DoRemoveNext(c) ==
    IF DueDays(c) # {}
    THEN LET n == Min(DueDays(c))
         IN  [c EXCEPT !.days[Day(c, n)] = Pop(c, Day(c, n)),
                       !.lastPrio = NextEvent(c, Day(c, n)).ts,
                       !.lastBucket = Day(c, n), !.bucketTop = Top(c, n)]
    ELSE LET d == LeastDay(c)
             ts == NextEvent(c, d).ts
         IN  [c EXCEPT !.days[d] = Pop(c, d), !.lastPrio = ts,
                       !.lastBucket = Hash(c, ts),
                       !.bucketTop = (ts \div c.width + 1) * c.width]

---------------------------------------------------------------------------
(* Resizing                                                                *)

NSamples(c) ==
    IF c.qSize <= 5 THEN c.qSize ELSE Min({5 + c.qSize \div 10, 25})

\* The calendars after 0, 1, ... removals, and the events these took
Drained(c) ==
    LET left[n \in 0 .. NSamples(c)] ==
            IF n = 0 THEN c ELSE DoRemoveNext(left[n - 1])
    IN  left

Samples(c) == [n \in 1 .. NSamples(c) |-> CalendarPeekNext(Drained(c)[n - 1])]

InsertAll(c, s) ==
    LET filled[n \in 0 .. Len(s)] ==
            IF n = 0 THEN c ELSE DoInsert(filled[n - 1], s[n])
    IN  filled[Len(s)]

\* Fault: the state of the search is not restored
SampledMoved(c) == InsertAll(Drained(c)[NSamples(c)], Samples(c))

\* The first events are taken out, put back, and the search is where it was.
Sampled(c) ==
    [InsertAll(Drained(c)[NSamples(c)], Samples(c)) EXCEPT
        !.lastBucket = c.lastBucket, !.bucketTop = c.bucketTop, !.lastPrio = c.lastPrio]

Total(s) ==
    LET sum[n \in 0 .. Len(s)] == IF n = 0 THEN 0 ELSE sum[n - 1] + s[n]
    IN  sum[Len(s)]

\* Three times the sum of the separations that are not above twice the average
CalculateNewWidth(c) ==
    LET ts == [n \in 1 .. NSamples(c) |-> Samples(c)[n].ts]
        diffs == [n \in 1 .. NSamples(c) - 1 |-> ts[n + 1] - ts[n]]
        twiceAvg == (Total(diffs) \div (NSamples(c) - 1)) * 2
        near == [n \in DOMAIN diffs |-> IF diffs[n] <= twiceAvg THEN diffs[n] ELSE 0]
    IN  IF c.qSize < 2 THEN 1 ELSE Max({1, 3 * Total(near)})

\* The events of the first days of old go into new.
Refilled(new, old) ==
    LET filled[d \in 0 .. old.nBuckets] ==
            IF d = 0 THEN new ELSE InsertAll(filled[d - 1], old.days[d - 1])
    IN  filled[old.nBuckets]

Resize(c, nBuckets) ==
    LET old == IF c.qSize < 2 THEN c ELSE Sampled(c)
    IN  Refilled(NewCalendar(nBuckets, CalculateNewWidth(c), old.lastPrio,
                             c.qSize, c.reverse), old)

ResizeUp(c) ==
    IF c.qSize > c.nBuckets * 2 /\ c.nBuckets < 32768
    THEN Resize(c, c.nBuckets * 2) ELSE c

ResizeDown(c) ==
    IF c.qSize < c.nBuckets \div 2 THEN Resize(c, c.nBuckets \div 2) ELSE c

---------------------------------------------------------------------------
(* The operations                                                          *)

CalendarInsert(c, e) == ResizeUp([DoInsert(c, e) EXCEPT !.qSize = @ + 1])

CalendarRemoveNext(c) == ResizeDown([DoRemoveNext(c) EXCEPT !.qSize = @ - 1])

CalendarRemove(c, e) ==
    LET d == Hash(c, e.ts)
        i == CHOOSE n \in DOMAIN c.days[d] : c.days[d][n].uid = e.uid
    IN  ResizeDown([c EXCEPT !.days[d] = RemoveAt(@, i), !.qSize = @ - 1])

CalendarContents(c) == UNION {Range(c.days[d]) : d \in DOMAIN c.days}
=============================================================================
