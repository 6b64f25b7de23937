--------------------------- MODULE CalendarQueue ---------------------------
(***************************************************************************)
(* The calendar queue of multi_thread/src/calqueue.c, in which each fiber  *)
(* of the simulation keeps its future events.                              *)
(*                                                                         *)
(* Times are integers, Unit of them to 1.0.  cwidth is the fraction        *)
(* num/den of them (the code computes it in double, here it is exact) and  *)
(* buckettop, always an odd multiple of cwidth/2, is kept as that multiple *)
(* `top'.  A width of 0 or NaN is num = 0: the conversion of time/cwidth   *)
(* to int then gives INT_MIN, bucket 0, and no time is below buckettop.    *)
(* An event is its time: payloads are left out.                            *)
(*                                                                         *)
(* A put or a get is one step up to the test for a resize.  The loops of   *)
(* resize and of the new_width it calls are a step for each round; until   *)
(* they are over (pc = "user") no other call is made.                      *)
(***************************************************************************)
EXTENDS Integers, Sequences, FiniteSets

CONSTANTS Unit,
          CALQSPACE, MAXNBUCKETS,
          Time,      \* the times of events
          MaxEvents, \* bound on the events in the queue
          MaxTop     \* bound on how far buckettop may have advanced

\* MAXNBUCKETS is a power of two (32768) greater than 1: its factors but 1 are even.
ASSUME CalendarAssumption ==
    /\ Unit \in Nat \ {0} /\ Time \subseteq Nat /\ 0 \in Time /\ MaxEvents \in Nat
    /\ MaxTop \in Nat
    /\ MAXNBUCKETS \in Nat /\ MAXNBUCKETS >= 2
    /\ \A m, n \in 1..MAXNBUCKETS :
         m * n = MAXNBUCKETS /\ n > 1 => \E k \in 1..MAXNBUCKETS : n = 2 * k
    /\ CALQSPACE \in Nat /\ 2 * MAXNBUCKETS <= CALQSPACE

VARIABLES q,       \* the calqueue
          pc,      \* "user", or how far the resize of the last call is
          newsize, \* resize: its argument
          saved,   \* new_width: nsamples, and lastbucket, lastprio and buckettop to restore
          temp,    \* new_width: the events taken out
          back,    \* new_width: how many of them were put back
          small,   \* new_width: sum and number of the separations that are not large
          old,     \* resize: the old calendar, less the events that were copied
          held,    \* held[t]: how many events of time t were put in and not yet returned
          got      \* the time of the event calqueue_get returned last, -1 before

widthVars == <<saved, temp, back, small>>
calendarVars == <<q, pc, newsize, widthVars, old, held, got>>

-----------------------------------------------------------------------------
\* C truncates a quotient, so one by a negative width is never positive.
VirtualBucket(w, t) ==
    CASE w.num > 0 -> (t * w.den) \div w.num
      [] w.num = 0 -> 0
      [] w.num < 0 -> -((t * w.den) \div (-w.num))

ActualBucket(n, nbucks) == IF n >= 0 THEN n % nbucks ELSE -((-n) % nbucks)

Bucket(c, t) == ActualBucket(VirtualBucket(c.cwidth, t), c.nbuckets)

localinit(qbase, nbucks, bwidth, startprio) ==
    LET n == VirtualBucket(bwidth, startprio)
    IN  [firstsub |-> qbase, nbuckets |-> nbucks, cwidth |-> bwidth, qsize |-> 0,
         calendar |-> [b \in 0..(nbucks - 1) |-> <<>>],
         lastprio |-> startprio, lastbucket |-> ActualBucket(n, nbucks),
         top |-> IF bwidth.num = 0 THEN 0 ELSE 2 * n + 3]

UnitWidth == [num |-> Unit, den |-> 1]

calqueue_init == localinit(0, 2, UnitWidth, 0)

\* The new node goes in front of the first one with a later time.
Position(s, t) ==
    CHOOSE k \in 1..(Len(s) + 1) :
        /\ k <= Len(s) => s[k] > t
        /\ \A j \in 1..(k - 1) : s[j] <= t

\* Variant: the new node goes to the tail of its bucket.
InsertSorted_Append(s, t) == Append(s, t)

InsertSorted(s, t) ==
    LET k == Position(s, t)
    IN  [j \in 1..(Len(s) + 1) |-> IF j < k THEN s[j] ELSE IF j = k THEN t ELSE s[j - 1]]

\* calqueue_put up to the test for a resize.  A negative bucket is a cell before
\* the calendar, where nothing will look for the event.
Place(c, t) ==
    LET b == Bucket(c, t)
    IN  [c EXCEPT !.qsize = c.qsize + 1,
                  !.calendar = IF b < 0 THEN c.calendar
                               ELSE [c.calendar EXCEPT ![b] = InsertSorted(c.calendar[b], t)]]

\* The k-th bucket the scan of calqueue_deq looks at, and whether it stops there.
Scanned(c, k) == (c.lastbucket + k) % c.nbuckets

\* buckettop after k more buckets.
Advanced(c, k) == IF c.cwidth.num = 0 THEN c.top ELSE c.top + 2 * k

\* Variant: the head of the bucket is taken whatever its year.
Hit_AnyYear(c, k) == c.calendar[Scanned(c, k)] # <<>>

Hit(c, k) ==
    LET s == c.calendar[Scanned(c, k)]
    IN  s # <<>> /\ 2 * Head(s) * c.cwidth.den < Advanced(c, k) * c.cwidth.num

WithoutHead(cal, b) == [cal EXCEPT ![b] = Tail(cal[b])]

\* calendar_process up to the test for a resize.
TakeFrom(c, b, t) ==
    [c EXCEPT !.lastbucket = b, !.lastprio = Head(c.calendar[b]), !.qsize = c.qsize - 1,
              !.top = t, !.calendar = WithoutHead(c.calendar, b)]

Full(cal) == {b \in DOMAIN cal : cal[b] # <<>>}

\* The bucket the direct search finds: the first of those with the lowest head.
Direct(c) ==
    CHOOSE b \in Full(c.calendar) :
      \A d \in Full(c.calendar) :
        \/ Head(c.calendar[b]) < Head(c.calendar[d])
        \/ Head(c.calendar[b]) = Head(c.calendar[d]) /\ b <= d

\* calqueue_deq up to the test for a resize.  After a scan in vain buckettop has
\* advanced by nbuckets widths, and the direct search leaves it there.
Dequeue(c) ==
    LET hits == {k \in 0..(c.nbuckets - 1) : Hit(c, k)}
        k == CHOOSE h \in hits : \A j \in hits : h <= j
    IN  IF hits # {} THEN TakeFrom(c, Scanned(c, k), Advanced(c, k))
                     ELSE TakeFrom(c, Direct(c), Advanced(c, c.nbuckets))

-----------------------------------------------------------------------------
NoSave == [nsamples |-> 0, lastbucket |-> 0, lastprio |-> 0, top |-> 0]
NoSum  == [sum |-> 0, count |-> 0]
NoOld  == [firstsub |-> 0, calendar |-> <<>>]

CalendarInit ==
    /\ q = calqueue_init
    /\ pc = "user" /\ newsize = 0
    /\ saved = NoSave /\ temp = <<>> /\ back = 0 /\ small = NoSum
    /\ old = NoOld
    /\ held = [t \in Time |-> 0]
    /\ got = -1

\* The call returns, or goes on with resize(q, size).
Resizes(needed, size) ==
    \/ ~needed /\ UNCHANGED <<pc, newsize>>
    \/ needed /\ pc' = "new_width" /\ newsize' = size

\* Variant: the calendar is not made larger.
Doubled_Same(n) == n

Doubled(n) == 2 * n

\* calqueue_put.  The simulation never schedules an event before the one it is
\* processing.  A behaviour ends with a negative width: the next access is outside
\* the calendar.
Put(t) ==
    /\ pc = "user" /\ q.cwidth.num >= 0
    /\ q.qsize < MaxEvents /\ q.top <= MaxTop
    /\ t >= q.lastprio
    /\ q' = Place(q, t)
    /\ held' = [held EXCEPT ![t] = @ + 1]
    /\ Resizes(q'.qsize > 2 * q.nbuckets /\ q.nbuckets < MAXNBUCKETS, Doubled(q.nbuckets))
    /\ UNCHANGED <<widthVars, old, got>>

\* calqueue_get: a resize comes before the return and does not change the answer.
Get ==
    /\ pc = "user" /\ q.cwidth.num >= 0
    /\ q.qsize > 0
    /\ q' = Dequeue(q)
    /\ got' = q'.lastprio
    /\ held' = [held EXCEPT ![q'.lastprio] = @ - 1]
    /\ Resizes(q'.qsize < q.nbuckets \div 2 - 2, q.nbuckets \div 2)
    /\ UNCHANGED <<widthVars, old>>

nsamples(n) == IF n <= 5 THEN n ELSE IF 5 + n \div 10 > 25 THEN 25 ELSE 5 + n \div 10

\* Variant: the new calendar always starts at calq[0].
NewBase_Fixed(c) == 0

\* resize: the new array is at the other end of calq.
NewBase(c) == IF c.firstsub = 0 THEN CALQSPACE - newsize ELSE 0

\* resize goes on with the calendar c and its new width.
StartCopy(c, bwidth) ==
    /\ q' = localinit(NewBase(c), newsize, bwidth, c.lastprio)
    /\ old' = [firstsub |-> c.firstsub, calendar |-> c.calendar]
    /\ pc' = "copy"
    /\ saved' = NoSave /\ temp' = <<>> /\ back' = 0 /\ small' = NoSum
    /\ UNCHANGED <<newsize, held, got>>

\* new_width up to its first loop.
NewWidth ==
    /\ pc = "new_width"
    /\ \/ q.qsize < 2 /\ StartCopy(q, UnitWidth)
       \/ /\ q.qsize >= 2
          /\ saved' = [nsamples |-> nsamples(q.qsize), lastbucket |-> q.lastbucket,
                       lastprio |-> q.lastprio, top |-> q.top]
          /\ pc' = "sample"
          /\ UNCHANGED <<q, newsize, temp, back, small, old, held, got>>

\* An event is taken out.  resize_enabled is false, so this does not resize.
TakeSample ==
    /\ pc = "sample"
    /\ q' = Dequeue(q)
    /\ temp' = Append(temp, q'.lastprio)
    /\ pc' = IF Len(temp') = saved.nsamples THEN "put_back" ELSE "sample"
    /\ UNCHANGED <<newsize, saved, back, small, old, held, got>>

\* The separation of temp[i] is below twice the average.  (The sum of all
\* separations is that of the last event and the first.)
NotLarge(i) ==
    (temp[i] - temp[i - 1]) * (saved.nsamples - 1) < 2 * (temp[saved.nsamples] - temp[1])

\* An event is put back, and its separation counted if it is not large.
PutBack ==
    LET i == back + 1
    IN  /\ pc = "put_back" /\ back < saved.nsamples
        /\ q' = Place(q, temp[i])
        /\ back' = i
        /\ small' = IF i > 1 /\ NotLarge(i)
                    THEN [sum |-> small.sum + (temp[i] - temp[i - 1]), count |-> small.count + 1]
                    ELSE small
        /\ UNCHANGED <<pc, newsize, saved, temp, old, held, got>>

\* Variant: the event of the last sample stays the last one taken out.
Restored_LosesTime == [q EXCEPT !.lastbucket = saved.lastbucket, !.top = saved.top]

Restored == [q EXCEPT !.lastbucket = saved.lastbucket, !.lastprio = saved.lastprio,
                      !.top = saved.top]

\* The end of new_width: its answer is three times the mean of the separations.
SetWidth ==
    /\ pc = "put_back" /\ back = saved.nsamples
    /\ StartCopy(Restored, [num |-> 3 * small.sum, den |-> small.count])

\* Variant: the copy begins a bucket too low.
Uncopied_OffByOne(cal) == {b \in Full(cal) : b + 1 \in DOMAIN cal}

Uncopied(cal) == Full(cal)

\* The next event is copied, from the last bucket to the first.
CopyEvent(b) ==
    /\ pc = "copy"
    /\ b \in Uncopied(old.calendar) /\ \A d \in Uncopied(old.calendar) : d <= b
    /\ q' = Place(q, Head(old.calendar[b]))
    /\ old' = [old EXCEPT !.calendar = WithoutHead(old.calendar, b)]
    /\ UNCHANGED <<pc, newsize, widthVars, held, got>>

Copied ==
    /\ pc = "copy" /\ Uncopied(old.calendar) = {}
    /\ pc' = "user" /\ newsize' = 0 /\ old' = NoOld
    /\ UNCHANGED <<q, widthVars, held, got>>

resize == NewWidth \/ TakeSample \/ PutBack \/ SetWidth \/ Copied
          \/ \E b \in DOMAIN old.calendar : CopyEvent(b)

CalendarNext == resize \/ Get \/ \E t \in Time : Put(t)

CalendarSpec == CalendarInit /\ [][CalendarNext]_calendarVars

-----------------------------------------------------------------------------
\* Where the events of a calendar are, and where those of time t are.
Places(cal) == UNION {{b} \X (1..Len(cal[b])) : b \in DOMAIN cal}
PlacesOf(cal, t) == {p \in Places(cal) : cal[p[1]][p[2]] = t}

\* The calendar, the samples in hand and what is left of the old calendar hold the events
\* put in and not returned, and qsize counts the calendar's.
Conserved ==
    /\ \A t \in Time :
          held[t] = Cardinality(PlacesOf(q.calendar, t))
                    + Cardinality({i \in (back + 1)..Len(temp) : temp[i] = t})
                    + Cardinality(PlacesOf(old.calendar, t))
    /\ q.qsize = Cardinality(Places(q.calendar))

\* The bucket width new_width returns is one "that the buckets should have"
\* (calqueue.c:46): not negative, so that calqueue_put and calqueue_deq stay within
\* the calendar.
WidthNotNegative == q.cwidth.num >= 0

\* No event is lost or duplicated by a put, a get, the samples new_width takes or the
\* copies resize makes, as long as new_width returned no negative width: also when
\* events come out of order.
EventsConserved == WidthNotNegative => Conserved

\* Every bucket is in order of time and holds the events of its days only, under
\* the width the calendar has now, unless that is negative.
BucketsSorted ==
    WidthNotNegative =>
        \A b \in DOMAIN q.calendar :
            /\ \A j, k \in 1..Len(q.calendar[b]) : j < k => q.calendar[b][j] <= q.calendar[b][k]
            /\ \A j \in 1..Len(q.calendar[b]) : b = Bucket(q, q.calendar[b][j])

\* The cells of calq a calendar takes.
Cells(c) == {c.firstsub + b : b \in DOMAIN c.calendar}

\* A calendar fits into calq, also where it starts after a resize, and a resize copies
\* between two parts of calq that do not overlap.
CalendarsDisjoint ==
    /\ Cells(q) \cup Cells(old) \subseteq 0..(CALQSPACE - 1)
    /\ Cells(q) \cap Cells(old) = {} \/ pc # "copy"

\* The calqueue_put that copies an event never resizes the new calendar in turn, under
\* the loop of the first resize.
CopyNeverResizes == pc = "copy" => q.qsize <= 2 * q.nbuckets

\* The scan of calqueue_deq starts at the day of the last event taken out.
Positioned(c) ==
    c.cwidth.num > 0 => /\ c.lastbucket = Bucket(c, c.lastprio)
                        /\ c.top = 2 * VirtualBucket(c.cwidth, c.lastprio) + 3

NoneBefore(cal, t) == \A b \in DOMAIN cal : \A j \in 1..Len(cal[b]) : t <= cal[b][j]

\* The last event taken out, not counting samples.
Now == IF pc \in {"sample", "put_back"} THEN saved.lastprio ELSE q.lastprio

\* The position is that of the last event taken out and no event precedes that one, nor will
\* one after a resize; samples come out in order, and the width is not negative.
OnTime ==
    /\ WidthNotNegative /\ small.sum >= 0
    /\ pc # "put_back" => Positioned(q) /\ NoneBefore(q.calendar, q.lastprio)
    /\ NoneBefore(q.calendar, Now) /\ NoneBefore(old.calendar, Now)
    /\ \A i \in 1..Len(temp) : Now <= temp[i]
    /\ \A i, j \in 1..Len(temp) : i < j => temp[i] <= temp[j]
    /\ pc = "sample" => \A i \in 1..Len(temp) : temp[i] <= q.lastprio

\* An event is found by the direct search, which leaves buckettop where the scan ended.
DirectSearch ==
    (Get \/ TakeSample) /\ q.cwidth.num > 0 /\ \A k \in 0..(q.nbuckets - 1) : ~Hit(q, k)

\* The calendar starts at the place of the last event taken out, and only a direct search
\* may leave it: puts, scans and resizes, with their samples and copies, do not.
PositionKept == OnTime /\ [][OnTime => OnTime' \/ DirectSearch]_calendarVars

\* calqueue_get returns an event none of those in the queue precedes as long as the
\* calendar is at the place of the last event.  By PositionKept it is until an event is
\* found by the direct search: then a later one may come out first.
TakesMinimum ==
    [][Get /\ OnTime => \A t \in Time : held[t] > 0 => got' <= t]_calendarVars
=============================================================================
