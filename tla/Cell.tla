-------------------------------- MODULE Cell --------------------------------
(***************************************************************************)
(* The simulated GSM cell of multi_thread/src: ProcessEvent of model.c and *)
(* the channels of channel.c, driven by the event loop of main_loop.       *)
(*                                                                         *)
(* Times are random variates, so the queue is a bag that returns any of    *)
(* its events; what a call costs in power and how it fades are floating    *)
(* point without effect on the control and are left out, as are counters   *)
(* nobody reads.  The busy channels are recorded three times: in the bits  *)
(* of channel_state, in a doubly linked list, and as a number.  The        *)
(* pointers of the list are modelled as such, the list walked from its     *)
(* head along prev.                                                        *)
(***************************************************************************)
EXTENDS Integers, FiniteSets, Bags

CONSTANTS CHANNELS_PER_CELL,
          BITS,            \* bits of an unsigned int
          COMPLETE_CALLS,
          NULL

Channel == 0..(CHANNELS_PER_CELL - 1)
Node    == 1..CHANNELS_PER_CELL  \* addresses of struct _channel
Bit     == 0..(BITS - 1)
Word    == 0..(2 * (CHANNELS_PER_CELL \div BITS + 1) - 1)

ASSUME CellAssumption ==
    /\ CHANNELS_PER_CELL \in Nat \ {0} /\ BITS \in Nat \ {0}
    /\ COMPLETE_CALLS \in Nat \ {0}
    /\ NULL \notin Node

VARIABLES queue,           \* the events in the calendar queue
          state,           \* "none" until INIT has been processed, then "cell"
          channel_counter, complete_calls,
          channel_state,   \* for each word the bits that are set
          channels,        \* head of the list
          next, prev, channel_id,
          heap,            \* allocated nodes
          ended            \* "no", or how main_loop was left

listVars == <<channel_state, channels, next, prev, channel_id, heap>>
vars == <<queue, state, channel_counter, complete_calls, listVars, ended>>

-----------------------------------------------------------------------------
InitEvent  == [type |-> "INIT", channel |-> -1]
StartEvent == [type |-> "START_CALL", channel |-> -1]
EndEvent(ch) == [type |-> "END_CALL", channel |-> ch]

CHECK_CHANNEL(i) == i % BITS \in channel_state[i \div BITS]
SET_CHANNEL(i) == channel_state' = [channel_state EXCEPT ![i \div BITS] = @ \cup {i % BITS}]

\* Variant: the bit is not reset.
RESET_CHANNEL_Dropped(i) == UNCHANGED channel_state

RESET_CHANNEL(i) == channel_state' = [channel_state EXCEPT ![i \div BITS] = @ \ {i % BITS}]

\* The list in the order of its walk: the n-th node after the head, or NULL.
Walk == LET w[n \in 0..CHANNELS_PER_CELL] ==
              IF n = 0 THEN channels
              ELSE IF w[n - 1] \in heap THEN prev[w[n - 1]] ELSE NULL
        IN  w

OnList == {Walk[n] : n \in DOMAIN Walk} \ {NULL}

-----------------------------------------------------------------------------
\* main_loop: the queue with its first event.  The memory of the bits is malloc'ed.
Init ==
    /\ queue = SetToBag({InitEvent})
    /\ state = "none"
    /\ channel_counter = 0 /\ complete_calls = 0
    /\ channel_state \in [Word -> {{}, Bit}]
    /\ channels = NULL
    /\ next = [c \in Node |-> NULL]
    /\ prev = [c \in Node |-> NULL]
    /\ channel_id = [c \in Node |-> -1]
    /\ heap = {}
    /\ ended = "no"

\* Variant: the bound of the loop is one word short.
ClearedWords_Short == 0..(CHANNELS_PER_CELL \div BITS - 1)

\* The loop that clears channel_state goes over half of what is allocated.
ClearedWords == 0..(CHANNELS_PER_CELL \div BITS)

ProcessInit ==
    /\ InitEvent \in DOMAIN queue
    /\ state' = "cell"
    /\ channel_counter' = CHANNELS_PER_CELL
    /\ complete_calls' = 0
    /\ channel_state' = [w \in Word |-> IF w \in ClearedWords THEN {} ELSE channel_state[w]]
    /\ queue' = (queue (-) SetToBag({InitEvent})) (+) SetToBag({StartEvent})
    /\ UNCHANGED <<channels, next, prev, channel_id, heap, ended>>

\* A new node c for channel i becomes the head of the list.
PushChannel(c, i) ==
    /\ heap' = heap \cup {c}
    /\ channel_id' = [channel_id EXCEPT ![c] = i]
    /\ prev' = [prev EXCEPT ![c] = channels]
    /\ next' = [d \in Node |-> IF d = c THEN NULL ELSE IF d = channels THEN c ELSE next[d]]
    /\ channels' = c

Free == {i \in Channel : ~CHECK_CHANNEL(i)}

\* allocation: the first channel whose bit is clear.
allocation(i) ==
    /\ \A j \in Free : i <= j
    /\ SET_CHANNEL(i)
    /\ \E c \in Node \ heap : (\A d \in Node \ heap : c <= d) /\ PushChannel(c, i)

\* Variant: a blocked call does not schedule the next arrival.
AfterBlocked_Stops == queue (-) SetToBag({StartEvent})

\* The call is blocked; the next one is scheduled all the same.
AfterBlocked == (queue (-) SetToBag({StartEvent})) (+) SetToBag({StartEvent})

\* The call takes a channel, or allocation finds none and aborts.
Admit ==
    IF Free # {}
    THEN \E i \in Free :
            /\ allocation(i)
            /\ queue' = (queue (-) SetToBag({StartEvent})) (+) SetToBag({EndEvent(i), StartEvent})
            /\ UNCHANGED ended
    ELSE ended' = "no channel free" /\ UNCHANGED <<queue, listVars>>

StartCall ==
    /\ StartEvent \in DOMAIN queue
    /\ \/ /\ channel_counter = 0
          /\ queue' = AfterBlocked
          /\ UNCHANGED <<channel_counter, listVars, ended>>
       \/ /\ channel_counter # 0
          /\ channel_counter' = channel_counter - 1
          /\ Admit
    /\ UNCHANGED <<state, complete_calls>>

\* Variant: the neighbour's prev is not updated.
UnlinkPrev_Dropped(c) == UNCHANGED prev

\* c->next->prev = c->prev
UnlinkPrev(c) ==
    prev' = [d \in Node |-> IF d = next[c] /\ c # channels THEN prev[c] ELSE prev[d]]

\* Node c leaves the list and is freed.  The head has no next.
Unlink(c) ==
    /\ channels' = IF c = channels THEN prev[c] ELSE channels
    /\ next' = [d \in Node |-> IF d # prev[c] THEN next[d]
                               ELSE IF c = channels THEN NULL ELSE next[c]]
    /\ UnlinkPrev(c)
    /\ heap' = heap \ {c}
    /\ UNCHANGED channel_id

\* deallocation: the first node of the walk with the channel's number.
Found(c, ch) == \E n \in DOMAIN Walk :
    /\ Walk[n] = c /\ c # NULL /\ channel_id[c] = ch
    /\ \A m \in DOMAIN Walk : m < n => channel_id[Walk[m]] # ch

deallocation(ch) ==
    IF \E c \in Node : Found(c, ch)
    THEN \E c \in Node : Found(c, ch) /\ Unlink(c) /\ RESET_CHANNEL(ch)
    ELSE UNCHANGED listVars

EndCall(ch) ==
    /\ EndEvent(ch) \in DOMAIN queue
    /\ queue' = queue (-) SetToBag({EndEvent(ch)})
    /\ channel_counter' = channel_counter + 1
    /\ complete_calls' = complete_calls + 1
    /\ deallocation(ch)
    /\ ended' = IF \A c \in Node : ~Found(c, ch) THEN "channel not found"
                ELSE IF complete_calls' = COMPLETE_CALLS THEN "done" ELSE ended
    /\ UNCHANGED state

\* One round of main_loop; calqueue_get may return NULL.
Round ==
    IF queue = EmptyBag
    THEN ended' = "no events" /\ UNCHANGED <<queue, state, channel_counter, complete_calls, listVars>>
    ELSE ProcessInit \/ StartCall \/ \E ch \in Channel : EndCall(ch)

Ended == ended # "no" /\ UNCHANGED vars

Next == (ended = "no" /\ Round) \/ Ended

Spec == Init /\ [][Next]_vars

\* The gaps between arrivals are random variates whose sum exceeds every bound,
\* so no event in the queue is overtaken for ever by later arrivals.
FairSpec ==
    /\ Spec
    /\ WF_vars(ended = "no" /\ Round)
    /\ \A ch \in Channel : WF_vars(ended = "no" /\ EndCall(ch))

-----------------------------------------------------------------------------
\* The END_CALL events in the queue for channel ch.
EndsPending(ch) == IF EndEvent(ch) \in DOMAIN queue THEN queue[EndEvent(ch)] ELSE 0

\* The three records of the busy channels agree: at every round the nodes on the list,
\* the bits of channel_state, the counter and the END_CALL events still to come name
\* the same channels, each once.  A call that ends can then always be found.
ChannelsAgree ==
    state = "cell" /\ ended \in {"no", "done"} =>
      LET busy == Channel \ Free
      IN  /\ {channel_id[c] : c \in OnList} = busy
          /\ Cardinality(OnList) = Cardinality(busy)
          /\ channel_counter = CHANNELS_PER_CELL - Cardinality(busy)
          /\ \A ch \in Channel : EndsPending(ch) = IF ch \in busy THEN 1 ELSE 0

\* The list stays well formed under insertion at the head and removal anywhere: the nodes
\* reached along prev are exactly the allocated ones, and next is the way back.
ListWellFormed ==
    /\ OnList = heap
    /\ channels \in heap => next[channels] = NULL
    /\ \A c \in heap : prev[c] \in heap => next[prev[c]] = c

\* None of the program's own stops is met: allocation finds the channel that the counter
\* promised, deallocation finds the channel of a call that ends, and the loop never runs
\* out of events.
NoAbort == ended \in {"no", "done"}

\* The cell completes its calls: main_loop leaves its loop with ret = 1.
Finishes == <>(ended = "done")
=============================================================================
