-------------------------- MODULE RequestGenerator --------------------------
(***************************************************************************)
(* get_requests: the arrivals and releases of one iteration, drawn one      *)
(* request at a time.  Times are only compared: requests_dict is the         *)
(* sequence of its events in the order of their times, and a drawn time is a *)
(* place in it, 2k for the very time of event k and 2k + 1 for a time        *)
(* between events k and k + 1.  (Place 0 is the start, time 0.)  A time that *)
(* is a key already is a collision.  An exponential draw too small to change *)
(* the float it is added to is left out.                                     *)
(***************************************************************************)
EXTENDS Integers, FiniteSets, SequencesExt, Functions

CONSTANTS
    Nodes,          \* nodes_list, the core nodes or all of them
    Bandwidth,      \* the keys of mod_per_bw
    NumRequests,    \* engine_props['num_requests']
    Distributions   \* request_distribution, each share in percent

ASSUME GeneratorAssumption ==
    /\ Cardinality(Nodes) >= 2
    /\ NumRequests \in Nat \ {0}
    /\ Distributions \subseteq [Bandwidth -> 0..100]

VARIABLES
    pc,
    distribution,  \* the request_distribution of this call
    bw_counts,     \* bw_counts_dict
    events,        \* the keys of requests_dict in ascending order
    now,           \* the place of current_time
    draw,          \* the locals of one round of the loop
    requests       \* the fields of each request; its next id is request_id

vars == <<pc, distribution, bw_counts, events, now, draw, requests>>

NoDraw == [time |-> 0, depart |-> 0, source |-> 0, dest |-> 0, bandwidth |-> 0]

request_id == Len(requests) + 1

\* int(share * num_requests) truncates.
Count(b) == (distribution[b] * NumRequests) \div 100

Distributable_Unchecked == TRUE
Distributable == FoldFunction(+, 0, [b \in Bandwidth |-> Count(b)]) = NumRequests

\* The places a time drawn after place p can take.
Fresh(p) == p % 2 = 1
After_FromTheStart(p) == 1..(2 * Len(events) + 1)
After(p) == {q \in 1..(2 * Len(events) + 1) : q > p \/ (q = p /\ Fresh(p))}

Init ==
    /\ pc = "start"
    /\ distribution \in Distributions
    /\ bw_counts = [b \in Bandwidth |-> 0]
    /\ events = <<>>
    /\ now = 0
    /\ draw = NoDraw
    /\ requests = <<>>

Start ==
    /\ pc = "start"
    /\ bw_counts' = [b \in Bandwidth |-> Count(b)]
    /\ pc' = IF Distributable THEN "times" ELSE "ValueError"
    /\ UNCHANGED <<distribution, events, now, draw, requests>>

More == Len(events) < 2 * NumRequests

DrawTimes ==
    /\ pc = "times" /\ More
    /\ \E t \in After(now) : \E d \in After(t) :
          draw' = [NoDraw EXCEPT !.time = t, !.depart = d]
    /\ pc' = "endpoints"
    /\ UNCHANGED <<distribution, bw_counts, events, now, requests>>

\* One draw of each end; a destination equal to the source is drawn again.
DrawEndpoints ==
    /\ pc = "endpoints"
    /\ \E s, d \in Nodes :
         /\ draw.source # 0 => s = draw.source
         /\ draw' = [draw EXCEPT !.source = s, !.dest = d]
         /\ pc' = IF s = d THEN "endpoints" ELSE "bandwidth"
    /\ UNCHANGED <<distribution, bw_counts, events, now, requests>>

\* A draw of a bandwidth of which none is left changes nothing and is repeated.
RejectBandwidth(b) == pc = "bandwidth" /\ bw_counts[b] = 0 /\ UNCHANGED vars

DrawBandwidth(b) ==
    /\ pc = "bandwidth"
    /\ bw_counts[b] > 0
    /\ bw_counts' = [bw_counts EXCEPT ![b] = @ - 1]
    /\ draw' = [draw EXCEPT !.bandwidth = b]
    /\ pc' = "record"
    /\ UNCHANGED <<distribution, events, now, requests>>

\* Neither time is a key: both events go in, each at its place.
Record ==
    /\ pc = "record"
    /\ Fresh(draw.time) /\ Fresh(draw.depart)
    /\ LET at      == (draw.time + 1) \div 2
           leaves  == (draw.depart + 1) \div 2 + 1
           event(ty) == [req_id |-> request_id, request_type |-> ty]
       IN  /\ events' = InsertAt(InsertAt(events, at, event("arrival")), leaves, event("release"))
           /\ now' = 2 * at
    /\ requests' = Append(requests, [source |-> draw.source, destination |-> draw.dest,
                                     bandwidth |-> draw.bandwidth])
    /\ pc' = "times"
    /\ draw' = NoDraw
    /\ UNCHANGED <<distribution, bw_counts>>

GivenBack_Never(b) == bw_counts
GivenBack(b) == [bw_counts EXCEPT ![b] = @ + 1]

\* One of them is: the bandwidth goes back, the time stays where it was drawn.
Collide ==
    /\ pc = "record"
    /\ ~(Fresh(draw.time) /\ Fresh(draw.depart))
    /\ bw_counts' = GivenBack(draw.bandwidth)
    /\ now' = draw.time
    /\ pc' = "times"
    /\ draw' = NoDraw
    /\ UNCHANGED <<distribution, events, requests>>

Return ==
    /\ pc = "times" /\ ~More
    /\ pc' = "returned"
    /\ UNCHANGED <<distribution, bw_counts, events, now, draw, requests>>

Ended == pc \in {"returned", "ValueError"} /\ UNCHANGED vars

Next ==
    \/ Start \/ DrawTimes \/ DrawEndpoints
    \/ \E b \in Bandwidth : DrawBandwidth(b) \/ RejectBandwidth(b)
    \/ Record \/ Collide \/ Return
    \/ Ended

Spec == Init /\ [][Next]_vars

\* One thread, and draws that are repeated without end do not avoid for ever a time
\* that is no key yet, or a destination that is not the source.
FairSpec ==
    /\ Spec
    /\ WF_vars(Next)
    /\ SF_vars(DrawTimes /\ Fresh(draw'.time) /\ Fresh(draw'.depart))
    /\ SF_vars(DrawEndpoints /\ pc' = "bandwidth")

-----------------------------------------------------------------------------
EventsOf(id, ty) == {i \in DOMAIN events : events[i] = [req_id |-> id, request_type |-> ty]}
Asked(b) == Cardinality({i \in DOMAIN requests : requests[i].bandwidth = b})

\* The counts that remain, the ids given out and the events stay in step through every
\* collision: each bandwidth has been used as often as its count has gone down, and
\* each id so far has one arrival and one release, no other id any.  So what is returned
\* has the distribution that was asked for.
InStep ==
    pc # "start" =>
        /\ \A b \in Bandwidth :
              Asked(b) + bw_counts[b] + (IF pc = "record" /\ draw.bandwidth = b THEN 1 ELSE 0) = Count(b)
        /\ Len(events) = 2 * Len(requests)
        /\ \A id \in DOMAIN requests :
              Cardinality(EventsOf(id, "arrival")) = 1 /\ Cardinality(EventsOf(id, "release")) = 1

\* What Engine relies on: in the order of their times, arrivals come in the order of
\* their ids, and no request is released before it has arrived.
EngineOrder ==
    \A i, j \in DOMAIN events :
        /\ events[i].request_type = "arrival" /\ events[j].request_type = "arrival"
              => (i < j <=> events[i].req_id < events[j].req_id)
        /\ events[i].request_type = "arrival" /\ events[j] = [events[i] EXCEPT !.request_type = "release"]
              => i < j

\* The loops end: collisions and the draws of bandwidths that are used up cannot keep
\* get_requests from returning, and it raises ValueError only for a distribution whose
\* counts do not add up.
Returns ==
    <>(pc = IF FoldFunction(+, 0, [b \in Bandwidth |-> Count(b)]) = NumRequests
            THEN "returned" ELSE "ValueError")
=============================================================================
