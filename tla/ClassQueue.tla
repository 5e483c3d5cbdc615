----------------------------- MODULE ClassQueue -----------------------------
(***************************************************************************)
(* What one service class of the link scheduler promises to the scheduler  *)
(* above it: a FIFO per flow; an append either joins the tail of its flow  *)
(* or is dropped; a request for the next packet yields the head of some    *)
(* backlogged flow.  Only a rate-limited class may refuse a request while  *)
(* it holds packets.  Which flow is served, when it is served and which    *)
(* counters decide it are left open.                                       *)
(***************************************************************************)
EXTENDS Naturals, Sequences

CONSTANTS
    Flow,          \* flow keys: the first name component of an Interest
    Size,          \* the sizes (Dsz) an Interest may announce
    VqSize,        \* packets a flow may have waiting
    RateLimited,   \* TRUE for the classes that own a token bucket
    Null           \* no packet

VARIABLES
    queue,         \* queue[f]: the packets of flow f, oldest first
    out            \* the result of the last request

vars == <<queue, out>>

Packet == [size : Size, marked : BOOLEAN]

(* A packet that leaves: it keeps its size, and may gain a penalty mark.   *)
Leaving(f, p) == {[flow |-> f, size |-> p.size, marked |-> m] :
                        m \in {b \in BOOLEAN : p.marked => b}}

Init == /\ queue = [f \in Flow |-> << >>]
        /\ out = Null

Enqueue(f, p) == /\ Len(queue[f]) < VqSize
                 /\ queue' = [queue EXCEPT ![f] = Append(@, p)]
                 /\ UNCHANGED out

Serve(f) == /\ queue[f] # << >>
            /\ queue' = [queue EXCEPT ![f] = Tail(@)]
            /\ out' \in Leaving(f, Head(queue[f]))

Refuse == /\ RateLimited \/ \A f \in Flow : queue[f] = << >>
          /\ out' = Null
          /\ UNCHANGED queue

Next == \/ \E f \in Flow, p \in Packet : Enqueue(f, p)
        \/ \E f \in Flow : Serve(f)
        \/ Refuse

Spec == Init /\ [][Next]_vars

(* No flow of the class starves.                                           *)
NoStarvation == \A f \in Flow : WF_vars(Serve(f))
=============================================================================
