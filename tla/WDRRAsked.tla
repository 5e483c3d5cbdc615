----------------------------- MODULE WDRRAsked -----------------------------
(***************************************************************************)
(* WDRRQueue under the requests a face really makes of a class that has the *)
(* face to itself: one when an Interest comes (at once if the face rests,   *)
(* else when its timer fires), one when a packet has been sent, and none    *)
(* after a request that returned nothing: sendPacketCallback then only sets *)
(* canScheduler, its retry after 1 ms is commented out.                     *)
(***************************************************************************)
EXTENDS WDRRQueue

VARIABLE due   \* the face is about to ask the class, or waits for the timer to do so

askVars == <<vars, due>>

AskInit == Init /\ due = FALSE

Offer == /\ \E f \in Flow, s \in Size, m \in Marks : AppendInterest(f, [size |-> s, marked |-> m])
         /\ due' = TRUE

(* The timer runs on only behind a packet.                                  *)
Ask == /\ due
       /\ ScheduleNext
       /\ due' = (out' # Null)

Tick == GenerateToken /\ UNCHANGED due

AskNext ==
    \/ Offer
    \/ Ask
    \/ Tick
    \/ \E greedy \in SUBSET {f \in keys : received[f]} : CalObjectRate(greedy) /\ UNCHANGED due

(* Handlers finish, timers fire and buckets tick; nobody has to ask for Data. *)
AskSpec == AskInit /\ [][AskNext]_askVars /\ WF_askVars(Ask) /\ WF_askVars(Tick)

(* The class is a FIFO per flow that refuses only for lack of tokens, and,  *)
(* as long as Interests keep coming to it (of any flow, dropped ones        *)
(* included), none of its flows starves: each request that found the bucket *)
(* short is made up for by a later Interest's.                              *)
ImplementsFairClass == /\ Class!Spec
                       /\ []<><<Offer>>_askVars => Class!NoStarvation
=============================================================================
