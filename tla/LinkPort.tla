------------------------------ MODULE LinkPort ------------------------------
(***************************************************************************)
(* What the Interest scheduler of a face promises to the forwarder above   *)
(* it, without tokens, virtual time or round robin: Interests of one flow  *)
(* of one class leave in the order they were accepted, one at a time, none *)
(* lost and none twice; and the port idles only if every class it serves   *)
(* without a rate limit is empty.                                          *)
(***************************************************************************)
EXTENDS Naturals, Sequences

CONSTANTS
    Class,     \* service classes
    Unlimited, \* the classes that need no tokens
    Flow,      \* flow keys
    Size,      \* packet sizes
    Null       \* no packet

VARIABLES
    waiting,   \* waiting[c][f]: accepted and not yet on the wire, oldest first
    wire       \* the packet in transmission, or Null

vars == <<waiting, wire>>

Init == /\ waiting = [c \in Class |-> [f \in Flow |-> << >>]]
        /\ wire = Null

(* The wire is free and q waits.                                           *)
Begin(q) == \E c \in Class, f \in Flow :
                /\ q[c][f] # << >>
                /\ waiting' = [q EXCEPT ![c][f] = Tail(@)]
                /\ wire' = [class |-> c, flow |-> f, size |-> Head(q[c][f])]

(* The port idles: none of the classes it owes a turn may be waiting.      *)
Hold(q, owed) == /\ \A c \in owed, f \in Flow : q[c][f] = << >>
                 /\ waiting' = q
                 /\ wire' = Null

(* An Interest arrives; it is accepted, or dropped.                        *)
Arrive(c, f, s, owed) ==
    \E q \in {waiting, [waiting EXCEPT ![c][f] = Append(@, s)]} :
        IF wire = Null THEN Begin(q) \/ Hold(q, owed)
                       ELSE waiting' = q /\ UNCHANGED wire

Finish(owed) == wire # Null /\ (Begin(waiting) \/ Hold(waiting, owed))

Next(owed) == \/ \E c \in Class, f \in Flow, s \in Size : Arrive(c, f, s, owed)
              \/ Finish(owed)

Spec == Init /\ [][Next(Unlimited)]_vars
=============================================================================
