---------------------------- MODULE Conversation ----------------------------
(***************************************************************************)
(* What the exchange layer promises to the two applications that talk over   *)
(* it: of a conversation in which every message answers the one before, each *)
(* message is handed over at most once, only after it was sent, only to an   *)
(* application that was handed what it answers, and is confirmed to its       *)
(* sender only if it arrived.  A message may arrive without being handed     *)
(* over: its exchange may be gone.                                           *)
(***************************************************************************)
EXTENDS Naturals

CONSTANT NumMessages

AppMessage == 1 .. NumMessages

VARIABLES
    sent,           \* messages sent
    arrived,        \* messages accepted from the network
    deliveries,     \* how often each message was handed over
    confirmed       \* messages acknowledged to their sender

vars == <<sent, arrived, deliveries, confirmed>>

Init ==
    /\ sent = {}
    /\ arrived = {}
    /\ deliveries = [k \in AppMessage |-> 0]
    /\ confirmed = {}

MaySend(k, delivered) ==
    k \in AppMessage \ sent /\ (k > 1 => delivered[k - 1] = 1)

Send(k) ==
    /\ MaySend(k, deliveries)
    /\ sent' = sent \cup {k}
    /\ UNCHANGED <<arrived, deliveries, confirmed>>

\* Message k arrives.  The same step may hand it over, confirm the message it
\* answers, and send the answer to it.
Arrive(k) ==
    /\ k \in sent \ arrived
    /\ arrived' = arrived \cup {k}
    /\ deliveries' \in {deliveries, [deliveries EXCEPT ![k] = @ + 1]}
    /\ \/ confirmed' = confirmed
       \/ k - 1 \in arrived /\ confirmed' = confirmed \cup {k - 1}
    /\ \/ sent' = sent
       \/ MaySend(k + 1, deliveries') /\ sent' = sent \cup {k + 1}

Confirm(k) ==
    /\ k \in arrived \ confirmed
    /\ confirmed' = confirmed \cup {k}
    /\ UNCHANGED <<sent, arrived, deliveries>>

Next == \E k \in AppMessage : Send(k) \/ Arrive(k) \/ Confirm(k)

Spec == Init /\ [][Next]_vars
=============================================================================
