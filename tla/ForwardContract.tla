--------------------------- MODULE ForwardContract ---------------------------
(***************************************************************************)
(* What the gateway's event forwarder promises for the command and         *)
(* terminal outputs of each client: an output is accepted once, it reaches *)
(* the API or is lost, and no output is first delivered while an earlier   *)
(* one of the same client may still be delivered.                          *)
(***************************************************************************)
EXTENDS Naturals

CONSTANTS Outputs,      \* outputs, in the order of their enqueue_seq
          Owner         \* the client of each output

VARIABLES waiting,      \* accepted, neither delivered nor lost
          delivered,    \* the outputs the API has
          lost          \* the outputs that will never be delivered

contractVars == <<waiting, delivered, lost>>

Earlier(m, n) == Owner[m] = Owner[n] /\ m < n

Accept(n) ==
    /\ n \in Outputs \ (waiting \cup delivered \cup lost)
    /\ \A m \in waiting \cup delivered \cup lost : ~ Earlier(n, m)
    /\ waiting' = waiting \cup {n}
    /\ UNCHANGED <<delivered, lost>>

Deliver(n) ==
    /\ n \in waiting
    /\ \A m \in waiting : ~ Earlier(m, n)
    /\ waiting' = waiting \ {n}
    /\ delivered' = delivered \cup {n}
    /\ UNCHANGED lost

\* A crash loses several at once.
Lose ==
    \E S \in SUBSET waiting :
        /\ waiting' = waiting \ S
        /\ lost' = lost \cup S
        /\ UNCHANGED delivered

Init == waiting = {} /\ delivered = {} /\ lost = {}

Next == Lose \/ \E n \in Outputs : Accept(n) \/ Deliver(n)

Spec == Init /\ [][Next]_contractVars
=============================================================================
