------------------------------- MODULE Thread -------------------------------
(***************************************************************************)
(* What a conversation promises to its two participants, without calls,    *)
(* row locks, marks read before they are written, or failures: messages    *)
(* are numbered one after the other, each participant receives and reads   *)
(* further, and is told further how far its partner has read.              *)
(***************************************************************************)
EXTENDS Naturals

CONSTANT Conversation

VARIABLES counter, read, received, told

vars == <<counter, read, received, told>>

Partner == [client |-> "worker", worker |-> "client"]
Role == DOMAIN Partner

Start == [c \in Conversation |-> [u \in Role |-> 0]]

Init ==
  /\ counter = [c \in Conversation |-> 0]
  /\ read = Start /\ received = Start /\ told = Start

Post(c) ==
  /\ counter' = [counter EXCEPT ![c] = @ + 1]
  /\ UNCHANGED <<read, received, told>>

Receive(c, u) ==
  /\ \E n \in received[c][u] + 1..counter[c] :
       received' = [received EXCEPT ![c][u] = n]
  /\ UNCHANGED <<counter, read, told>>

Read(c, u) ==
  /\ \E n \in read[c][u] + 1..counter[c] : read' = [read EXCEPT ![c][u] = n]
  /\ UNCHANGED <<counter, received, told>>

Tell(c, u) ==
  /\ \E n \in told[c][u] + 1..read[c][Partner[u]] :
       told' = [told EXCEPT ![c][u] = n]
  /\ UNCHANGED <<counter, read, received>>

Next ==
  \E c \in Conversation :
    \/ Post(c)
    \/ \E u \in Role : Receive(c, u) \/ Read(c, u) \/ Tell(c, u)

Spec == Init /\ [][Next]_vars
=============================================================================
