---------------------------- MODULE FifoChannel ----------------------------
(***************************************************************************)
(* What the reliability layer of OpenVPN's control channel promises to the *)
(* TLS objects at its two ends: each of them sees the packets of the other *)
(* in the order in which they were written, none twice and none left out.  *)
(***************************************************************************)
EXTENDS Integers, Sequences

CONSTANT Peer

Other(p) == CHOOSE q \in Peer : q # p

VARIABLES written,     \* written[p]: packets p has written, numbered from 0
          readBy       \* readBy[p]: the packets p has read, in order

vars == <<written, readBy>>

\* The first k packets of a stream.
Stream(k) == [i \in 1..k |-> i - 1]

Init ==
  /\ written = [p \in Peer |-> 0]
  /\ readBy = [p \in Peer |-> <<>>]

\* p writes a packet or reads some of those it has not read yet, or both.
Step(p) ==
  \E w \in {0, 1}, k \in 0..(written[Other(p)] - Len(readBy[p])) :
     /\ written' = [written EXCEPT ![p] = @ + w]
     /\ readBy' = [readBy EXCEPT ![p] = Stream(Len(@) + k)]

Next == \E p \in Peer : Step(p)

Spec == Init /\ [][Next]_vars
=============================================================================
