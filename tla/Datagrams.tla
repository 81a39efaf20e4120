------------------------------ MODULE Datagrams ------------------------------
(***************************************************************************)
(* UDP as the programs of this repository use it: datagrams in flight, or  *)
(* waiting in a socket's receive queue, as a bag.  A bag is a function     *)
(* from datagrams to the number of copies under way.  Taking any datagram  *)
(* of the bag models reordering; Lose models loss; duplicates come only    *)
(* from retransmissions.  External: Winsock and the network are not part   *)
(* of the repository.                                                      *)
(***************************************************************************)
EXTENDS Naturals, FiniteSets

NoDatagrams(M) == [m \in M |-> 0]

IsIn(m, net) == net[m] > 0

AnyIn(net) == \E m \in DOMAIN net : net[m] > 0

\* How many datagrams are under way, when none has more than cap copies.
Load(net, cap) ==
    Cardinality({x \in (DOMAIN net) \X (1..cap) : x[2] <= net[x[1]]})

\* sendto(): one more copy of m; a full path or buffer (cap) drops it.
Put(net, m, cap) ==
    IF Load(net, cap) < cap THEN [net EXCEPT ![m] = @ + 1] ELSE net

\* recvfrom(), or a loss: one copy of m less.
Take(net, m) == [net EXCEPT ![m] = @ - 1]
==============================================================================
