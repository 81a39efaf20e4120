---------------------------- MODULE MCTraceroute ----------------------------
(* The traceroute with few hops, and what its documents say of echo replies.  *)
EXTENDS Traceroute

\* src/README.md:206 lists "Parsing TTL expired, echo reply, and ICMP error
\* messages": an echo reply that was read marks its hop as replied.
ClaimEchoReply == \A i \in echoed : answer[i] # "none"

=============================================================================
