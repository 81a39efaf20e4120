------------------------------ MODULE MCCrawler ------------------------------
(* A small instance of Crawler for TLC.                                       *)
EXTENDS Crawler

CONSTANTS t1, t2, h1, h2, i1, i2

\* Two threads; a host that occurs twice in a row, and another; two addresses,
\* one for a name or both, so that a connection can fall back to the second.
MCThreads == {t1, t2}
MCHosts == {h1, h2}
MCIPs == {i1, i2}
MCAnswers == {<<i1, i2>>, <<i2>>}
MCInput == <<h1, h1, h2>>
==============================================================================
