------------------------- MODULE MCSequentialCrawler -------------------------
(* The sequential crawlers with small buffers, and what the assignment says   *)
(* of a URL that fails.                                                       *)
EXTENDS SequentialCrawler

\* A duplicate host, a rejected line, and a host written as an address.
Lines == << "h1", "h2", "h1", "", "ip2" >>

\* src/Hw1/hw1p2.pdf, page 2: "If any of the steps fails, you should drop the current
\* URL and move on to the next" - whose lookup must then be possible.
ClaimMovesOn == pc = "dns" => winsock

==============================================================================
