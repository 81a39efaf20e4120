---------------------------- MODULE MCSenderSocket ----------------------------
(***************************************************************************)
(* Small instances of SenderSocket for TLC, and what the assignment says   *)
(* of Close() where the code disagrees.                                    *)
(***************************************************************************)
EXTENDS SenderSocket

\* Hw3/Hw3P3/hw3p3.pdf, page 4: "when ss.Close() is called, the function must
\* block until the worker thread has collected all outstanding acknowledgments":
\* the wait ends, with every packet acknowledged or with the TIMEOUT that ends
\* the program.
ClaimCollects == <>(mpc \in {"fin", "exit"})
==============================================================================
