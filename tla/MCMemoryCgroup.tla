---------------------------- MODULE MCMemoryCgroup ----------------------------
(***************************************************************************)
(* A small instance of MemoryCgroup for TLC.                               *)
(***************************************************************************)
EXTENDS MemoryCgroup

AllRequests ==
  [limit: {Unset} \cup -1..MaxUnits, swap: {Unset} \cup -1..MaxUnits, others: {FALSE}]
    \cup [limit: {1}, swap: {Unset, MaxUnits}, others: {TRUE}]
==============================================================================
