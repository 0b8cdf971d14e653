-------------------------------- MODULE MCFetch --------------------------------
(* A small instance of Fetch for TLC: five retries, so that the backoff     *)
(* passes its cap and then the word; headers below, at and above the cap of *)
(* Retry-After, and two that wrap: to a negative and to a small duration.   *)
EXTENDS Fetch

CONSTANTS a, b

MCHeaders ==
    {NoHeader}
    \cup [form: {"seconds"}, value: {0, 1, 5, 7, 8, 17}]
    \cup [form: {"date"}, value: {0, 1, 15}]
================================================================================
