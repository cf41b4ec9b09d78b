---------------------------- MODULE MCCacheAside ----------------------------
(* A small instance of CacheAside for TLC.                                 *)
EXTENDS CacheAside

CONSTANTS flight, delays

\* An event of the flight changes its row, or only the list of its delays
\* (the upsert refuses an old event), or both.
TouchedTogether == {{flight}, {delays}, {flight, delays}}
=============================================================================
