---------------------------- MODULE MCIngestion ----------------------------
(* A small instance of Ingestion for TLC.                                  *)
EXTENDS Ingestion

CONSTANTS a, b

TwoFlights == <<a, b>>
=============================================================================
