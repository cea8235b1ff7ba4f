----------------------------- MODULE MCPriceFeed ------------------------------
(***************************************************************************)
(* An instance of PriceFeed for TLC.                                       *)
(***************************************************************************)
EXTENDS PriceFeed

\* A provider asked once, as Kraken is, and one asked twice, as Bitstamp is.
MCRequests == <<1, 2>>
=============================================================================
