--------------------------- MODULE MCPriceTracker ---------------------------
(* Two known symbols, an unknown one and two handlers.                     *)
EXTENDS PriceTracker
=============================================================================
