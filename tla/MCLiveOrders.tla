--------------------------- MODULE MCLiveOrders ----------------------------
(* Three threads, three orders in a window of three steps, three attempts.  *)
EXTENDS LiveOrders
=============================================================================
