---------------------------- MODULE MCBotOrders ----------------------------
(* A day of the bot with one contract sold, two crashes, and room for every *)
(* order that closes it more than once.                                     *)
EXTENDS BotOrders

MCShort == <<[symbol |-> "CE", side |-> Sell, kind |-> "LIMIT"]>>

MCSymbols == {"CE"}
MCPlans == {MCShort}
=============================================================================
