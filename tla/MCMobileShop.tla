---------------------------- MODULE MCMobileShop ----------------------------
(* A small instance of MobileShop: the app is started three times.          *)
EXTENDS MobileShop

MCNow == [year |-> 2029, month |-> 1]
=============================================================================
