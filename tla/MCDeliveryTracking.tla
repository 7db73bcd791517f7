------------------------- MODULE MCDeliveryTracking -------------------------
(* The instance of DeliveryTracking that TLC checks: one barcode, which    *)
(* one shop or two may watch, since barcodes share nothing but the bounds. *)
EXTENDS DeliveryTracking

CONSTANTS shopA, shopB, b1, o1, s1, onroad, delivered

=============================================================================
