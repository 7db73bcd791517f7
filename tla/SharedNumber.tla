---------------------------- MODULE SharedNumber ----------------------------
(***************************************************************************)
(* The WhatsApp number every shop sends from: one row, which belongs to    *)
(* one of the shops, while the shops come and go with the connections of   *)
(* ConvertyConnection.                                                     *)
(***************************************************************************)
EXTENDS ConvertyConnection, FiniteSetsExt

VARIABLE number    \* whatsapp_integrations: the shop that has it

numberVars == <<connectionVars, number>>

NumberInit == Init /\ number = None

(* sharedOwnerShop: the shop that holds the number, else the oldest one.   *)
LiveShops == {c \in Connections : Live(c)}
SharedOwnerShop == IF number # None THEN number ELSE Min(LiveShops)

(* handleWhatsappConnect and handleWhatsappDisconnect.                     *)
ConnectNumber ==
    /\ LiveShops # {}
    /\ number' = SharedOwnerShop
    /\ UNCHANGED connectionVars

DisconnectNumber ==
    /\ LiveShops # {} /\ number' = None
    /\ UNCHANGED connectionVars

(* whatsapp_integrations.shop_id: the row goes with its shop.              *)
CascadeNumber ==
    number' = IF number # None /\ shop'[number] = "deleted" THEN None ELSE number

NumberNext ==
    \/ ConnectNumber \/ DisconnectNumber
    \/ Next /\ CascadeNumber

NumberSpec == NumberInit /\ [][NumberNext]_numberVars

-----------------------------------------------------------------------------
(* A promise of a comment which the code does not keep.                    *)

(* "The shared WhatsApp connection ... keep[s] working regardless of a     *)
(* store's OAuth status": only the operator disconnects it.                *)
SharedNumberKept ==
    [][number # None /\ number' = None => DisconnectNumber]_numberVars

=============================================================================
