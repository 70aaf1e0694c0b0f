-------------------------------- MODULE Catalogs --------------------------------
(* All the screens of the web client that keep a copy of their own.          *)
EXTENDS Sequences, FriendScreens, SupportScreens, VerificationScreens, OfferScreens,
        EventScreens, AccountScreens, AdminScreens

AllScreens ==
    FriendCatalog \o SupportCatalog \o VerificationCatalog \o OfferCatalog
    \o OrderCatalog \o EventCatalog \o AccountCatalog \o AdminCatalog
=============================================================================
