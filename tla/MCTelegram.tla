----------------------------- MODULE MCTelegram -----------------------------
(* One announced setting, the listener's switch, and one quiet one, its offset. *)
(* Three updates, so that a request can be followed by two presses of the       *)
(* button it got, and one of these can be sent again.                           *)
EXTENDS TelegramListener

OneAnnounced == {Enabled}

OneQuiet == {Offset}
=============================================================================
