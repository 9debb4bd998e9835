---------------------------- MODULE MCTelegramBot ----------------------------
(* Small instances of TelegramBot for TLC. *)
EXTENDS TelegramBot

CONSTANT w1
=============================================================================
