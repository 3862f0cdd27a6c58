---------------------------- MODULE MCTelegramPoll ----------------------------
(* Instances of TelegramPoll for TLC.                                       *)
EXTENDS TelegramPoll
=============================================================================
