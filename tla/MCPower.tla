------------------------------ MODULE MCPower -------------------------------
(* TLC instance of EarbudPower: the application and one client of each     *)
(* other kind.                                                             *)
EXTENDS EarbudPower

MCOrder == <<"sm", "audio_curation", "leds">>
=============================================================================
