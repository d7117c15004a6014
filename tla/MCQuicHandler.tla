---------------------------- MODULE MCQuicHandler ----------------------------
(* Model-checking instance of QuicHandler: two request streams, one DATA   *)
(* frame each; the peer's behaviour is chosen per run by the cfg.          *)
EXTENDS QuicHandler

CONSTANTS s1, s2

MCStreamIds == {s1, s2}

\* Header bytes may or may not decode as UTF-8.
MCAnyDecode == BOOLEAN

=============================================================================
