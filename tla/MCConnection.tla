---------------------------- MODULE MCConnection ----------------------------
(* Instances of Connection: two ends with different configurations.           *)
EXTENDS Connection, TLC

TP(data, bidi) == [data |-> data, stream_data |-> 1, bidi |-> bidi, uni |-> 1,
                   idle |-> 30000500, early |-> 0, cids |-> 0]

MCParams == ("client" :> TP(2, 2)) @@ ("server" :> TP(1, 1))

MCOffer == <<"AES_256_GCM", "CHACHA20_POLY1305">>
=============================================================================
