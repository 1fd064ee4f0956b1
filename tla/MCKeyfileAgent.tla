--------------------------- MODULE MCKeyfileAgent ---------------------------
(* Instances of KeyfileAgent for TLC. *)
EXTENDS KeyfileAgent, TLC

CONSTANTS d1, d2, a1, b1, x1, k1, k2

\* Two volumes with different keys and one try each.  /boot
\* holds the key of the other volume; the stick holds keys of both hosts.
TwoAskDev == (a1 :> d1) @@ (b1 :> d2)
TwoUnlocks == {<<k1, d1>>, <<k2, d2>>}
TwoMedia == [boot |-> {<<k2>>}, usb |-> {Absent, <<k2, k1>>}]

\* One volume, and a prompt of another service; every kind of bad source in
\* front of the good key, which is the last file of the stick.
OneAskDev == (a1 :> d1) @@ (x1 :> NoDev)
OneUnlocks == {<<k1, d1>>}
OneMedia == [boot |-> {<<>>, <<k2>>},
             usb  |-> {Absent, <<k2>>, <<k2, k2, k1>>}]
=============================================================================
