---------------------------- MODULE MCClevisRole ----------------------------
(* Instances of ClevisRole for TLC. *)
EXTENDS ClevisRole, TLC

CONSTANTS s1, s2, k1, k2

Sss(t, u) == [pin |-> "sss", mixed |-> FALSE, t |-> t, urls |-> u, live |-> u]
Mixed(u) == [pin |-> "sss", mixed |-> TRUE, t |-> 1, urls |-> u, live |-> u]

\* The server list changes from s1 to both servers, or is emptied.
MCWants == {[t |-> 1, urls |-> {s1}], [t |-> 1, urls |-> {s1, s2}],
            [t |-> 1, urls |-> {}]}

Header(a, b, c) == (0 :> a) @@ (1 :> b) @@ (2 :> c)

Host(h, d) == [header |-> h, dracut |-> d]

\* An initramfs-tools host whose passphrase was removed, a dracut host with a
\* tree of tang and another pin.
MCHosts == {Host(Header(Sss(1, {s1}), Free, Free), FALSE),
            Host(Header(Pass, Mixed({s1}), Free), TRUE)}

Opt(tag, wants, pw, key, boot, untang) ==
    [tag |-> tag, wants |-> wants, pw |-> pw, key |-> key, boot |-> boot,
     untang |-> untang]

MCOpts == {Opt("clevis", TRUE, "good", "off", FALSE, FALSE),
           Opt("clevis", TRUE, "none", "install", TRUE, TRUE),
           Opt("clevis", FALSE, "none", "teardown", FALSE, TRUE),
           Opt("clevis_keyfile", TRUE, "none", "install", FALSE, FALSE),
           Opt("clevis_keyfile", TRUE, "wrong", "teardown", FALSE, FALSE)}
=============================================================================
