------------------------------ MODULE MCKeystore ------------------------------
(* Small instances of Keystore for TLC.                                    *)
EXTENDS Keystore

KeyA == <<Keys, "a">>
KeyB == <<Keys, "b">>
GroupA == <<Groups, "a">>

\* Two key packages, and a group with the name of one of them.
KeysAndGroup == {KeyA, KeyB, GroupA}
OldKeys == {KeyA, KeyB}

\* Packages that differ in share and group.
TwoPackages == {<<"g", "s1">>, <<"h", "s2">>}
=============================================================================
