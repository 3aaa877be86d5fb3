---------------------------- MODULE MCAuthentication ----------------------------
(***************************************************************************)
(* Small instances of human login and of the credentials for TLC.  The two *)
(* share nothing but the store and write different items of it, so a step  *)
(* of one commutes with every step of the other and no property relates    *)
(* them: a behaviour moves one of them and leaves the other at its start.  *)
(***************************************************************************)
EXTENDS Login, TLC

CONSTANTS a1, a2, d1, u1, i1, i2, g1, g2, k1, k2, x1, x2, m1, m2
CONSTANTS Gateway, Key, Account, Email, NoAccount
VARIABLES cache, stored, marker, handed, email, index, job

\* Attempts are interchangeable, and so are addresses.
Interchangeable == Permutations(Attempt) \cup Permutations(Ip)

Keys == INSTANCE Credentials
credentials == <<cache, stored, marker, handed, email, index, job>>

ASSUME NoAccountAssumption == NoAccount \notin Account

MCInit == Init /\ Keys!Init
MCNext == \/ Next /\ Keys!Init /\ UNCHANGED credentials
          \/ Keys!Next /\ Init /\ UNCHANGED vars
MCSpec == MCInit /\ [][MCNext]_<<vars, credentials>>

\* The properties of Credentials, under names a configuration can use.
KeysKept == Keys!Kept
HandedKeysResolve == Keys!HandedKeysResolve
OneAccountPerEmail == Keys!OneAccountPerEmail
StoredKeysMakeReady == Keys!StoredKeysMakeReady
=================================================================================
