-------------------------- MODULE MCSecretStream --------------------------
(***************************************************************************)
(* SecretStream with few streams and messages and a counter that wraps.     *)
(***************************************************************************)
EXTENDS SecretStream

CONSTANTS h1, h2, p1, a1, a2

TwoHeaders == {h1, h2}
OnePayload == {p1}
TwoAds     == {a1, a2}

\* PUSH is to this code what MESSAGE is: a tag that does not rekey.
SomeTags   == {"MESSAGE", "FINAL"}
=============================================================================
