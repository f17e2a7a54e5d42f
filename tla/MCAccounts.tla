------------------------------- MODULE MCAccounts -------------------------------
(* Two people register the same address; three updates of two keys, two of   *)
(* which give a key the same value.                                          *)
EXTENDS Accounts, TLC

CONSTANTS r1, r2, u1, u2, u3, e1, lang, theme, en, fr, dark

MCEmail == [r \in Registrations |-> "address"]
MCPassword == [r \in Registrations |-> IF r = r1 THEN "first" ELSE "second"]
MCPayload == (u1 :> (lang :> en @@ theme :> dark)) @@ (u2 :> (lang :> fr)) @@ (u3 :> (lang :> en))

================================================================================
