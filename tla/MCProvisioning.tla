--------------------------- MODULE MCProvisioning ---------------------------
(* Model values and wishes for Provisioning: a fresh conversation in the   *)
(* person's tab, a reopened one, one recovered from a record or from a     *)
(* record that is not there, and a generic page with and without a reset.  *)
EXTENDS Provisioning

CONSTANTS r1, r2, c1, start, t1, t2, own

W(generic, fresh, identity, tab, registry) ==
    [generic |-> generic, fresh |-> fresh, identity |-> identity, tab |-> tab, registry |-> registry]

Recycle   == W(FALSE, TRUE,  c1,   own,  "none")
Reopen    == W(FALSE, FALSE, c1,   None, "none")
Recover   == W(FALSE, FALSE, c1,   None, "known")
Lost      == W(FALSE, FALSE, None, None, "unknown")
Site      == W(TRUE,  FALSE, None, None, "none")
FreshSite == W(TRUE,  TRUE,  None, None, "none")

Pairs == {<<Recycle, Recover>>, <<Reopen, FreshSite>>, <<Site, Lost>>}

Mixed == {[r \in Req |-> IF r = r1 THEN w[1] ELSE w[2]] : w \in Pairs}

\* Both ids ask for one conversation.
Same == {[r \in Req |-> Reopen]}
=============================================================================
