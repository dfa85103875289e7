------------------------------ MODULE Lifecycle ------------------------------
(***************************************************************************)
(* What every credential of the service promises: it is issued, it works,  *)
(* it stops working, and it never works again.  The identifiers are those  *)
(* of one kind of credential (a session row, a refresh token, an access    *)
(* token, an invitation ...); the modules that handle them show that they  *)
(* implement this specification.                                           *)
(***************************************************************************)
CONSTANT Ids            \* the identifiers a credential of this kind may have
VARIABLE life           \* life[i]: where credential i is in its life

Stages == {"unissued", "valid", "dead"}

\* The moves of one credential.  "unissued" to "dead" is a credential issued
\* on a record that was revoked meanwhile: it never worked.
Forward == { <<"unissued", "valid">>, <<"unissued", "dead">>,
             <<"valid", "dead">> }

TypeOK == life \in [Ids -> Stages]

Init == life = [i \in Ids |-> "unissued"]

\* One step may advance several credentials: a clock tick expires many.
Advance ==
  /\ life' \in [Ids -> Stages]
  /\ \A i \in Ids : life'[i] # life[i] => <<life[i], life'[i]>> \in Forward

Spec == Init /\ [][Advance]_life
=============================================================================
