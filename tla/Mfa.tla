---------------------------------- MODULE Mfa ----------------------------------
(***************************************************************************)
(* The second factor of one account: the secret, the backup codes, and the *)
(* requests that check a code against them.  Two accounts share nothing.   *)
(*                                                                         *)
(* The three columns are read when a request starts and written, those it  *)
(* changed, when it commits: a request that spends a backup code writes    *)
(* back the whole list it had read, less that code, and one that sets the  *)
(* flag to the value it had read leaves it out of its update.              *)
(*                                                                         *)
(* A setup draws a number: the secret of setup g is g, its backup codes    *)
(* are <<g, 1>>, <<g, 2>> ..., and <<g, 0>> stands for what the authentica- *)
(* tor shows for that secret, as often as it is asked.                     *)
(***************************************************************************)
EXTENDS Naturals, FiniteSets

CONSTANTS
  Procs,        \* the requests that may be in flight together
  Count,        \* backup codes of a setup: eight
  Ops,          \* the requests an instance of the model issues
  MaxSetups,    \* bound: setups of the account
  MaxUses       \* bound: where the history stops counting

ASSUME CountAssumption ==
  Count \in Nat \ {0} /\ MaxSetups \in Nat /\ MaxUses \in Nat \ {0}

VARIABLES
  gen,          \* setups so far
  secret,       \* mfa_secret: the setup it is of, 0 for NULL
  codes,        \* mfa_backup_codes
  enabled,      \* mfa_enabled
  challenged,   \* an MFA challenge token is about
  req,          \* the requests in flight
  uses,         \* history: how often each backup code was accepted
  confirmed,    \* history: secrets of which the authenticator showed a code
  alone         \* history: has no request begun while another was in flight?

vars == <<gen, secret, codes, enabled, challenged, req, uses, confirmed, alone>>

Setups == 1 .. MaxSetups
Backup == Setups \X (1 .. Count)
App == Setups \X {0}

Kinds == {"login", "check", "account", "enable", "disable"}

\* `left` is the list the commit writes back, if the code is a backup code, and
\* `on` the flag as it was read.
Req == [kind : Kinds \cup {"idle"}, code : Backup \cup App \cup {<<0, 0>>},
        left : SUBSET Backup, on : BOOLEAN]

Idle == [kind |-> "idle", code |-> <<0, 0>>, left |-> {}, on |-> FALSE]

Finish(p) == req' = [req EXCEPT ![p] = Idle]

\* for the history: a request begins
Begins == alone' = (alone /\ \A p \in Procs : req[p] = Idle)

-------------------------------------------------------------------------------
\* setup_totp: whatever was there, enabled or not, is replaced.

\* a list already stored is kept
SlipNewCodes(g) == IF codes = {} THEN {g} \X (1 .. Count) ELSE codes

NewCodes(g) == {g} \X (1 .. Count)

Setup ==
  /\ "setup" \in Ops /\ gen < MaxSetups
  /\ gen' = gen + 1 /\ secret' = gen + 1 /\ codes' = NewCodes(gen + 1)
  /\ Begins
  /\ UNCHANGED <<enabled, challenged, req, uses, confirmed>>

\* A login of an account with MFA hands out a challenge, good for five minutes.
Challenge ==
  /\ "login" \in Ops /\ enabled /\ ~challenged /\ challenged' = TRUE
  /\ UNCHANGED <<gen, secret, codes, enabled, req, uses, confirmed, alone>>

ChallengeExpires ==
  /\ challenged /\ challenged' = FALSE
  /\ UNCHANGED <<gen, secret, codes, enabled, req, uses, confirmed, alone>>

\* verify_totp: no secret, no code is right.
Accepts(c) == secret # 0 /\ (c = <<secret, 0>> \/ c \in codes)

\* What sends a request to verify_totp.
Asked(kind) ==
  /\ kind \in Ops
  /\ kind = "login" => challenged
  /\ kind = "account" => enabled

\* the code is found and not taken off the list
SlipLeft(c) == codes

\* only the codes of other setups are written back
SlipLeftOther(c) == {d \in codes : d[1] # c[1]}

Left(c) == codes \ {c}

BeginVerify(p, kind, c) ==
  /\ req[p] = Idle
  /\ Asked(kind) /\ Accepts(c)
  /\ req' = [req EXCEPT ![p] = [kind |-> kind, code |-> c, left |-> Left(c),
                                on |-> enabled]]
  /\ Begins
  /\ UNCHANGED <<gen, secret, codes, enabled, challenged, uses, confirmed>>

\* The answer to the user: the code was good.
Counted(c) ==
  uses' = [uses EXCEPT ![c] = IF @ = MaxUses THEN @ ELSE @ + 1]

Answer(p) ==
  IF req[p].code \in Backup
  THEN Counted(req[p].code) /\ UNCHANGED confirmed
  ELSE confirmed' = confirmed \cup {req[p].code[1]} /\ UNCHANGED uses

\* POST /mfa/verify commits nothing: the list is as before.
EndCheck(p) ==
  /\ req[p].kind = "check"
  /\ Answer(p) /\ Finish(p)
  /\ UNCHANGED <<gen, secret, codes, enabled, challenged, alone>>

\* The columns a commit writes: the list only if a code was taken off it, the
\* flag only if the request changes what it had read.
WriteCodes(p) ==
  codes' = IF req[p].code \in Backup THEN req[p].left ELSE codes

WriteEnabled(p, b) == enabled' = IF b # req[p].on THEN b ELSE enabled

Commit(p) ==
  /\ req[p].kind \in {"login", "account", "enable"}
  /\ WriteCodes(p)
  /\ WriteEnabled(p, req[p].on \/ req[p].kind = "enable")
  /\ Answer(p) /\ Finish(p)
  /\ UNCHANGED <<gen, secret, challenged, alone>>

CommitDisable(p) ==
  /\ req[p].kind = "disable"
  /\ WriteEnabled(p, FALSE) /\ secret' = 0 /\ codes' = {}
  /\ Answer(p) /\ Finish(p)
  /\ UNCHANGED <<gen, challenged, alone>>

\* Anything that ends a request before its commit: a wrong password, an error.
Abort(p) ==
  /\ req[p] # Idle
  /\ Finish(p)
  /\ UNCHANGED <<gen, secret, codes, enabled, challenged, uses, confirmed,
                 alone>>

-------------------------------------------------------------------------------
Init ==
  /\ gen = 0 /\ secret = 0 /\ codes = {} /\ enabled = FALSE
  /\ challenged = FALSE
  /\ req = [p \in Procs |-> Idle]
  /\ uses = [c \in Backup |-> 0] /\ confirmed = {}
  /\ alone = TRUE

Next ==
  \/ Setup \/ Challenge \/ ChallengeExpires
  \/ \E p \in Procs :
       \/ \E kind \in Kinds, c \in Backup \cup App : BeginVerify(p, kind, c)
       \/ EndCheck(p) \/ Commit(p) \/ CommitDisable(p) \/ Abort(p)

Spec == Init /\ [][Next]_vars

-------------------------------------------------------------------------------
(* Properties.                                                             *)

\* Every variable keeps its type; nothing is of a setup not made yet, and what a
\* request is to write back no longer holds the code it spends.
TypeOK ==
  /\ gen \in 0 .. MaxSetups /\ secret \in 0 .. gen
  /\ codes \subseteq {c \in Backup : c[1] <= gen}
  /\ enabled \in BOOLEAN /\ challenged \in BOOLEAN
  /\ req \in [Procs -> Req]
  /\ \A p \in Procs : /\ req[p].code \notin req[p].left
                      /\ \A c \in req[p].left : c[1] <= gen
  /\ uses \in [Backup -> 0 .. MaxUses] /\ confirmed \subseteq Setups
  /\ alone \in BOOLEAN

\* A code that is refused, and that no request under way is about to write back,
\* is refused ever after: neither a list restored by a late commit nor a new
\* setup brings back a code of an earlier one.
Pending(c) == \E p \in Procs : c \in req[p].left

CodeLife == INSTANCE Lifecycle WITH
  Ids <- Backup \cup App,
  life <- [c \in Backup \cup App |->
             IF gen < c[1] THEN "unissued"
             ELSE IF Accepts(c) \/ Pending(c) THEN "valid" ELSE "dead"]
CodeLifecycle == CodeLife!Spec

\* docs/security/mfa.md: DELETE /mfa removes the secret and turns the MFA off.
\* Then no account asks for a code that it has no secret to check.
EnabledHasSecret == enabled => secret # 0

\* docs/security/mfa.md: the codes of a setup can be used in place of a TOTP.
\* Then a code of the secret in force that nobody used is still in the list.
UnusedCodeWorks ==
  \A c \in Backup :
    /\ c[1] = secret /\ uses[c] = 0
    /\ \A p \in Procs : req[p].code # c
    => c \in codes

\* What docs/security/mfa.md says of secrets and codes, and overlapping requests
\* break, holds as long as requests come one at a time, whatever the order of
\* setups, logins, enabling and disabling, and whichever of them are cut short:
\* the account never asks for a code it cannot check, and no code is lost.
Sequential == alone => EnabledHasSecret /\ UnusedCodeWorks

-------------------------------------------------------------------------------
(* What the documentation says and the code does not do.                   *)

\* docs/security/mfa.md: a backup code is deleted once used.  Then none is
\* accepted twice.
BackupCodeUsedOnce == \A c \in Backup : uses[c] < 2

\* docs/security/mfa.md: after /setup the MFA is not yet active; /enable checks
\* that the user has scanned the secret.  Then a secret in force was confirmed.
SecretInForceConfirmed == enabled => secret \in confirmed \cup {0}
=============================================================================
