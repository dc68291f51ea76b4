----------------------------- MODULE TwoFactor -----------------------------
(***************************************************************************)
(* TOTP two-factor authentication of one user (two_factor.go).            *)
(*                                                                         *)
(* Every handler loads the user row, checks it, and later writes the       *)
(* columns it changes with an UPDATE by id; requests run concurrently, so  *)
(* a request is a Read step (the load) and a step of its handler (the     *)
(* checks on the loaded row, validateTOTPCode against it and the clock,    *)
(* then the update).  A TOTP code is abstracted to the pair               *)
(* <<secret, step>> it is generated from: different pairs never give the   *)
(* same code.                                                              *)
(***************************************************************************)
EXTENDS Naturals, FiniteSets

CONSTANTS
    Requests,     \* concurrent HTTP requests of the user's sessions
    Secrets,      \* secrets totp.Generate may return
    MaxStep,      \* bound on the clock, in 30-second TOTP steps
    MaxInflight,  \* bound on requests between their Read and their Commit
    NoSecret,     \* totp_secret = ''
    NoStep        \* totp_last_used_at IS NULL

Steps == 1..MaxStep
Codes == Secrets \X Steps

\* The handlers: SetupTOTP / SetupTOTPWithToken, ResetTOTP, DisableTOTP,
\* VerifyTOTP, and VerifyTwoFALogin with a login or a setup token.
Kinds == {"setup", "reset", "disable", "verify", "login", "setupLogin"}
WithCode == {"verify", "login", "setupLogin"}

UserRow == [secret: Secrets \cup {NoSecret}, enabled: BOOLEAN,
            lastStep: Steps \cup {NoStep}]

VARIABLES
    user,      \* the users row: totp_secret, totp_enabled, totp_last_used_at
    now,       \* time.Now(), in TOTP steps
    req,       \* per request: where it is, its kind, its code, the row it loaded
    issued,    \* secrets generated so far
    uses,      \* history: per code, acceptances by validateTOTPCode (capped at 2)
    verified   \* history: secrets a code was accepted for

vars == <<user, now, req, issued, uses, verified>>

\* The row before any setup: no secret, disabled, never used.
NoUser == [secret |-> NoSecret, enabled |-> FALSE, lastStep |-> NoStep]
Idle == [pc |-> "idle", kind |-> "setup", code |-> <<NoSecret, 1>>, snap |-> NoUser]

TypeOK ==
    /\ user \in UserRow
    /\ now \in Steps
    /\ req \in [Requests -> [pc: {"idle", "read"}, kind: Kinds,
                             code: (Secrets \cup {NoSecret}) \X Steps, snap: UserRow]]
    /\ issued \subseteq Secrets
    /\ uses \in [Codes -> 0..2]
    /\ verified \subseteq Secrets

Init ==
    /\ user = NoUser
    /\ now = 1
    /\ req = [r \in Requests |-> Idle]
    /\ issued = {}
    /\ uses = [c \in Codes |-> 0]
    /\ verified = {}

Inflight == {r \in Requests : req[r].pc = "read"}

\* A request loads the row.  A code-carrying request brings a code the
\* user's authenticator (or an eavesdropper) has seen.
Read(r) ==
    /\ req[r].pc = "idle"
    /\ Cardinality(Inflight) < MaxInflight
    /\ \E kind \in Kinds :
       \E c \in IF kind \in WithCode THEN issued \X Steps ELSE {<<NoSecret, 1>>} :
         req' = [req EXCEPT ![r] = [pc |-> "read", kind |-> kind,
                                    code |-> c, snap |-> user]]
    /\ UNCHANGED <<user, now, issued, uses, verified>>

\* validateTOTPCode: the code matches the secret at one of the steps
\* now-1, now, now+1, and that step is later than the last used one.
ValidateTOTPCode(secret, code, t, last) ==
    /\ code[1] = secret
    /\ code[2] \in {t - 1, t, t + 1}
    /\ last \in Steps => code[2] > last

\* Mutant: generateAndStoreTOTPSecret leaves totp_enabled as it was.
StoreKeepsEnabled(s) ==
    [user EXCEPT !.secret = s, !.lastStep = NoStep]

\* The update of generateAndStoreTOTPSecret: new secret, disabled, unused.
StoreTOTPSecret(s) ==
    [secret |-> s, enabled |-> FALSE, lastStep |-> NoStep]

\* generateAndStoreTOTPSecret: totp.Generate (taken to fail once the
\* model's secrets are used up) and the update.
GenerateAndStoreTOTPSecret ==
    \/ /\ issued = Secrets
       /\ UNCHANGED <<user, issued>>
    \/ \E s \in Secrets \ issued :
         /\ user' = StoreTOTPSecret(s)
         /\ issued' = issued \cup {s}

\* Mutant: the update map of DisableTOTP writes the zero time.Time (step 0)
\* to totp_last_used_at instead of NULL.
ClearTOTPZeroTime(row) == [row EXCEPT !.secret = NoSecret, !.enabled = FALSE, !.lastStep = 0]

\* DisableTOTP's update: totp_secret = '', totp_enabled = false,
\* totp_last_used_at = NULL.
ClearTOTP(row) == [row EXCEPT !.secret = NoSecret, !.enabled = FALSE, !.lastStep = NoStep]

\* The request r answers and is done.
Done(r) == req' = [req EXCEPT ![r] = Idle]

\* A handler whose check on the loaded row fails answers an error.
Rejected(r, check) ==
    /\ ~check
    /\ UNCHANGED <<user, issued, uses, verified>>

\* The row's code check and its update: totp_last_used_at := the step the
\* code matched, and totp_enabled := TRUE when enable holds.  The UPDATE
\* may fail: VerifyTwoFALogin only logs that and issues the tokens
\* (failLogged), VerifyTOTP answers 500.
AcceptCode(r, enable, failLogged) ==
    LET u == req[r].snap  c == req[r].code
        Accepted == /\ uses' = [uses EXCEPT ![c] = IF @ < 2 THEN @ + 1 ELSE 2]
                    /\ verified' = verified \cup {c[1]}
    IN
    \/ /\ ValidateTOTPCode(u.secret, c, now, u.lastStep)
       /\ user' = [user EXCEPT !.lastStep = c[2], !.enabled = IF enable THEN TRUE ELSE @]
       /\ Accepted
       /\ UNCHANGED issued
    \/ /\ ValidateTOTPCode(u.secret, c, now, u.lastStep)
       /\ failLogged /\ Accepted
       /\ UNCHANGED <<user, issued>>
    \/ /\ ValidateTOTPCode(u.secret, c, now, u.lastStep)
       /\ ~failLogged
       /\ UNCHANGED <<user, issued, uses, verified>>
    \/ /\ ~ValidateTOTPCode(u.secret, c, now, u.lastStep)
       /\ UNCHANGED <<user, issued, uses, verified>>

\* SetupTOTPWithToken's (and SetupTOTP's) check: a secret is generated only
\* while 2FA is not enabled, else 409 Conflict.
SetupAllowed(u) == ~u.enabled

SetupTOTP(r) ==
    LET u == req[r].snap  check == SetupAllowed(u) IN
    /\ req[r].pc = "read" /\ req[r].kind = "setup" /\ Done(r)
    /\ \/ Rejected(r, check)
       \/ check /\ GenerateAndStoreTOTPSecret /\ UNCHANGED <<uses, verified>>
    /\ UNCHANGED now

ResetTOTP(r) ==
    LET u == req[r].snap  check == u.enabled /\ u.secret # NoSecret IN
    /\ req[r].pc = "read" /\ req[r].kind = "reset" /\ Done(r)
    /\ \/ Rejected(r, check)
       \/ check /\ GenerateAndStoreTOTPSecret /\ UNCHANGED <<uses, verified>>
    /\ UNCHANGED now

DisableTOTP(r) ==
    LET u == req[r].snap  check == u.enabled /\ u.secret # NoSecret IN
    /\ req[r].pc = "read" /\ req[r].kind = "disable" /\ Done(r)
    /\ \/ Rejected(r, check)
       \/ /\ check
          /\ user' = ClearTOTP(user)
          /\ UNCHANGED <<issued, uses, verified>>
    /\ UNCHANGED now

VerifyTOTP(r) ==
    LET u == req[r].snap  check == u.secret # NoSecret IN
    /\ req[r].pc = "read" /\ req[r].kind = "verify" /\ Done(r)
    /\ \/ Rejected(r, check)
       \/ check /\ AcceptCode(r, TRUE, FALSE)
    /\ UNCHANGED now

\* With a login token 2FA must be enabled; with a setup token the login
\* also enables it.
VerifyTwoFALogin(r) ==
    LET u == req[r].snap  k == req[r].kind
        check == u.secret # NoSecret /\ (k = "login" => u.enabled)
    IN
    /\ req[r].pc = "read" /\ k \in {"login", "setupLogin"} /\ Done(r)
    /\ \/ Rejected(r, check)
       \/ check /\ AcceptCode(r, k = "setupLogin" /\ ~u.enabled, TRUE)
    /\ UNCHANGED now

\* Thirty seconds pass.
Tick ==
    /\ now < MaxStep
    /\ now' = now + 1
    /\ UNCHANGED <<user, req, issued, uses, verified>>

Next ==
    \/ Tick
    \/ \E r \in Requests :
         \/ Read(r) \/ SetupTOTP(r) \/ ResetTOTP(r) \/ DisableTOTP(r)
         \/ VerifyTOTP(r) \/ VerifyTwoFALogin(r)

Spec == Init /\ [][Next]_vars

=============================================================================
