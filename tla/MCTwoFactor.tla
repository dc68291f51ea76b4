---------------------------- MODULE MCTwoFactor ----------------------------
(***************************************************************************)
(* Model-checking instance of TwoFactor and the properties its runs check. *)
(***************************************************************************)
EXTENDS TwoFactor

CONSTANTS r1, r2, s1, s2, s3

\* No guard reads the history variable uses, so a run whose properties do
\* not mention it may identify states that differ only in uses.
ViewWithoutUses == <<user, now, req, issued, verified>>

(***************************************************************************)
(* Properties.                                                             *)
(***************************************************************************)

\* A TOTP code is accepted at most once: validateTOTPCode rejects a code
\* whose step is not later than totp_last_used_at, so a code seen once
\* (over a shoulder, in a proxy log) cannot be replayed by VerifyTOTP or
\* VerifyTwoFALogin.
CodeAcceptedOnce == \A c \in Codes : uses[c] <= 1

\* Two-factor authentication is enabled only with a secret the user has
\* proved to hold: VerifyTOTP and the setup-token login set totp_enabled
\* after a code of the stored secret was accepted, and
\* generateAndStoreTOTPSecret clears totp_enabled with every new secret.
EnabledSecretVerified == user.enabled => user.secret \in verified
=============================================================================
