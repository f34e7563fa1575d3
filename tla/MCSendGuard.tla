---------------------------- MODULE MCSendGuard ----------------------------
(* Model values and sets for checking SendGuard.                            *)
EXTENDS SendGuard

-----------------------------------------------------------------------------
(* A statement of the program that the code does not keep.                 *)

\* CAPTCHA: "Say something here from Discord's own app; this opens again
\* then, or in half an hour."
CaptchaOpensAgain == shown = "captcha" /\ ~held ~> shown # "captcha"

=============================================================================
