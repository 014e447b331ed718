--------------------------- MODULE MCSmtpSession ---------------------------
(* The SMTP dialogue on small instances. *)
EXTENDS SmtpSession, TLC

=============================================================================
