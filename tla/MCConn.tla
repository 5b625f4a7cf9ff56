------------------------------- MODULE MCConn -------------------------------
(* Instances of Conn for TLC. *)
EXTENDS Conn

CONSTANTS s1, s2

AllModes == {ModeSMTP, ModeSubmission, ModeSubmissionTLS}
SMTPOnly == {ModeSMTP}
=============================================================================
