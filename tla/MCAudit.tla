------------------------------ MODULE MCAudit ------------------------------
(* Model-checking instances of Audit.                                       *)
EXTENDS Audit

CONSTANTS h1, h2, g1

HTTP == {h1, h2}
GRPC == {g1}
Both == <<"file", "url">>
=============================================================================
