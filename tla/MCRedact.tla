------------------------------ MODULE MCRedact ------------------------------
EXTENDS Redact

MCUsernameFields == <<"username", "email">>
==============================================================================
