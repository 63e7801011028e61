SPECIFICATION Spec
CONSTANTS
  SecretNames = {"password", "access_token"}
  LeadingNames = {"password"}
  UsernameFields <- MCUsernameFields
  MaxFields = 3
INVARIANT NoSecretInClear
CHECK_DEADLOCK FALSE
