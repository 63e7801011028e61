SPECIFICATION Spec
CONSTANTS
  SecretNames = {"password", "access_token"}
  LeadingNames = {"password"}
  UsernameFields <- MCUsernameFields
  MaxFields = 3
INVARIANTS
  SecretsAreHashed
  OnlySecretsAreHashed
  UserIsCountedAsSent
CHECK_DEADLOCK FALSE
