CONSTANTS
  MaxLength = 5
  Limit = 4
  Texts <- MCTexts
SPECIFICATION Spec
INVARIANTS
  TypeOK
  SettingsSent
  AllOrNothing
