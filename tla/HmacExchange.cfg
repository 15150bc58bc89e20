\* Two secrets are kept; the provider rotates up to two times.
CONSTANTS
  KeyOrder <- MCKeyOrder
  LocaleOrder <- MCLocaleOrder
  HeaderOrder <- MCHeaderOrder
  LowerCase <- MCLowerCase
  RefusedValues <- MCRefusedValues
  Requests <- MCRequests
  ClientRules <- MCClientRules
  Keep = 2
  MaxVersion = 3
SPECIFICATION ExchangeSpec
INVARIANTS
  ExchangeTypeOK
  FaithfulAccepted
  AcceptedIsGenuine
  MiddlewareAnswersForItself
