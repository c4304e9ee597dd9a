SPECIFICATION FairSpec
CONSTANTS
  MAX_JSON_BUFFER = 4
  BUFSIZ = 4
  MaxWritten = 5
PROPERTIES
  StopObeyed
