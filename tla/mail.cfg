SPECIFICATION MailLiveSpec
CONSTANTS
  MaxMail = 2
  MaxAttempts = 2
  MaxStops = 1
PROPERTIES JudgedOnce MailIsHandled
