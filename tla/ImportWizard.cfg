SPECIFICATION Spec
CONSTANTS
  text = text
  archive = archive
  b1 = b1
  n1 = n1
  n2 = n2
  n3 = n3
  Wizards = {w1}
  Sources = {text, archive}
  Carries <- Contents
  Mixed = {archive}
  Books = {b1, n1, n2, n3}
  Own = {b1}
  Earlier <- Imported
  MaxCalls = 4
  MaxMishaps = 1
  None = None
INVARIANTS ImportTypeOK NoStuckSpinner WizardTellsTheTruth ReimportsAreNoticed
PROPERTIES OverwriteWasConfirmed
CHECK_DEADLOCK FALSE
