\* Two versions of the firmware, three full boots and a resume on every kind
\* of platform.
CONSTANTS
  Versions = {1, 2}
  MaxBoots = 3
  MaxResumes = 1
SPECIFICATION Spec
INVARIANTS TypeOK SettingsFit ResumeFinds RetrainHonoured
CHECK_DEADLOCK FALSE
