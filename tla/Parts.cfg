SPECIFICATION Spec
CONSTANTS
  Walls <- PWalls  Zones = {0, 2}  None = None  TOLERANCE_S = 1  MaxFaults = 1  MaxUpsets = 2
  Rules <- PRules  Walks <- PWalks  MAX_ROLLOVER_DAYS = 1100
  Letters <- PLetters  Strays <- PStrays  MAX_SLOTS = 2  MaxDamage = 1
  Contents <- PContents  RuleTexts <- PRuleTexts  MaxCuts = 1
  SSID_LEN = 2  PASSWORD_LEN = 2  HOST_LEN = 2  USER_LEN = 1  NAME_LEN = 2  RULE_LEN = 2
  SCHEDULE_SLOTS = 2  MIN_DETENT_MS = 50  DEFAULT_DETENT_MS = 300
  Bodies <- PBodies  MARK <- PMark  MIN_IMAGE_LEN = 9  DIGEST_LEN = 2  BLOCK = 4  LENGTH_BYTES = 1
  SLOT_LEN = 12  SECTOR_LEN = 4  WRITE_LEN = 2  REQUEST_LEN = 3
  Connections = {1, 2}  Requests <- PRequests  Browsing = {1}  Units <- PUnits  Browsers <- PBrowsers
  MAX_MEALS = 2  MAX_CLICKS = 16  FEED_DEPTH = 1  BODY_LEN = 6
  Words <- PWords  TimeName <- PTimeName  PortionsName <- PPortionsName
  DetentRange = {1900, 2000}  ScaleRange = {100}  Addresses = {"10.0.0.2"}  ZoneRules = {"EU", "US"}
INVARIANTS
  LaundersNothing ClockKeepsTheRule NothingHalfRead TornIsNone StreamedAsWhole
PROPERTIES
  SetInTheEnd AsTheFormAsked
