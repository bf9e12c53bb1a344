CONSTANTS
  c1 = c1
  c2 = c2
  Clients = {c1, c2}
  MaxAssetId = 1
  Loaded = 1
  NoRow = NoRow
  Rows <- MCRows
  TextColumns = {"asset_tag"}
  SelectColumns = {"memory"}
  Email = "email_address"
  Texts <- MCTexts
  Empty = ""
  Zero = "0"
  NA = "n/a"
  Null = Null
  Unstorable = {"long"}
  Trim <- MCTrim
  BeforeQuote <- MCBeforeQuote
  Options <- MCOptions
  NoForm = NoForm
  MaxFilled = 1
SPECIFICATION FormSpec
CHECK_DEADLOCK FALSE
PROPERTY UntouchedKept
