SPECIFICATION Spec

CONSTANTS
  Digests = {1, 2, 3}
  Model <- MCModel
  Tokens <- MCTokens
  Price <- MCPrice
  PicturePrice <- MCPicturePrice
  Luna = "luna"
  Long = 4
  PerDay = 2
  MaxTime = 5
  MaxDigests = 2
  Week = 2
  Month = 2
  Retentions = {1, 2}
  ImageModels = {"mini", "yandex-art"}
  None = None

INVARIANTS
  DaysComplete
  CostIsComplete
  QuietReportIsExact
