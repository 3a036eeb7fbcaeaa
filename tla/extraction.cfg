SPECIFICATION EverySpec
CONSTANTS
  MaxSlides = 2
  VideoFrames = 5
  MaxVisionFrames = 4
  FirstPass = 1
  VisionBatch = 2
  MaxJobCost = 6
  OcrCents = 1
  TextCents <- OneCent
  SpeechCents <- OneCent
  ImageCents <- OneCent
CHECK_DEADLOCK FALSE
INVARIANTS BillsAgree FramesSentOnce  IngredientsStayInPlace
PROPERTY ImagesWithinBudget
