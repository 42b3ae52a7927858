SPECIFICATION DecoderSpec
CONSTANTS
  Long = 8
  Short = 6
  Shown = 4
  Targets = {"I420", "NV12", "NV21"}
  Margins = {0, 2}
  Pads = {0, 2}
  NumFormats = 2
INVARIANT PictureRight
CHECK_DEADLOCK FALSE
