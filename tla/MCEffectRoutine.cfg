SPECIFICATION EffectSpec
CONSTANTS
  dark = dark
  red = red
  black = black
  lit = lit
  NumPixels = 3
  Hsi = {dark, red}
  Black = dark
  Rgb = {black, lit}
  Convert <- OneToOne
  NotSent = NotSent
INVARIANTS
  OnlyMissedPixelsDiffer
  SentIsDrawn
  CopyStaysInArray
