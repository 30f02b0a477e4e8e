SPECIFICATION Spec
CONSTANTS
  Byte <- MCByte
  N <- MCN
  MaxChunk <- MCMaxChunk
  Zero <- MCZero
PROPERTY ImplementsFifo
PROPERTY ViewsStayGood
