SPECIFICATION Spec
CONSTANTS
  NibbleCount = 2
  DigitsInMax = 3
  TEXT_WIDTH = 5
  TEXT_HEIGHT = 3
  SymbolFiles <- MCSymbolFiles
  Stacks <- MCStacks
  Characters <- MCCharacters
  Messages <- MCMessages
  MaxMessages = 1
INVARIANT NumbersReadBack
INVARIANT TraceIsTrue
PROPERTY ImplementsPaper
