SPECIFICATION Spec

CONSTANTS
  Texts <- MCTexts
  DecimalsFlags <- MCDecimalsFlags
  MaxUint8 = 3
  TokenDecimals = 2
  TokenSymbol <- MCTokenSymbol
  ImportedValues <- MCImportedValues

INVARIANT
  AmountHasDigit
