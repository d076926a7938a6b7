SPECIFICATION Spec
CONSTANTS
  usd = usd
  eur = eur
  lamp = lamp
  lens = lens
  Product = {lamp, lens}
  Currency = {usd, eur}
  DefaultCurrency = usd
  ListPrice <- MCListPrice
  Converted <- MCConverted
  Quotes <- MCQuotes
  Earlier <- MCEarlier
  Nano <- MCNano
  Now <- MCNow
  MaxQuantity = 2
  Numbers = {"visa", "amex"}
  Years = {2030}
  Months = {1}
  MaxCalls = 2
  MaxMoves = 1
INVARIANTS TypeOK ValidEntryIsCurrent OrderIsWhatWasShown PaidAsShown FormKeepsInput
CHECK_DEADLOCK FALSE
