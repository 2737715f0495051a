SPECIFICATION FSFileSpec
CONSTANTS
  x = x
  lf = lf
  cr = cr
  nul = nul
  lead = lead
  cont = cont
  Byte = {x, cr, lf}
  Nul = nul
  Lead = lead
  Cont = cont
  Sep <- MCCarriageReturnNewline
  Chunk = 2
  Words <- MCNoWords
  MaxText = 4
  Nil = Nil
INVARIANTS StopsAtSeparator
