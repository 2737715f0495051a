SPECIFICATION FSFileSpec
CONSTANTS
  x = x
  lf = lf
  cr = cr
  nul = nul
  lead = lead
  cont = cont
  Byte = {x, lf}
  Nul = nul
  Lead = lead
  Cont = cont
  Sep <- MCBytes
  Chunk = 2
  Words <- MCWords
  MaxText = 5
  Nil = Nil
INVARIANTS FileTypeOK
PROPERTIES  ReadlinesSplits CallsEnd
