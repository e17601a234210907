SPECIFICATION FairSpec
CONSTANTS
  NoName = NoName
  Names = {blueLake, greenHill}
  MaxMail = 2
INVARIANTS TypeOK WatermarkIsExact
 
