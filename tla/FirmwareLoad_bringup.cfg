CONSTANTS
  Readers = {f0, f1}
  NoReader = none
  FlashWords = {board, boot, main}
  MaxLoops = 1
  MaxGiveUps = 1
  Loader = f0
  BoardWord = board
  BootWords = {boot}
  ImageWords = {boot, main}
  MaxStarts = 2
  MaxLosses = 1
SPECIFICATION LoadSpec
INVARIANTS FlashReadRight FirmwareRight
CHECK_DEADLOCK FALSE
