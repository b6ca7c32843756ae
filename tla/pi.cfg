SPECIFICATION LiveSpec
CONSTANTS
  t1 = t1
  t2 = t2
  m1 = m1
  m2 = m2
  d1 = d1
  cart = cart
  rom = rom
  sram = sram
  leo = leo
  Threads = {t1, t2}
  Boot = t1
  RaceAtBoot = FALSE
  Mesgs = {m1, d1}
  Owner <- OwnerOf
  NoMesg = NoMesg
  DiskMesgs = {d1}
  Handles = {rom, cart}
  Disk = leo
  TypeOf <- HandleType
  DomainOf <- Domains
  SpeedOf <- HandleType
  BootSpeed = sram
  CmdLen = 2
  RetLen = 2
  Sectors = 2
  Parity = 1
  Spare = 1
  MaxC1 = 0
  MaxCalls = 3
INVARIANTS OneOwner AwaitsItsOwn AtItsSpeed
CHECK_DEADLOCK FALSE
PROPERTIES Served
