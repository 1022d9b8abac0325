SPECIFICATION Spec
CONSTANTS
  Cards = {"a", "b", "c", "d"}
  Dead = {"d"}
  Bus <- BusC
  Colours = {"GREEN", "RED", "BLUE"}
  RedTypes = {"ISDN", "STATIC", "DHCP"}
  Addresses <- AddressesC
  MaxSetups = 1
  MaxEvents = 1
  MaxChoices = 3
  MaxFaults = 1
  MaxSkips = 1
  Hostnames = {"wall"}
  Domains = {"localdomain"}
  Boots <- BootsC
INVARIANTS
  OnlyChosenDisks
  Installed
  ColoursHaveCards
CHECK_DEADLOCK FALSE
