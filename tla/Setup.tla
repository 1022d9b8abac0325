------------------------------- MODULE Setup -------------------------------
(***************************************************************************)
(* The setup program (src/src/installer/setup.c and the dialogs it calls): *)
(* in a row in the chroot of a fresh installation, from a menu afterwards. *)
(* `dialogs' is the stack of open dialogs, its head the one on the screen. *)
(* Cards get their colour's device name from udev's rules, which are       *)
(* written when the card list is closed; ethernet/settings is written when *)
(* the network menu is left.  Only the keys the dialogs test are kept.     *)
(***************************************************************************)
EXTENDS Integers, Sequences, FiniteSets

CONSTANTS
  Cards,        \* network cards
  Dead,         \* those for which no driver makes a device: listed, without device and MAC address
  Bus,          \* where a card is: "pci", "usb", or "isa", found only when its module is loaded by hand
  Colours,      \* colours a card may have, a subset of AllColours
  RedTypes,     \* types of the RED connection offered
  Addresses,    \* addresses typed in for a colour: records of host number and size of the network
  Hostnames, Domains, \* names typed in
  MaxSetups,    \* sessions of setup after the installation
  MaxChoices,   \* menu entries chosen in them
  MaxEvents,    \* power failures during them, cards removed or added between them, and rules that
                \* cannot be written
  MaxFaults,    \* passwords that htpasswd or chpasswd do not set in an installation
  MaxSkips      \* address forms that are left with F12 in an installation

VARIABLES
  mode,         \* flag_is_state of the running setup: "setup", "chroot", or "off"
  dialogs,      \* open dialogs
  proc,         \* memory of the setup process
  eth,          \* /var/ipcop/ethernet/settings
  rules,        \* udev's 70-persistent-net.rules: the colour whose name a card gets
  names,        \* the names the kernel's devices have now
  main,         \* HOSTNAME and DOMAINNAME of main/settings
  hosts,        \* host and domain in the files made of them
  unset,        \* users without a password
  dhcp,         \* dhcp/settings of GREEN
  plugged,      \* cards in the machine
  answered,     \* /tmp/dhcp-eth0.params is there: eth0 had an address while installing
  died,         \* setup was killed by a signal, or could not be run
  lost,         \* history: colours whose card went for a reason the code does not handle
  left          \* history: what is left of the bounds

vars == <<mode, dialogs, proc, eth, rules, names, main, hosts, unset, dhcp, plugged, answered, died, lost, left>>
files == <<eth, rules, names, main, hosts, unset, dhcp>>
world == <<plugged, answered, left>>

AllColours == {"GREEN", "RED", "BLUE", "ORANGE"}
Modem      == {"ANALOG", "GSM3G", "ISDN"}
Addressed  == {"STATIC", "PPPOE", "PPTP"}
Users      == {"root", "admin", "backup"}
None       == "none"
NoAddress  == [host |-> 0, block |-> 0]

ASSUME SetupAssumption ==
  /\ Dead \subseteq Cards /\ None \notin Cards /\ Bus \in [Cards -> {"pci", "usb", "isa"}] /\ {MaxFaults, MaxSkips} \subseteq Nat
  /\ {"GREEN", "RED"} \subseteq Colours /\ Colours \subseteq AllColours
  /\ \A k \in Colours : Addresses[k] \subseteq [host: Nat, block: Nat \ {0}]

\* A file without any key; _DEV is "", the name a device has "now", or the colour's "own".
Fresh == [type  |-> "",
          count |-> [k \in Colours |-> 0],
          dev   |-> [k \in Colours |-> ""],
          addr  |-> [k \in Colours |-> NoAddress]]

\* numnetwork = 0 is a list in which every card is "absent".
Idle == [scanned |-> FALSE, list |-> [c \in Cards |-> "absent"], kv |-> Fresh, red |-> "",
         changed |-> FALSE, typed |-> None, torn |-> FALSE]

-----------------------------------------------------------------------------
On(d) == mode # "off" /\ Head(dialogs) = d

\* The dialog on the screen is replaced by others; with none left setup exits.
Then(ds) ==
  /\ dialogs' = ds \o Tail(dialogs)
  /\ mode' = IF dialogs' = <<>> THEN "off" ELSE mode
Close == Then(<<>>)

\* The process is killed: what was not written is gone.
Killed ==
  /\ mode' = "off" /\ dialogs' = <<>> /\ proc' = Idle
  /\ lost' = IF proc.torn THEN Colours ELSE lost

StartSetup ==
  /\ mode = "off" /\ left.setups > 0
  /\ mode' = "setup" /\ dialogs' = <<"menu">> /\ proc' = Idle
  /\ left' = [left EXCEPT !.setups = @ - 1]
  /\ UNCHANGED <<files, plugged, answered, died, lost>>

Chosen == left.choices > 0 /\ left' = [left EXCEPT !.choices = @ - 1]

SectionMenu ==
  /\ On("menu")
  /\ \/ \E d \in {"keymap", "timezone", "hostname", "domain", "networking", "passwords"} :
          Chosen /\ Then(<<d, "menu">>) /\ proc' = proc
     \/ Close /\ proc' = Idle /\ left' = left
  /\ UNCHANGED <<files, plugged, answered, died, lost>>

\* Keymap and timezone are stored or left as they were; no other dialog reads
\* them. In the chroot the keymap is not asked for if the installer stored one.
handlekeymap ==
  /\ On("keymap") /\ Close
  /\ UNCHANGED <<proc, files, world, died, lost>>

handletimezone ==
  /\ On("timezone") /\ Close
  /\ UNCHANGED <<proc, files, world, died, lost>>

\* The failure of the command that sets a password is shown, and setup goes on.
password(user, set) == unset' = IF set THEN unset \ {user} ELSE unset

\* The last dialogs in the chroot: there is no way back.
InstallPasswords ==
  /\ \E u \in Users, set \in BOOLEAN :
       /\ On(u) /\ password(u, set)
       /\ set \/ left.faults > 0
       /\ left' = [left EXCEPT !.faults = IF set THEN @ ELSE @ - 1]
  /\ Close /\ proc' = IF mode' = "off" THEN Idle ELSE proc
  /\ UNCHANGED <<eth, rules, names, main, hosts, dhcp, plugged, answered, died, lost>>

handlepasswords ==
  /\ On("passwords")
  /\ \/ (\E u \in Users \cup {"dial"}, set \in BOOLEAN : password(u, set)) /\ UNCHANGED <<mode, dialogs>>
     \/ Close /\ unset' = unset
  /\ UNCHANGED <<proc, eth, rules, names, main, hosts, dhcp, world, died, lost>>

writehostsfiles(host, domain) == hosts' = [host |-> host, domain |-> domain]

handlehostname ==
  /\ On("hostname") /\ Close
  /\ \/ \E h \in Hostnames :
          /\ main' = [main EXCEPT !.host = h]
          /\ IF mode = "setup" THEN writehostsfiles(h, main.domain) ELSE hosts' = hosts
     \/ UNCHANGED <<main, hosts>>
  /\ UNCHANGED <<proc, eth, rules, names, unset, dhcp, world, died, lost>>

\* What is typed overwrites the domain in memory before it is looked at, and
\* in the chroot that is what goes to the files when the dialog is skipped.
handledomainname ==
  /\ On("domain")
  /\ \/ /\ proc' = [proc EXCEPT !.typed = "not a domain"]
        /\ UNCHANGED <<main, hosts, mode, dialogs>>
     \/ \E d \in Domains :
          /\ main' = [main EXCEPT !.domain = d]
          /\ writehostsfiles(main.host, d)
          /\ Close /\ proc' = [proc EXCEPT !.typed = None]
     \/ /\ IF mode = "chroot"
           THEN writehostsfiles(main.host, IF proc.typed = None THEN main.domain ELSE proc.typed)
           ELSE hosts' = hosts
        /\ Close /\ proc' = [proc EXCEPT !.typed = None] /\ main' = main
  /\ UNCHANGED <<eth, rules, names, unset, dhcp, world, died, lost>>

-----------------------------------------------------------------------------
(* handlenetworking *)

\* The default address is a string constant, and a key found in the parameters
\* of the installer's DHCP client is copied onto it: the process is killed.
handlenetworking ==
  /\ On("networking")
  /\ IF mode = "chroot" /\ answered
     THEN Killed /\ died' = TRUE
     ELSE /\ proc' = [proc EXCEPT !.kv = eth, !.red = eth.type, !.changed = FALSE]
          /\ Then(IF mode = "chroot" THEN <<"type", "write", "dhcp">> ELSE <<"network">>)
          /\ UNCHANGED <<died, lost>>
  /\ UNCHANGED <<files, world>>

\* Cards scan_hardware finds by their class and a module that knows them.
pci_scan_bus == {c \in plugged : Bus[c] = "pci"}
usb_scan     == {c \in plugged : Bus[c] = "usb"}

\* The configured devices that are still there keep their colour; every card
\* that is listed and not one of them is unused. Done once per process.
scancards(p) ==
  IF p.scanned THEN p
  ELSE [p EXCEPT
    !.scanned = TRUE,
    !.list = [c \in Cards |->
      IF c \notin pci_scan_bus \cup usb_scan THEN "absent"
      ELSE IF mode = "setup" /\ c \notin Dead /\ names[c] \in Colours
              /\ p.kv.count[names[c]] = 1 /\ p.kv.dev[names[c]] # ""
           THEN names[c] ELSE "NONE"]]

Has(p, colour) == \E c \in Cards : p.list[c] = colour

\* The RED type p has after type t has been chosen.
Retyped(p, t) ==
  [p EXCEPT !.kv.type = t, !.red = t, !.changed = TRUE,
            !.kv.dev["RED"] = IF t \in Modem THEN "" ELSE @,
            !.kv.count["RED"] = IF t \in Modem THEN 0 ELSE 1]

\* In the chroot the first type is "", which is none of the buttons: OK
\* without choosing one, or F12, leaves it so. A card that is RED stays RED in the list
\* when a modem is chosen, so coming back to a card does not open the list.
redconfigtype ==
  /\ On("type")
  /\ \E t \in RedTypes \cup {proc.kv.type} :
       LET p == IF t = proc.kv.type THEN proc ELSE Retyped(proc, t)
           list == mode = "chroot" \/ (p.red \notin Modem /\ ~Has(p, "RED")) IN
       /\ Then(IF list THEN <<"cards">> ELSE <<>>)
       /\ proc' = IF list THEN scancards(p) ELSE p
       /\ lost' = IF t # proc.kv.type /\ t \in Modem /\ Has(proc, "RED") THEN lost \cup {"RED"} ELSE lost
  /\ UNCHANGED <<files, world, died>>

\* Load the module of a card that is not listed; nothing happens if that fails.
manuallist ==
  /\ On("cards")
  /\ \E c \in plugged \ (pci_scan_bus \cup usb_scan) : proc.list[c] = "absent" /\ proc' = [proc EXCEPT !.list[c] = "NONE"]
  /\ UNCHANGED <<mode, dialogs, files, world, died, lost>>

\* updatesettings: the keys of a colour when card c gets it, or it has none.
updatesettings(kv, colour, c) ==
  IF colour = "NONE" THEN kv
  ELSE [kv EXCEPT !.count[colour] = IF c = None THEN 0 ELSE 1,
                  !.dev[colour] = IF c = None \/ c \in Dead THEN "" ELSE "now"]

\* Mutant of Offered: a colour but GREEN is offered although a card has it.
OfferedTwice(p) == {k \in Colours : k # "GREEN" \/ ~Has(p, k)} \ (IF p.red \in Modem THEN {"RED"} ELSE {})

Offered(p) ==
  {k \in Colours : ~Has(p, k)} \ (IF p.red \in Modem THEN {"RED"} ELSE {})

cardconfig ==
  /\ On("cards")
  /\ \E c \in Cards, k \in Offered(proc) \cup {"NONE"} :
       /\ proc.list[c] # "absent"
       /\ proc' = [proc EXCEPT !.kv = updatesettings(updatesettings(@, proc.list[c], None), k, c),
                               !.list[c] = k, !.changed = TRUE]
  /\ UNCHANGED <<mode, dialogs, files, world, died, lost>>

\* The dialogs of an installation that follow the card list.
Forms(p) ==
  <<"GREEN">>
  \o (CASE p.red = "STATIC"          -> <<"RED", "dns">>
        [] p.red \in {"PPPOE", "PPTP"} -> <<"RED">>
        [] p.red = "DHCP"            -> <<"dhcphost", "dns">>
        [] p.red = "ISDN"            -> <<"isdn">>
        [] OTHER                     -> <<>>)
  \o (IF "BLUE" \in Colours /\ p.kv.count["BLUE"] # 0 THEN <<"BLUE">> ELSE <<>>)
  \o (IF "ORANGE" \in Colours /\ p.kv.count["ORANGE"] # 0 THEN <<"ORANGE">> ELSE <<>>)

\* Cards without a MAC address get no rule. A colour that is counted and has no
\* card in the list, or one without a device, is lost.
udevconfig(p) ==
  LET named == {k \in Colours : \E c \in Cards \ Dead : p.list[c] = k} IN
  /\ rules' = [c \in Cards |-> IF c \in Dead \/ p.list[c] = "absent" THEN "" ELSE p.list[c]]
  /\ proc' = [p EXCEPT !.kv.dev = [k \in Colours |-> IF k \in named THEN "own" ELSE @[k]], !.torn = TRUE]
  /\ lost' = (lost \cup {k \in Colours : p.kv.count[k] = 1}) \ named

\* The file cannot be opened: what it held stays, and nobody is told.
udevFails(p) ==
  /\ left.events > 0 /\ left' = [left EXCEPT !.events = @ - 1]
  /\ rules' = rules /\ proc' = p /\ lost' = Colours

\* Done is refused without GREEN, and without RED if there is a card for it;
\* if there is none the type may be reset.
cardlistDone ==
  /\ On("cards") /\ Has(proc, "GREEN")
  /\ LET needed == proc.red \notin Modem /\ ~Has(proc, "RED")
         p == IF needed THEN Retyped(proc, "ANALOG") ELSE proc IN
     /\ needed => ~Has(proc, "NONE")
     /\ \/ p.changed /\ udevconfig(p) /\ left' = left
        \/ p.changed /\ udevFails(p)
        \/ ~p.changed /\ UNCHANGED <<rules, proc, lost, left>>
     /\ Then(IF mode = "chroot" THEN Forms(p) ELSE <<>>)
  /\ UNCHANGED <<eth, names, main, hosts, unset, dhcp, plugged, answered, died>>

selectchangeaddress ==
  /\ On("select")
  /\ LET choices == {k \in Colours : proc.kv.dev[k] # "" /\ (k = "RED" => proc.red \in Addressed)} IN
     \/ \E k \in choices : Then(<<k, "select">>) /\ UNCHANGED <<proc, lost, died>>
     \/ choices = {} /\ Killed /\ died' = TRUE          \* the entry that is selected is a null pointer
     \/ Close /\ UNCHANGED <<proc, lost, died>>
  /\ UNCHANGED <<files, world>>

\* Only from the menu there is a button that leads back without an address,
\* but F12 ends the form in an installation as well.
changeaddress ==
  /\ \E k \in Colours : On(k)
  /\ Close
  /\ \/ /\ \E a \in Addresses[Head(dialogs)] :
             proc' = [proc EXCEPT !.kv.addr[Head(dialogs)] = a, !.changed = TRUE]
        /\ left' = left
     \/ mode = "setup" /\ UNCHANGED <<proc, left>>
     \/ /\ mode = "chroot" /\ left.skips > 0
        /\ left' = [left EXCEPT !.skips = @ - 1] /\ proc' = proc
  /\ UNCHANGED <<files, plugged, answered, died, lost>>

\* The name sent to the DHCP server, and name servers and gateway: no dialog
\* tests them.
changehostname ==
  /\ On("dhcphost") /\ Close
  /\ proc' \in {proc, [proc EXCEPT !.changed = TRUE]}
  /\ UNCHANGED <<files, world, died, lost>>

changednsgateway ==
  /\ On("dns") /\ Close
  /\ proc' \in {proc, [proc EXCEPT !.changed = TRUE]}
  /\ UNCHANGED <<files, world, died, lost>>

\* ethernet/isdn is written with OK and left as it was with Go back; no other
\* dialog reads it.
handleisdn ==
  /\ On("isdn") /\ Close
  /\ UNCHANGED <<proc, files, world, died, lost>>

NetworkMenu ==
  /\ On("network") /\ Chosen
  /\ \/ \E d \in {"type", "isdn", "select", "dns", "dhcphost"} : Then(<<d, "network">>) /\ proc' = proc
     \/ Then(<<"cards", "network">>) /\ proc' = scancards(proc)
  /\ UNCHANGED <<files, plugged, answered, died, lost>>

\* The settings are written if something was changed; rc.net then unloads and
\* loads the drivers, so that the devices get the names of the rules.
WriteSettings ==
  /\ On("network") \/ On("write")
  /\ Close
  /\ proc' = [proc EXCEPT !.torn = FALSE, !.kv = Fresh]
  /\ IF mode = "chroot" \/ proc.changed THEN eth' = proc.kv ELSE eth' = eth
  /\ names' = IF mode = "setup" /\ proc.changed THEN rules ELSE names
  /\ UNCHANGED <<rules, main, hosts, unset, dhcp, world, died, lost>>

\* read_ethernet_settings: a colour that is counted has an address.
Readable(kv) == \A k \in Colours \ {"RED"} : kv.count[k] = 1 => kv.addr[k] # NoAddress

\* The range proposed for the DHCP server on GREEN, in host numbers.
DhcpRange(a) ==
  LET net == a.host - (a.host % a.block)
      broadcast == net + a.block - 1 IN
  IF a.host + 2 < broadcast
  THEN [from |-> a.host + 1, to |-> broadcast - 1]
  ELSE [from |-> net + 1, to |-> a.host - 1]

\* What is typed in is only checked to be addresses.
changedhcpserver ==
  /\ On("dhcp") /\ Close
  /\ dhcp' \in IF Readable(eth)
               THEN [state: {"off", "proposed", "typed"}, range: {DhcpRange(eth.addr["GREEN"])}]
               ELSE {dhcp}
  /\ UNCHANGED <<proc, eth, rules, names, main, hosts, unset, world, died, lost>>

-----------------------------------------------------------------------------
(* The world *)

PowerCut ==
  /\ mode = "setup" /\ left.events > 0 /\ Killed
  /\ left' = [left EXCEPT !.events = @ - 1]
  /\ names' = rules
  /\ UNCHANGED <<eth, rules, main, hosts, unset, dhcp, plugged, answered, died>>

\* A card is removed or added while the machine is switched off.
SwapCard ==
  /\ mode = "off" /\ left.events > 0
  /\ \E c \in Cards :
       /\ plugged' = IF c \in plugged THEN plugged \ {c} ELSE plugged \cup {c}
       /\ lost' = IF c \in plugged THEN lost \cup ({rules[c]} \cap Colours) ELSE lost
       /\ names' = [rules EXCEPT ![c] = IF c \in plugged THEN "" ELSE @]
  /\ left' = [left EXCEPT !.events = @ - 1]
  /\ UNCHANGED <<mode, dialogs, proc, eth, rules, main, hosts, unset, dhcp, answered, died>>

NoDhcp == [state |-> "off", range |-> [from |-> 0, to |-> 0]]

SetupInit ==
  /\ mode = "off" /\ dialogs = <<>> /\ proc = Idle
  /\ eth = Fresh /\ rules = [c \in Cards |-> ""] /\ names = rules
  /\ main = [host |-> "ipcop", domain |-> "localdomain"] /\ hosts = [host |-> None, domain |-> None]
  /\ unset = Users /\ dhcp = NoDhcp
  /\ answered = FALSE /\ died = FALSE /\ lost = {}
  /\ left = [setups |-> MaxSetups, choices |-> MaxChoices, events |-> MaxEvents, faults |-> MaxFaults,
              skips |-> MaxSkips]

Dialog ==
  \/ SectionMenu \/ handlekeymap \/ handletimezone \/ InstallPasswords \/ handlepasswords
  \/ handlehostname \/ handledomainname \/ handlenetworking \/ redconfigtype
  \/ manuallist \/ cardconfig \/ cardlistDone \/ selectchangeaddress \/ changeaddress
  \/ changehostname \/ changednsgateway \/ handleisdn \/ NetworkMenu \/ WriteSettings \/ changedhcpserver

-----------------------------------------------------------------------------
\* Whenever setup is not running, ethernet/settings and udev's rules agree: a
\* colour that is counted is named in the settings and is the name of exactly
\* one card, a network RED is counted, and GREEN always is. The two files are
\* written by different dialogs (networking.c:624, 1230) from a list that other
\* dialogs change. Excepted are the colours of `lost': their card has no
\* driver, was taken out of the machine or is not found by the scan (their
\* count stays 1), or RED became a modem and a card again, or power failed
\* between the two files or the rules could not be written; and a machine on
\* which setup was killed or did not run.
ColoursHaveCards ==
  mode = "off" /\ eth # Fresh /\ ~died =>
    /\ eth.count["GREEN"] = 1
    /\ eth.type \notin Modem => eth.count["RED"] = 1
    /\ \A k \in Colours \ lost : eth.count[k] = 1 =>
         /\ eth.dev[k] = "own"
         /\ Cardinality({c \in plugged : rules[c] = k}) = 1
=============================================================================
