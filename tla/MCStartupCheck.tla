--------------------------- MODULE MCStartupCheck ---------------------------
(* A small instance of StartupCheck for TLC. *)
EXTENDS StartupCheck

CONSTANTS
  n1, n2,                  \* nodes
  hostA, hostB, hostC,     \* hosts, which are also hostnames
  idA, idB,                \* machine-ids
  zeros,                   \* a machine-id of zeros
  uuidA, uuidB, cpuA, cpuB, boardA, boardB, vendor,
  hp, notSpecified,        \* DMI values that are read, but say nothing
  mac1, mac2, mac3,
  podA, podB,              \* names of Kubernetes nodes
  code                     \* a monitored file

TwoNodes == {n1, n2}

Zeros == {zeros}

Short == {hp, notSpecified}

Code == {code}

At(v1, v2) == [n \in Nodes |-> IF n = n1 THEN v1 ELSE v2]

NoDmi == [f \in DmiFields |-> Missing]

Machine(host, mac) ==
  [ host |-> host, hostname |-> host, platform |-> "Linux", signs |-> {}, mac |-> mac,
    marker |-> FALSE, kubernetes |-> FALSE, env |-> Missing, signed |-> FALSE,
    keys |-> {"default", "configured"}, host_id |-> Missing, dmi_dir |-> FALSE,
    dmi |-> NoDmi, own_id |-> Missing, sources |-> [s \in {} |-> Missing], url |-> TRUE,
    present |-> Code, altered |-> {} ]

-----------------------------------------------------------------------------
(* Containers. *)

(* As docker-compose.yml starts them. *)
Compose(host, mac, id, dmi) ==
  [Machine(host, mac) EXCEPT !.marker = TRUE, !.host_id = id, !.dmi_dir = TRUE, !.dmi = dmi]

FullDmi(uuid, board) == [NoDmi EXCEPT !.product_uuid = uuid, !.board_serial = board, !.board_vendor = vendor]

VagueDmi == [NoDmi EXCEPT !.product_uuid = Placeholder, !.board_serial = notSpecified, !.board_vendor = vendor]

ComposeA == Compose(hostA, mac1, idA, FullDmi(uuidA, boardA))

ComposeB == Compose(hostB, mac2, idB, FullDmi(uuidB, boardB))

(* Two machines without a machine-id whose serial numbers say nothing.     *)
VagueA == Compose(hostA, mac1, Missing, VagueDmi)

VagueB == Compose(hostB, mac2, Unreadable, VagueDmi)

(* Docker Desktop: the mounts are empty directories. *)
Desktop == [Compose(hostC, mac3, Unreadable, NoDmi) EXCEPT !.own_id = idB]

DesktopAgain == [Desktop EXCEPT !.mac = mac1]

Spoofed == Compose(hostB, mac2, zeros, NoDmi)

ShortVendor == Compose(hostB, mac2, idB, [NoDmi EXCEPT !.board_vendor = hp])

(* Kubernetes: nothing mounted, nothing that tells of a container, and the *)
(* board of the node. *)
Pod(host, mac, name, board) ==
  [Machine(host, mac) EXCEPT
     !.kubernetes = TRUE, !.env = name, !.signed = TRUE,
     !.sources = [etc_machine_id |-> Missing, cpuinfo |-> cpuA, board_serial |-> board]]

PodA == Pod(hostA, mac1, podA, boardA)

PodAgain == Pod(hostA, mac3, podA, boardA)

(* As k8s-deployment.yml is. *)
Template == [Pod(hostC, mac3, podB, boardB) EXCEPT !.signed = FALSE, !.url = FALSE]

-----------------------------------------------------------------------------
(* Machines. *)

WindowsHome ==
  [Machine(hostA, mac1) EXCEPT
     !.platform = "Windows", !.signs = {"agent"},
     !.sources = [wmi_cpu |-> Missing, wmic_cpu |-> cpuA, wmi_board |-> boardA]]

WindowsRepaired == [WindowsHome EXCEPT !.mac = mac3]

WindowsAltered == [WindowsHome EXCEPT !.altered = Code]

Compiled ==
  [Machine(hostB, mac2) EXCEPT
     !.own_id = idB, !.present = {}, !.altered = Code,
     !.sources = [etc_machine_id |-> idB, board_serial |-> Unreadable, product_uuid |-> uuidB]]

Virtual ==
  [Machine(hostC, mac3) EXCEPT
     !.signs = {"nic", "firmware"}, !.own_id = Unreadable,
     !.sources = [etc_machine_id |-> Unreadable]]

AllViews ==
  {ComposeA, ComposeB, VagueA, VagueB, Desktop, DesktopAgain, Spoofed,
   ShortVendor, PodA, PodAgain, Template,
   WindowsHome, WindowsRepaired, WindowsAltered, Virtual, Compiled}

Containers ==
  {At(ComposeA, ComposeB), At(VagueA, VagueB), At(Desktop, Spoofed),
   At(ShortVendor, Template), At(PodA, PodAgain)}

Installed == {At(WindowsHome, Compiled), At(WindowsAltered, Virtual)}

AllScenarios ==
  [docker : {TRUE}, at : Containers] \cup [docker : {FALSE}, at : Installed]

(* A new container gets a new network card, and so does a repaired machine.*)
NewCards == {<<Desktop, DesktopAgain>>, <<WindowsHome, WindowsRepaired>>}
=============================================================================
