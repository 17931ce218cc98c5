----------------------------- MODULE VMDetector -----------------------------
(***************************************************************************)
(* licensing/vm_detector.py: the checks of each platform, what each of     *)
(* them looks for, and the threshold.  A machine `v` is what it shows: its *)
(* platform, and the signs of virtualization it carries.  A check whose    *)
(* command times out or raises adds nothing.                               *)
(***************************************************************************)
EXTENDS Integers, FiniteSets

(* The network card, the DMI or BIOS strings, the model name (which        *)
(* several checks read), the registry, a guest agent, the hypervisor bit,  *)
(* the traces of a container. *)
Signs == {"nic", "firmware", "model", "registry", "agent", "hypervisor", "container"}

Platforms == {"Windows", "Linux", "WSL2", "Darwin", "other"}

(* What each check takes for a sign. *)
LooksFor ==
  [ mac_address_oui        |-> {"nic"},
    windows_bios_string    |-> {"firmware", "model"},
    windows_registry       |-> {"registry"},
    windows_wmi_model      |-> {"model"},
    windows_vm_process     |-> {"agent"},
    linux_dmi_string       |-> {"firmware", "model"},
    linux_cpuid_hypervisor |-> {"hypervisor"},
    linux_container        |-> {"container"},
    linux_vm_process       |-> {"agent"},
    macos_model            |-> {"firmware", "model"},
    macos_vm_process       |-> {"agent"} ]

Checks == DOMAIN LooksFor

(* Under WSL2 the DMI and CPUID checks report nothing, whatever they would *)
(* find. *)
ChecksOf(platform) ==
  {"mac_address_oui"} \cup
  CASE platform = "Windows" -> {"windows_bios_string", "windows_registry",
                                "windows_wmi_model", "windows_vm_process"}
    [] platform = "Linux"   -> {"linux_dmi_string", "linux_cpuid_hypervisor",
                                "linux_container", "linux_vm_process"}
    [] platform = "WSL2"    -> {"linux_container", "linux_vm_process"}
    [] platform = "Darwin"  -> {"macos_model", "macos_vm_process"}
    [] OTHER                -> {}

Positive(v, failed) ==
  {c \in ChecksOf(v.platform) \ failed : LooksFor[c] \cap v.signs # {}}

(* check_all: two signals are needed. *)
IsVirtual(v, failed) == Cardinality(Positive(v, failed)) >= 2
=============================================================================
