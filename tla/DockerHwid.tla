----------------------------- MODULE DockerHwid -----------------------------
(***************************************************************************)
(* licensing/docker_hwid.py: the identity of the host, from inside a       *)
(* container.  A container `v` is what it can read: the variables of its   *)
(* environment, the files mounted from the host, and its own files.  Every *)
(* error of the module is NoHwid to its callers.                           *)
(*                                                                         *)
(* SHA-256 is taken to be injective: an identity is the sequence of the    *)
(* components that are joined and hashed.                                  *)
(***************************************************************************)
EXTENDS Integers, Sequences, FiniteSets

CONSTANTS
  Missing,       \* no such file or variable
  Unreadable,    \* the file is there, and reads as nothing
  Placeholder,   \* "none", "default string", "to be filled by o.e.m."
  Implausible,   \* machine-ids too short, uniform or of low entropy
  Vague,         \* DMI values that are read, but too short or other placeholders
  NoHwid         \* DockerHWIDError and its subclasses

ASSUME FilesAssumption == {Missing, Unreadable, Placeholder} \cap (Implausible \cup Vague) = {}

Nothing == {Missing, Unreadable}

(* The mount alone makes a container, even if nothing can be read there.   *)
IsDocker(v) == v.marker \/ v.host_id # Missing

(* LICENSE_HWID counts only in Kubernetes, and signed by the vendor, whose *)
(* key is found at the given path. *)
EnvHwid(v, path) ==
  IF v.kubernetes /\ v.signed /\ path \in v.keys THEN <<v.env>> ELSE NoHwid

(* _get_vm_machine_id: of the container's own file, under Docker Desktop   *)
(* the one of its virtual machine. *)
VmMachineId(v) ==
  IF v.own_id \in Nothing \cup Implausible THEN Missing ELSE v.own_id

(* check_bind_mounts only looks for the paths. *)
CheckBindMounts(v) ==
  \/ v.host_id # Missing
  \/ v.dmi_dir
  \/ v.env # Missing
  \/ VmMachineId(v) # Missing

HostMachineId(v) == IF v.host_id \in Nothing THEN Missing ELSE v.host_id

DmiFields == {"product_uuid", "board_serial", "product_serial", "board_vendor"}

HostDmi(v) == {f \in DmiFields : v.dmi_dir /\ v.dmi[f] \notin Nothing \cup {Placeholder}}

(* A vague value counts for nothing here, and is part of the identity all  *)
(* the same. *)
ValidDmi(v) ==
  LET fields  == HostDmi(v)
      clear   == {g \in fields : v.dmi[g] \notin Vague}
      telling == {v.dmi[f] : f \in clear}
  IN fields = {} \/ (telling # {} /\ (Cardinality(clear) > 1 => Cardinality(telling) > 1))

Field(v, f) == IF f \in HostDmi(v) THEN v.dmi[f] ELSE Missing

(* What is there is joined. *)
Given(component) == IF component = Missing THEN <<>> ELSE <<component>>

Components(v) ==
  Given(HostMachineId(v))
    \o Given(Field(v, "product_uuid"))
    \o Given(Field(v, IF "board_serial" \in HostDmi(v) THEN "board_serial" ELSE "product_serial"))

(* generate_docker_hwid *)
GenerateDockerHwid(v, path) ==
  IF v.env # Missing THEN EnvHwid(v, path)
  ELSE IF ~CheckBindMounts(v) \/ v.host_id \in Implausible \/ ~ValidDmi(v) THEN NoHwid
  ELSE LET components == Components(v)
       IN IF components # <<>> THEN components
          ELSE IF VmMachineId(v) # Missing THEN <<VmMachineId(v)>>
          ELSE NoHwid
=============================================================================
