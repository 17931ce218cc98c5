----------------------------- MODULE HardwareId -----------------------------
(***************************************************************************)
(* licensing/hwid_generator.py: the identity of a machine.  In a container *)
(* it is that of DockerHwid, with the default path of the key; otherwise,  *)
(* and if that fails, three local components, each from the first source   *)
(* of the platform that gives a value.  v.sources[s] is what source s      *)
(* would answer (a serial number that the code does not accept counts as   *)
(* Missing).  A source that is a command may be lost, as it times out      *)
(* after 5 seconds, and so may one that asks WMI, whose errors only log:   *)
(* the next source is taken instead.                                       *)
(***************************************************************************)
EXTENDS DockerHwid

CpuSources(platform) ==
  CASE platform \in {"Linux", "WSL2"} -> <<"etc_machine_id", "dbus_machine_id", "cpuinfo", "dmidecode_cpu">>
    [] platform = "Windows"           -> <<"wmi_cpu", "wmic_cpu">>
    [] platform = "Darwin"            -> <<"ioreg_uuid", "profiler_uuid">>
    [] OTHER                          -> <<>>

BoardSources(platform) ==
  CASE platform \in {"Linux", "WSL2"} -> <<"board_serial", "product_serial", "product_uuid", "dmidecode_board">>
    [] platform = "Windows"           -> <<"wmi_board", "wmic_board">>
    [] platform = "Darwin"            -> <<"ioreg_serial">>
    [] OTHER                          -> <<>>

(* The sources that may fail for a moment and be passed over. *)
Commands == {"cpuinfo", "dmidecode_cpu", "dmidecode_board", "wmi_cpu", "wmi_board",
             "wmic_cpu", "wmic_board", "ioreg_uuid", "profiler_uuid", "ioreg_serial"}

(* A machine-id that is there and cannot be opened ends the search; any    *)
(* other file is passed over. *)
EndsTheSearch(s) == s \in {"etc_machine_id", "dbus_machine_id"}

FirstValue(v, sources, lost, name) ==
  LET answers(s) == /\ s \in DOMAIN v.sources /\ s \notin lost
                    /\ v.sources[s] # Missing
                    /\ v.sources[s] = Unreadable => EndsTheSearch(s)
      found == {k \in DOMAIN sources :
                  answers(sources[k]) /\ \A j \in 1..(k - 1) : ~answers(sources[j])}
      values == {v.sources[sources[k]] : k \in found} \ {Unreadable}
  IN IF values = {} THEN [fallback |-> name, node |-> v.hostname]
     ELSE CHOOSE value \in values : TRUE

LocalHwid(v, lost) ==
  << FirstValue(v, CpuSources(v.platform), lost, "cpu"),
     FirstValue(v, BoardSources(v.platform), lost, "board"),
     v.mac >>

(* Mutant: the container is not asked for its host. *)
GenerateLocalHwid(v, lost) == LocalHwid(v, lost)

GenerateHwid(v, lost) ==
  LET host == GenerateDockerHwid(v, "default")
  IN IF IsDocker(v) /\ host # NoHwid THEN host ELSE LocalHwid(v, lost)
=============================================================================
