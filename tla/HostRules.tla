------------------------------ MODULE HostRules ------------------------------
(***************************************************************************)
(* What one host's output is turned into: parseHostOutput and the df filter *)
(* of collector/host.go, CheckHost of checker/rules.go.  HostCollect models *)
(* how the output is fetched; here it is a host's answer as a whole.        *)
(* A definition X_Change is a deliberately wrong variant of X.              *)
(***************************************************************************)
EXTENDS Probe

\* The sections of hostBatchCmd that a rule looks at, in the order they arrive.
HostSections == <<"LOADAVG", "FREE", "DF", "DFI", "ULIMIT", "CHRONYD", "SELINUX",
                  "FIREWALLD", "CPUCOUNT">>

\* What a host may have to say.  odd names the one reading that is not as it should
\* be; mounts are kinds of file systems, each mounted under its own name.
\* error: "ssh" of round one, "incomplete" of round two.
FileSystems == {"real", "nfs", "pseudo", "unlisted"}
Readings == {"none", "cpu", "mem", "disk", "inode", "files", "chronyd", "selinux",
             "firewalld", "load", "load-within-cores"}
HostAnswers ==
    [error : {"ssh", "incomplete"}, got : {0}, odd : {"none"}, mounts : {<<"real">>}]
    \cup [error : {""}, got : 0 .. Len(HostSections), odd : Readings,
          mounts : {<<"real">>, <<"pseudo", "nfs">>, <<"unlisted", "real", "nfs">>}]
HostGood == [error |-> "", got |-> Len(HostSections), odd |-> "none", mounts |-> <<"real">>]

-----------------------------------------------------------------------------
(* The df filter *)

\* Default: pseudo file systems never, network ones on demand, else the known ones.
shouldCollectFs(fs, nfs) == fs = "real" \/ (fs = "nfs" /\ nfs)

\* CHECK_MOUNT_PATH takes the place of the type filter, but for pseudo ones.
parseDiskUsage(mounts, paths, nfs) ==
    Keep(mounts, LAMBDA fs :
        fs # "pseudo" /\ IF paths # {} THEN fs \in paths ELSE shouldCollectFs(fs, nfs))

-----------------------------------------------------------------------------

\* HostMetrics.  A section that did not arrive leaves its field zero.
parseHostOutput(ip, a, cfg) ==
    LET Got(section) == \E k \in 1 .. a.got : HostSections[k] = section
        Odd(reading) == a.odd = reading
        Usage(section, reading) ==
            IF ~ Got(section) THEN <<>>
            ELSE [i \in DOMAIN parseDiskUsage(a.mounts, cfg.paths, cfg.nfs) |->
                    IF Odd(reading) THEN cfg.Thresholds[reading] ELSE 0]
    IN  [IP |-> ip,
         Error |-> IF a.error # "" THEN a.error
                   ELSE IF Got("DF") /\ Usage("DF", "disk") = <<>> THEN "disk" ELSE "",
         CPUUsage |-> IF Odd("cpu") THEN cfg.Thresholds["cpu"] ELSE 0,
         MemUsage |-> IF Got("FREE") /\ Odd("mem") THEN cfg.Thresholds["mem"] ELSE 0,
         DiskUsage |-> Usage("DF", "disk"),
         InodeUsage |-> Usage("DFI", "inode"),
         MaxOpenFiles |-> IF ~ Got("ULIMIT") THEN 0
                          ELSE cfg.Thresholds["max_open_files"] - (IF Odd("files") THEN 1 ELSE 0),
         SELinux |-> IF ~ Got("SELINUX") THEN ""
                     ELSE IF Odd("selinux") THEN "Enforcing" ELSE "Disabled",
         Firewalld |-> IF ~ Got("FIREWALLD") THEN ""
                       ELSE IF Odd("firewalld") THEN "active" ELSE "inactive",
         Chronyd |-> IF ~ Got("CHRONYD") THEN "" ELSE IF Odd("chronyd") THEN "inactive" ELSE "active",
         LoadAvg |-> IF ~ Got("LOADAVG") THEN <<0, 0, 0>>
                     ELSE CASE Odd("load") -> <<4, 3, 2>>
                            [] Odd("load-within-cores") -> <<3, 2, 1>>
                            [] OTHER -> <<0, 0, 0>>,
         Core |-> IF Got("CPUCOUNT") THEN 1 ELSE 0]

Expected_Blank(value, expected) == value \in {expected, "N/A", ""}

\* An empty text, of a section that did not arrive, is not what is expected.
Expected(value, expected) == value \in {expected, "N/A"}

\* HostMetrics.Error is not looked at.
CheckHost(h, t) ==
    LET Rule(ok, what) == OkOrWarn(ok, <<"host", h.IP, what>>)
        Below(value, what) == Rule(value < t[what], what)
        Disk(usage) == Below(usage, "disk")
        Inode(usage) == Below(usage, "inode")
        l == h.LoadAvg
    IN  Below(h.CPUUsage, "cpu") \o Below(h.MemUsage, "mem")
        \o RowsOfEach(h.DiskUsage, Disk) \o RowsOfEach(h.InodeUsage, Inode)
        \o Rule(h.MaxOpenFiles >= t["max_open_files"], "max_open_files")
        \o Rule(Expected(h.SELinux, "Disabled"), "selinux")
        \o Rule(Expected(h.Firewalld, "inactive"), "firewalld")
        \o Rule(Expected(h.Chronyd, "active"), "chronyd")
        \o Rule(~ (l[1] > l[2] /\ l[2] > l[3] /\ l[3] > h.Core), "load_average")
=============================================================================
